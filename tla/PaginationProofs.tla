-------------------------- MODULE PaginationProofs --------------------------
(***************************************************************************)
(* Pagination never stands still and keeps the text: whatever the blocks,   *)
(* the height of the page and the limits, every page moves the break token  *)
(* forward, and every line and box is on one page, once and in order.  And  *)
(* repagination after an edit never shows the first edited block as it was. *)
(*                                                                         *)
(* A page that turns without placing anything must have placed something    *)
(* before, so the first invariant says what a started page shows: the loop  *)
(* has left the position the page started at.  The second says of what is   *)
(* shown that it lies behind the position the loop has reached, in order,   *)
(* and that nothing behind that position is missing.  The third says what   *)
(* the previous result is, and what is kept of it.                          *)
(*                                                                         *)
(* The last part proves that incremental repagination is full pagination.  *)
(* A round is a function of the block, the height and the page, so a page   *)
(* has one trace from the position it starts at, and a chapter has one way  *)
(* to end.  A page kept looked only at blocks before the first edited one;  *)
(* a tail taken over only at blocks behind the last.                        *)
(***************************************************************************)
EXTENDS Repagination, FiniteSetTheorems, SequenceTheorems, TLAPS

USE PaginationAssumption

JobOK == job.blocks \in Seq(Block) /\ job.height \in Nat /\ job.fragments \in Nat

\* A page that holds something has moved on, and none starts at the end.
StartedMoved ==
  /\ page.at = page.start \/ Before(page.start, page.at)
  /\ Started => Before(page.start, page.at)
  /\ outcome = "paging" => ~AtEnd(page.start)

PInv == JobOK /\ PaginationTypeOK /\ StartedMoved /\ EveryPageProgresses

LEMMA JobTypes == ASSUME job \in Job PROVE JobOK
<1>1. PICK n \in 0 .. MaxBlocks : job.blocks \in [1 .. n -> Shapes]
  BY DEF Job
<1>2. n \in Nat
  OBVIOUS
<1>3. job.blocks \in Seq(Block)
  BY <1>1, <1>2
<1> QED
  BY <1>3 DEF Job, JobOK

\* A page without pieces holds no fragments, and a piece brings one and perhaps its marker.
LEMMA FragmentsGrow ==
  /\ FragmentsOf(<<>>) = 0
  /\ \A pieces \in Seq(PagePiece) : FragmentsOf(pieces) \in Nat
  /\ \A pieces \in Seq(PagePiece), piece \in PagePiece :
       FragmentsOf(Append(pieces, piece)) = FragmentsOf(pieces) + (IF piece.marker THEN 2 ELSE 1)
<1> DEFINE Marked(pieces) == {k \in DOMAIN pieces : pieces[k].marker}
<1>1. FragmentsOf(<<>>) = 0
  <2>1. Marked(<<>>) = {}
    OBVIOUS
  <2> QED
    BY <2>1, FS_EmptySet DEF FragmentsOf
<1>2. ASSUME NEW pieces \in Seq(PagePiece)
      PROVE  /\ IsFiniteSet(Marked(pieces)) /\ Cardinality(Marked(pieces)) \in Nat
             /\ Marked(pieces) \subseteq 1 .. Len(pieces) /\ Len(pieces) \in Nat
  <2> DEFINE S == Marked(pieces)
             T == 1 .. Len(pieces)
  <2>1. Len(pieces) \in Nat /\ DOMAIN pieces = 1 .. Len(pieces)
    OBVIOUS
  <2>2. IsFiniteSet(T) /\ S \subseteq T
    BY <2>1, FS_Interval
  <2> HIDE DEF S, T
  <2>3. IsFiniteSet(S) /\ Cardinality(S) \in Nat
    BY <2>2, FS_Subset, FS_CardinalityType
  <2> QED
    BY <2>1, <2>2, <2>3 DEF S, T
<1>3. ASSUME NEW pieces \in Seq(PagePiece), NEW piece \in PagePiece
      PROVE  FragmentsOf(Append(pieces, piece))
               = FragmentsOf(pieces) + (IF piece.marker THEN 2 ELSE 1)
  <2> DEFINE more == Append(pieces, piece)
             n == Len(pieces) + 1
             S == Marked(pieces)
             T == Marked(more)
  <2>1. /\ Len(more) = n /\ DOMAIN more = 1 .. n /\ more[n] = piece
        /\ \A k \in 1 .. Len(pieces) : more[k] = pieces[k]
        /\ DOMAIN pieces = 1 .. Len(pieces) /\ Len(pieces) \in Nat
    BY AppendProperties
  <2>2. n \notin S /\ IsFiniteSet(S) /\ Cardinality(S) \in Nat
    BY <1>2, <2>1
  <2>3. T = IF piece.marker THEN S \cup {n} ELSE S
    BY <2>1
  <2>4. FragmentsOf(more) = n + Cardinality(T) /\ FragmentsOf(pieces) = n - 1 + Cardinality(S)
    BY <2>1 DEF FragmentsOf
  <2> HIDE DEF S, T
  <2>5. Cardinality(S \cup {n}) = Cardinality(S) + 1
    BY <2>2, FS_AddElement
  <2>6. Cardinality(T) = Cardinality(S) + (IF piece.marker THEN 1 ELSE 0)
    BY <2>2, <2>3, <2>5
  <2>7. n \in Nat /\ Cardinality(S) \in Nat
    BY <2>1, <2>2
  <2> HIDE DEF n
  <2>8. CASE piece.marker
    BY <2>4, <2>6, <2>7, <2>8
  <2>9. CASE ~piece.marker
    BY <2>4, <2>6, <2>7, <2>9
  <2> QED
    BY <2>8, <2>9
<1>4. ASSUME NEW pieces \in Seq(PagePiece) PROVE FragmentsOf(pieces) \in Nat
  <2>1. FragmentsOf(pieces) = Len(pieces) + Cardinality(Marked(pieces))
    BY DEF FragmentsOf
  <2> HIDE DEF Marked
  <2> QED
    BY <1>2, <2>1
<1> QED
  BY <1>1, <1>3, <1>4

LEMMA NothingIsWithin == JobOK => WithinLimit(<<>>)
  BY FragmentsGrow DEF JobOK, WithinLimit

LEMMA OneMoreIsWithin ==
  ASSUME JobOK, NEW pieces \in Seq(PagePiece), NEW piece \in PagePiece,
         FragmentsOf(pieces) < job.fragments
  PROVE  WithinLimit(Append(pieces, piece))
<1>1. /\ Append(pieces, piece) # <<>>
      /\ Append(pieces, piece)[Len(Append(pieces, piece))] = piece
  BY AppendProperties
<1>2. FragmentsOf(Append(pieces, piece)) = FragmentsOf(pieces) + (IF piece.marker THEN 2 ELSE 1)
  BY FragmentsGrow
<1>3. FragmentsOf(pieces) \in Nat /\ job.fragments \in Nat /\ piece.marker \in BOOLEAN
  BY FragmentsGrow DEF JobOK, PagePiece
<1> QED
  BY <1>1, <1>2, <1>3 DEF WithinLimit

LEMMA InitPInv == PaginationInit => PInv
<1> SUFFICES ASSUME PaginationInit PROVE PInv
  OBVIOUS
<1>1. JobOK
  BY JobTypes DEF PaginationInit
<1>2. PaginationTypeOK
  BY <1>1, NothingIsWithin DEF PaginationInit, PaginationTypeOK, EmptyPage, Position, Token, JobOK
<1>3. StartedMoved /\ EveryPageProgresses
  BY <1>1 DEF PaginationInit, StartedMoved, EveryPageProgresses, Started, AtEnd, EmptyPage,
              Position, JobOK
<1> QED
  BY <1>1, <1>2, <1>3 DEF PInv

\* The lines that fit are the first ones.
LEMMA FittingLines ==
  ASSUME Remaining \in Nat, Remaining > 0
  PROVE  FitCount \in 1 .. Remaining /\ \A m \in 2 .. FitCount : Follows(m)
<1> DEFINE F == {n \in 1 .. Remaining : \A m \in 2 .. n : Follows(m)}
<1>1. \A r \in Nat : IsFiniteSet(1 .. r) /\ Cardinality(1 .. r) = r
  BY FS_Interval
<1>2. F \subseteq 1 .. Remaining /\ 1 \in F
  OBVIOUS
<1>3. ASSUME NEW m \in 2 .. Remaining, ~Follows(m) PROVE F \subseteq 1 .. m - 1
  BY <1>3
<1> HIDE DEF F
<1>4. ASSUME NEW r \in Nat, F \subseteq 1 .. r PROVE Cardinality(F) \in Nat /\ Cardinality(F) <= r
  <2> DEFINE R == 1 .. r
  <2>1. IsFiniteSet(R) /\ Cardinality(R) = r /\ F \in SUBSET R
    BY <1>1, <1>4
  <2> HIDE DEF R
  <2>2. IsFiniteSet(F) /\ Cardinality(F) <= Cardinality(R)
    BY <2>1, FS_Subset
  <2> QED
    BY <2>1, <2>2, FS_CardinalityType
<1>5. IsFiniteSet(F)
  <2>1. IsFiniteSet(1 .. Remaining) /\ F \in SUBSET (1 .. Remaining)
    BY <1>1, <1>2
  <2> QED
    BY <2>1, FS_Subset
<1>6. Cardinality(F) # 0
  BY <1>2, <1>5, FS_EmptySet
<1>7. Cardinality(F) \in 1 .. Remaining
  BY <1>2, <1>4, <1>6
<1>8. \A m \in 2 .. Cardinality(F) : Follows(m)
  <2> SUFFICES ASSUME NEW m \in 2 .. Cardinality(F), ~Follows(m) PROVE FALSE
    OBVIOUS
  <2>1. m \in 2 .. Remaining /\ m - 1 \in Nat
    BY <1>7
  <2> QED
    BY <1>3, <1>4, <2>1
<1> QED
  BY <1>7, <1>8 DEF FitCount, F

\* At least one line is taken, and no more than there are.
LEMMA TakenBounds ==
  ASSUME Remaining \in Nat, Remaining > 0
  PROVE  Taken \in 1 .. Remaining
BY FittingLines DEF Taken

\* A page that is closed at a token past its start, with pieces within the limit.
LEMMA ClosePreserves ==
  ASSUME PInv, NEW pieces \in Seq(PagePiece), WithinLimit(pieces),
         NEW next \in Token, Before(page.start, next), Close(pieces, next)
  PROVE  PInv'
<1> DEFINE P == [start : Token, pieces : Seq(PagePiece), next : Token \cup {None}]
           p == [start |-> page.start, pieces |-> pieces,
                 next |-> IF AtEnd(next) THEN None ELSE next]
<1> USE DEF PInv
<1>1. job' = job /\ JobOK'
  BY DEF Close, JobOK
<1>2. Token' = Token /\ PagePiece' = PagePiece
  BY <1>1 DEF Token, PagePiece
<1>3. pages \in Seq(P) /\ p \in P
  BY DEF PaginationTypeOK
<1>4. /\ pages' = Append(pages, p) /\ pages' \in Seq(P)
      /\ Len(pages') = Len(pages) + 1
      /\ DOMAIN pages = 1 .. Len(pages) /\ DOMAIN pages' = 1 .. Len(pages')
      /\ Len(pages) \in Nat
      /\ \A i \in 1 .. Len(pages) : pages'[i] = pages[i]
      /\ pages'[Len(pages) + 1] = p
  BY <1>3, AppendProperties DEF Close
<1>5. PaginationTypeOK'
  <2>1. page' \in [start : Token, at : Token, y : Int, pending : Int, pieces : Seq(PagePiece)]
    BY DEF Close, EmptyPage
  <2>2. WithinLimit(page'.pieces)
    BY NothingIsWithin DEF Close, EmptyPage
  <2>3. \A i \in DOMAIN pages' : WithinLimit(pages'[i].pieces)
    <3> SUFFICES ASSUME NEW i \in 1 .. Len(pages) + 1
                 PROVE  WithinLimit(pages'[i].pieces)
      BY <1>4
    <3>1. CASE i \in 1 .. Len(pages)
      BY <1>4, <3>1 DEF PaginationTypeOK
    <3>2. CASE i = Len(pages) + 1
      BY <1>4, <3>2
    <3> QED
      BY <3>1, <3>2, <1>4
  <2>4. outcome' \in {"paging", "built"}
    BY DEF Close
  <2> QED
    BY <1>1, <1>2, <1>4, <2>1, <2>2, <2>3, <2>4 DEF PaginationTypeOK, WithinLimit
<1>6. StartedMoved'
  BY <1>1 DEF StartedMoved, Close, EmptyPage, Started, AtEnd
<1>7. EveryPageProgresses'
  <2> SUFFICES ASSUME NEW i \in 1 .. Len(pages) + 1
               PROVE  pages'[i].next = None \/ Before(pages'[i].start, pages'[i].next)
    BY <1>4 DEF EveryPageProgresses
  <2>1. CASE i \in 1 .. Len(pages)
    BY <1>4, <2>1 DEF EveryPageProgresses
  <2>2. CASE i = Len(pages) + 1
    BY <1>4, <2>2
  <2> QED
    BY <1>4, <2>1, <2>2
<1> QED
  BY <1>1, <1>5, <1>6, <1>7

\* What every round of the loop knows of the block it is at.
LEMMA RoundFacts ==
  ASSUME PInv, Loop
  PROVE  /\ Current \in Block
         /\ NextBlock \in Token /\ Before(page.start, NextBlock)
         /\ page.at \in Token
<1>1. /\ page.start \in Token /\ page.at \in Token
      /\ page.at = page.start \/ Before(page.start, page.at)
  BY DEF PInv, PaginationTypeOK, StartedMoved
<1>2. page.at.block \in 1 .. Len(job.blocks) /\ Len(job.blocks) \in Nat
  BY <1>1 DEF PInv, JobOK, Loop, AtEnd, Token
<1>3. Current \in Block
  BY <1>2, ElementOfSeq DEF PInv, JobOK, Current
<1>4. NextBlock \in Token /\ Before(page.start, NextBlock)
  <2>1. NextBlock.block = page.at.block + 1 /\ NextBlock.line = 0 /\ NextBlock \in Token
    BY <1>2 DEF NextBlock, Position, Token
  <2>2. page.start.block \in Nat /\ page.start.block <= page.at.block
    BY <1>1, <1>2 DEF Token, Before
  <2> QED
    BY <1>2, <2>1, <2>2 DEF Before
<1> QED
  BY <1>1, <1>3, <1>4

\* A page that has been started may be closed where the loop is.
LEMMA TurnPreserves ==
  ASSUME PInv, Turn, Before(page.start, page.at)
  PROVE  PInv'
<1>1. page.pieces \in Seq(PagePiece) /\ page.at \in Token /\ WithinLimit(page.pieces)
  BY DEF PInv, PaginationTypeOK
<1> QED
  BY <1>1, ClosePreserves DEF Turn

LEMMA SkipPreserves ==
  ASSUME PInv, Loop, Skip
  PROVE  PInv'
<1>1. NextBlock \in Token /\ Before(page.start, NextBlock)
  BY RoundFacts
<1>2. /\ page'.start = page.start /\ page'.at = NextBlock /\ page'.pieces = page.pieces
      /\ page' \in [start : Token, at : Token, y : Int, pending : Int, pieces : Seq(PagePiece)]
      /\ UNCHANGED <<job, pages, outcome>>
  BY <1>1 DEF Skip, PInv, PaginationTypeOK
<1>3. Token' = Token /\ PagePiece' = PagePiece
  BY <1>2 DEF Token, PagePiece
<1>4. PaginationTypeOK'
  BY <1>2, <1>3 DEF PInv, PaginationTypeOK, WithinLimit
<1> QED
  BY <1>1, <1>2, <1>4 DEF PInv, JobOK, StartedMoved, EveryPageProgresses, Started, AtEnd

LEMMA PutPreserves ==
  ASSUME PInv, Round, NEW piece \in PagePiece, Put(piece)
  PROVE  PInv'
<1>1. NextBlock \in Token /\ Before(page.start, NextBlock) /\ Current \in Block
  BY RoundFacts DEF Round
<1>2. piece.bottom + Current.paddingBottom \in Int /\ Current.marginBottom \in Int
  BY <1>1 DEF Block, PagePiece
<1>3. /\ page.pieces \in Seq(PagePiece)
      /\ Append(page.pieces, piece) \in Seq(PagePiece)
      /\ WithinLimit(Append(page.pieces, piece))
  BY AppendProperties, OneMoreIsWithin DEF PInv, PaginationTypeOK, Round
<1>4. /\ page'.start = page.start /\ page'.at = NextBlock
      /\ page'.pieces = Append(page.pieces, piece)
      /\ page' \in [start : Token, at : Token, y : Int, pending : Int, pieces : Seq(PagePiece)]
      /\ UNCHANGED <<job, pages, outcome>>
  BY <1>1, <1>2, <1>3 DEF Put, PInv, PaginationTypeOK
<1>5. Token' = Token /\ PagePiece' = PagePiece
  BY <1>4 DEF Token, PagePiece
<1>6. PaginationTypeOK'
  BY <1>3, <1>4, <1>5 DEF PInv, PaginationTypeOK, WithinLimit
<1> QED
  BY <1>1, <1>4, <1>6 DEF PInv, JobOK, StartedMoved, EveryPageProgresses, Started, AtEnd

LEMMA TopIsInt == ASSUME PInv, Loop PROVE Top \in Int
<1>1. Current.marginTop \in Int /\ Current.paddingTop \in Int
  BY RoundFacts DEF Block
<1>2. page.y \in Int /\ page.pending \in Int
  BY DEF PInv, PaginationTypeOK
<1>3. Collapse(page.pending, Current.marginTop) \in Int
  BY <1>1, <1>2 DEF Collapse
<1> QED
  BY <1>1, <1>2, <1>3 DEF Top

\* Lines end one below the other.
LEMMA LineEnds ==
  ASSUME Top \in Int, NEW n \in Nat
  PROVE  Ends(n) \in Int /\ Ends(n) >= Top /\ Ends(n + 1) = Ends(n) + LineHeight
<1>1. LineHeight \in Nat
  OBVIOUS
<1>2. \A k, h \in Nat : k * h \in Nat /\ (k + 1) * h = k * h + h
  OBVIOUS
<1>3. n * LineHeight \in Nat /\ (n + 1) * LineHeight = n * LineHeight + LineHeight
  BY <1>1, <1>2
<1> QED
  BY <1>1, <1>3 DEF Ends

\* The lines placed are a piece of the block, and end after they start.
LEMMA LinesArePiece ==
  ASSUME PInv, Loop, Remaining > 0
  PROVE  /\ Lines \in PagePiece
         /\ Lines.to \in Nat /\ Lines.to > page.at.line
<1>1. /\ Current \in Block /\ page.at.line \in Nat
      /\ page.at.block \in 1 .. Len(job.blocks)
  BY RoundFacts DEF Loop, AtEnd, Token, PInv, JobOK
<1>2. Current.content \in Nat /\ Current.marker \in BOOLEAN /\ Remaining \in Nat
  BY <1>1 DEF Remaining, Block
<1>3. Taken \in Nat /\ Taken > 0
  BY <1>2, TakenBounds
<1>4. Top \in Int /\ Ends(Taken) \in Int
  BY <1>3, TopIsInt, LineEnds
<1>5. (Current.marker /\ page.at.line = 0) \in BOOLEAN
  OBVIOUS
<1> QED
  BY <1>1, <1>2, <1>3, <1>4, <1>5 DEF Lines, PagePiece

LEMMA BoxIsPiece ==
  ASSUME PInv, Loop
  PROVE  TheBox \in PagePiece
<1>1. Current \in Block /\ page.at.block \in 1 .. Len(job.blocks) /\ job.height \in Nat
  BY RoundFacts DEF Loop, AtEnd, Token, PInv, JobOK
<1>2. Current.content \in Nat /\ Height \in Int
  BY <1>1 DEF Height, AtLeastOne, Block
<1>3. Clipped \in Int
  BY <1>1, <1>2, TopIsInt DEF Clipped, AtLeastOne
<1>4. Moved \in Int
  <2>1. job.height - Top - Current.paddingBottom - Clipped \in Int
    BY <1>1, <1>3, TopIsInt DEF Block
  <2> QED
    BY <2>1 DEF Moved
<1> QED
  BY <1>1, <1>2, <1>3, <1>4, TopIsInt DEF TheBox, PagePiece

-----------------------------------------------------------------------------

LEMMA AppendedFits ==
  ASSUME PInv, Round, NEW piece \in PagePiece
  PROVE  /\ Append(page.pieces, piece) \in Seq(PagePiece)
         /\ WithinLimit(Append(page.pieces, piece))
  BY AppendProperties, OneMoreIsWithin DEF PInv, PaginationTypeOK, Round

LEMMA NextPInv == PInv /\ [PaginationNext]_paginationVars => PInv'
<1> SUFFICES ASSUME PInv, [PaginationNext]_paginationVars PROVE PInv'
  OBVIOUS
<1> USE DEF Place, Text, PlaceBox
<1>1. CASE TooManyFragments \/ PageLimit \/ Validate
  <2>1. UNCHANGED <<job, pages, page>> /\ outcome' \in {"error", "complete"}
    BY <1>1 DEF TooManyFragments, PageLimit, Validate
  <2>2. Token' = Token /\ PagePiece' = PagePiece
    BY <2>1 DEF Token, PagePiece
  <2> QED
    BY <2>1, <2>2 DEF PInv, JobOK, PaginationTypeOK, WithinLimit, StartedMoved, EveryPageProgresses,
                      Started
<1>2. CASE BreakBefore \/ KeepWithNext \/ NoFit \/ BoxNoFit
  <2>1. Turn /\ Started
    BY <1>2 DEF BreakBefore, KeepWithNext, KeptWithNext, NoFit, Refused, BoxNoFit
  <2> QED
    BY <2>1, TurnPreserves DEF PInv, StartedMoved
<1>3. CASE ForcedBreak \/ Invisible
  <2>1. Loop /\ (Skip \/ Close(page.pieces, NextBlock))
    BY <1>3 DEF ForcedBreak, Invisible, Round
  <2>2. page.pieces \in Seq(PagePiece) /\ WithinLimit(page.pieces)
    BY DEF PInv, PaginationTypeOK
  <2> QED
    BY <2>1, <2>2, SkipPreserves, ClosePreserves, RoundFacts
<1>4. CASE Split
  <2>1. /\ Round /\ Loop /\ Remaining > 0
        /\ Close(Append(page.pieces, Lines), Position(page.at.block, Lines.to))
    BY <1>4 DEF Split, Round
  <2>2. Lines \in PagePiece /\ Lines.to \in Nat /\ Lines.to > page.at.line
    BY <2>1, LinesArePiece
  <2>3. /\ Position(page.at.block, Lines.to) \in Token
        /\ Before(page.start, Position(page.at.block, Lines.to))
    BY <2>1, <2>2, RoundFacts DEF Position, Token, Before, PInv, StartedMoved, PaginationTypeOK
  <2> QED
    BY <2>1, <2>2, <2>3, AppendedFits, ClosePreserves
<1>5. CASE Whole
  <2>1. /\ Round /\ Loop /\ Remaining > 0
        /\ Put(Lines) \/ Close(Append(page.pieces, Lines), NextBlock)
    BY <1>5 DEF Whole, Round
  <2>2. Lines \in PagePiece
    BY <2>1, LinesArePiece
  <2> QED
    BY <2>1, <2>2, RoundFacts, AppendedFits, PutPreserves, ClosePreserves
<1>6. CASE Box
  <2>1. Round /\ Loop /\ Put(TheBox)
    BY <1>6 DEF Box, Round
  <2> QED
    BY <2>1, BoxIsPiece, PutPreserves
<1>7. CASE LastPage
  <2>1. Turn /\ outcome = "paging" /\ AtEnd(page.at)
    BY <1>7 DEF LastPage
  <2>2. Before(page.start, page.at)
    BY <2>1 DEF PInv, StartedMoved
  <2> QED
    BY <2>1, <2>2, TurnPreserves
<1>8. CASE UNCHANGED paginationVars
  <2>1. UNCHANGED <<job, pages, page, outcome>>
    BY <1>8 DEF paginationVars
  <2>2. Token' = Token /\ PagePiece' = PagePiece
    BY <2>1 DEF Token, PagePiece
  <2> QED
    BY <2>1, <2>2 DEF PInv, JobOK, PaginationTypeOK, WithinLimit, StartedMoved, EveryPageProgresses,
                      Started, AtEnd
<1> QED
  BY <1>1, <1>2, <1>3, <1>4, <1>5, <1>6, <1>7, <1>8 DEF PaginationNext

(* Break tokens, pieces and fragment counts stay within their bounds, for   *)
(* any blocks, heights and limits.                                          *)
THEOREM PaginationTypeCorrect == PaginationSpec => []PaginationTypeOK
  BY InitPInv, NextPInv, PTL DEF PaginationSpec, PInv

(* Every page the page builder returns moves the break token forward, so    *)
(* that paginate_prepared_blocks never builds the same page again.          *)
THEOREM PaginationProgresses == PaginationSpec => []EveryPageProgresses
  BY InitPInv, NextPInv, PTL DEF PaginationSpec, PInv

-----------------------------------------------------------------------------
(* Every line is on one page *)

AtOrBefore(p, q) == ~Before(q, p)

Beginning(p) == Position(p.block, p.from)
Ending(p) == Position(p.block, p.to)

\* What is shown lies behind the position the loop has reached, each piece
\* behind those before it, and nothing behind that position is missing.
ShownBehind == \A s \in Spots : AtOrBefore(Ending(At(s)), page.at)

ShownInOrder ==
  \A s, t \in Spots : InOrder(s, t) => AtOrBefore(Ending(At(s)), Beginning(At(t)))

Shows(s, b, unit) == At(s).block = b /\ unit \in At(s).from .. At(s).to - 1

AllShown ==
  \A b \in DOMAIN job.blocks : \A unit \in 0 .. Units(job.blocks[b]) - 1 :
    Before(Position(b, unit), page.at) => \E s \in Spots : Shows(s, b, unit)

\* Only text is split, and not behind its last line.
SplitText ==
  page.at.line > 0 => ~AtEnd(page.at) /\ Current.kind = "text" /\ page.at.line <= Current.lines

TextInv == PInv /\ ShownBehind /\ ShownInOrder /\ AllShown /\ SplitText

\* The spots of some sheets, and of one more.
LEMMA SpotsOf ==
  ASSUME NEW Q, NEW P, \A p \in P : p.pieces \in Seq(Q),
         NEW ps \in Seq(P), NEW last, last.pieces \in Seq(Q)
  PROVE  LET sheets == Append(ps, last)
             piecesOn(i) == IF i <= Len(ps) THEN ps[i].pieces ELSE last.pieces
         IN  /\ Len(ps) \in Nat
             /\ \A s : s \in UNION {{i} \X DOMAIN sheets[i].pieces : i \in DOMAIN sheets}
                    <=> \E i \in 1 .. Len(ps) + 1 : \E k \in 1 .. Len(piecesOn(i)) : s = <<i, k>>
             /\ \A i \in 1 .. Len(ps) + 1 :
                  sheets[i].pieces = piecesOn(i) /\ piecesOn(i) \in Seq(Q)
<1> DEFINE sheets == Append(ps, last)
           piecesOn(i) == IF i <= Len(ps) THEN ps[i].pieces ELSE last.pieces
<1>1. /\ Len(ps) \in Nat /\ DOMAIN sheets = 1 .. Len(ps) + 1
      /\ \A i \in 1 .. Len(ps) : sheets[i] = ps[i]
      /\ sheets[Len(ps) + 1] = last
  <2>1. ps \in Seq(P \cup {last}) /\ last \in P \cup {last} /\ Len(ps) \in Nat
    OBVIOUS
  <2>2. Append(ps, last) \in Seq(P \cup {last}) /\ Len(Append(ps, last)) = Len(ps) + 1
    BY <2>1, AppendProperties
  <2> QED
    BY <2>1, <2>2, AppendProperties
<1>2. \A i \in 1 .. Len(ps) : ps[i].pieces \in Seq(Q)
  BY ElementOfSeq
<1>3. ASSUME NEW i \in 1 .. Len(ps) + 1
      PROVE  /\ sheets[i].pieces = piecesOn(i) /\ piecesOn(i) \in Seq(Q)
             /\ DOMAIN sheets[i].pieces = 1 .. Len(piecesOn(i))
  <2>1. CASE i <= Len(ps)
    BY <1>1, <1>2, <2>1
  <2>2. CASE i = Len(ps) + 1
    BY <1>1, <2>2
  <2> QED
    BY <1>1, <2>1, <2>2
<1> HIDE DEF sheets, piecesOn
<1>4. ASSUME NEW s
      PROVE  s \in UNION {{i} \X DOMAIN sheets[i].pieces : i \in DOMAIN sheets}
               <=> \E i \in 1 .. Len(ps) + 1 : \E k \in 1 .. Len(piecesOn(i)) : s = <<i, k>>
  BY <1>1, <1>3
<1> QED
  BY <1>1, <1>3, <1>4 DEF sheets, piecesOn

PiecesOn(i) == IF i <= Len(pages) THEN pages[i].pieces ELSE page.pieces

LEMMA SpotsNow ==
  ASSUME PaginationTypeOK
  PROVE  /\ Len(pages) \in Nat
         /\ \A s : s \in Spots <=>
              \E i \in 1 .. Len(pages) + 1 : \E k \in 1 .. Len(PiecesOn(i)) : s = <<i, k>>
         /\ \A i \in 1 .. Len(pages) + 1 :
              Sheets[i].pieces = PiecesOn(i) /\ PiecesOn(i) \in Seq(PagePiece)
<1> DEFINE P == [start : Token, pieces : Seq(PagePiece), next : Token \cup {None}]
           last == [start |-> page.start, pieces |-> page.pieces, next |-> page.at]
<1>1. pages \in Seq(P) /\ last.pieces \in Seq(PagePiece) /\ \A p \in P : p.pieces \in Seq(PagePiece)
  BY DEF PaginationTypeOK
<1>2. last.pieces = page.pieces
  OBVIOUS
<1> HIDE DEF P
<1> QED
  BY <1>1, <1>2, SpotsOf DEF Spots, Sheets, PiecesOn

LEMMA SpotsNext ==
  ASSUME PaginationTypeOK'
  PROVE  /\ Len(pages') \in Nat
         /\ \A s : s \in Spots' <=>
              \E i \in 1 .. Len(pages') + 1 : \E k \in 1 .. Len(PiecesOn(i)') : s = <<i, k>>
         /\ \A i \in 1 .. Len(pages') + 1 :
              Sheets'[i].pieces = PiecesOn(i)' /\ PiecesOn(i)' \in Seq(PagePiece')
<1> DEFINE P == [start : Token', pieces : Seq(PagePiece'), next : Token' \cup {None}]
           last == [start |-> page'.start, pieces |-> page'.pieces, next |-> page'.at]
<1>1. /\ pages' \in Seq(P) /\ last.pieces \in Seq(PagePiece')
      /\ \A p \in P : p.pieces \in Seq(PagePiece')
  BY DEF PaginationTypeOK, None
<1>2. last.pieces = page'.pieces
  OBVIOUS
<1> HIDE DEF P
<1> QED
  BY <1>1, <1>2, SpotsOf DEF Spots, Sheets, PiecesOn

\* What closing a page leaves: one page more, with its pieces, and an empty one.
LEMMA Closed ==
  ASSUME PaginationTypeOK, NEW pieces, NEW next, Close(pieces, next)
  PROVE  /\ Len(pages) \in Nat /\ Len(pages') = Len(pages) + 1
         /\ \A i \in 1 .. Len(pages) : pages'[i] = pages[i]
         /\ pages'[Len(pages) + 1].pieces = pieces
         /\ page'.pieces = <<>> /\ page'.at = next
<1> DEFINE P == [start : Token, pieces : Seq(PagePiece), next : Token \cup {None}]
           p == [start |-> page.start, pieces |-> pieces,
                 next |-> IF AtEnd(next) THEN None ELSE next]
<1>1. pages \in Seq(P)
  BY DEF PaginationTypeOK
<1>2. pages' = Append(pages, p) /\ page' = EmptyPage(next)
  BY DEF Close
<1>3. p.pieces = pieces
  OBVIOUS
<1> HIDE DEF P, p
<1>4. pages \in Seq(P \cup {p}) /\ p \in P \cup {p}
  BY <1>1
<1> QED
  BY <1>2, <1>3, <1>4, AppendProperties DEF EmptyPage

\* The pages show what they showed.
LEMMA SameSpots ==
  ASSUME PaginationTypeOK, PaginationTypeOK',
         (UNCHANGED pages /\ page'.pieces = page.pieces) \/ (\E next : Close(page.pieces, next))
  PROVE  Spots' = Spots /\ \A s \in Spots : At(s)' = At(s)
<1>1. /\ Len(pages) \in Nat /\ Len(pages') \in Nat
      /\ Len(pages') \in {Len(pages), Len(pages) + 1}
      /\ \A i \in 1 .. Len(pages) + 1 : PiecesOn(i)' = PiecesOn(i)
      /\ \A i \in 1 .. Len(pages') + 1 : i > Len(pages) + 1 => PiecesOn(i)' = <<>>
  <2>1. CASE UNCHANGED pages /\ page'.pieces = page.pieces
    BY <2>1, SpotsNow DEF PiecesOn
  <2>2. CASE \E next : Close(page.pieces, next)
    BY <2>2, Closed DEF PiecesOn
  <2> QED
    BY <2>1, <2>2
<1>2. \A i \in Nat : \A k \in Nat : (i \in 1 .. Len(pages') + 1 /\ k \in 1 .. Len(PiecesOn(i)'))
        <=> (i \in 1 .. Len(pages) + 1 /\ k \in 1 .. Len(PiecesOn(i)))
  BY <1>1
<1>3. ASSUME NEW s PROVE s \in Spots' <=> s \in Spots
  <2>1. s \in Spots' <=> \E i \in Nat : \E k \in Nat :
          i \in 1 .. Len(pages') + 1 /\ k \in 1 .. Len(PiecesOn(i)') /\ s = <<i, k>>
    BY SpotsNext
  <2>2. s \in Spots <=> \E i \in Nat : \E k \in Nat :
          i \in 1 .. Len(pages) + 1 /\ k \in 1 .. Len(PiecesOn(i)) /\ s = <<i, k>>
    BY SpotsNow
  <2> QED
    BY <1>2, <2>1, <2>2
<1>4. ASSUME NEW s \in Spots PROVE At(s)' = At(s)
  <2>1. PICK i \in 1 .. Len(pages) + 1 : \E k \in 1 .. Len(PiecesOn(i)) : s = <<i, k>>
    BY SpotsNow
  <2>2. Sheets[i].pieces = PiecesOn(i) /\ Sheets'[i].pieces = PiecesOn(i)'
    BY <1>1, SpotsNow, SpotsNext
  <2> QED
    BY <1>1, <2>1, <2>2 DEF At
<1> QED
  BY <1>3, <1>4

NextSpot == <<Len(pages) + 1, Len(page.pieces) + 1>>

\* The pages show one piece more, behind all others.
LEMMA OneSpotMore ==
  ASSUME PaginationTypeOK, PaginationTypeOK', NEW piece \in PagePiece,
         Put(piece) \/ (\E next : Close(Append(page.pieces, piece), next))
  PROVE  /\ Spots' = Spots \cup {NextSpot}
         /\ \A s \in Spots : At(s)' = At(s) /\ InOrder(s, NextSpot) /\ ~InOrder(NextSpot, s)
         /\ NextSpot \notin Spots /\ ~InOrder(NextSpot, NextSpot)
         /\ Sheets'[NextSpot[1]].pieces[NextSpot[2]] = piece
<1> DEFINE more == Append(page.pieces, piece)
<1>0. PICK n \in Nat : n = Len(pages) + 1 /\ Len(pages) \in Nat
  BY SpotsNow
<1>1. /\ page.pieces \in Seq(PagePiece) /\ more \in Seq(PagePiece)
      /\ Len(page.pieces) \in Nat /\ Len(more) = Len(page.pieces) + 1
      /\ \A k \in 1 .. Len(page.pieces) : more[k] = page.pieces[k]
      /\ more[Len(page.pieces) + 1] = piece
  BY AppendProperties DEF PaginationTypeOK
<1> HIDE DEF more
<1>2. /\ Len(pages) \in Nat /\ Len(pages') \in Nat
      /\ Len(pages') \in {Len(pages), Len(pages) + 1}
      /\ \A i \in 1 .. Len(pages) : PiecesOn(i)' = PiecesOn(i)
      /\ PiecesOn(n) = page.pieces
      /\ PiecesOn(n)' = more
      /\ \A i \in 1 .. Len(pages') + 1 : i > n => PiecesOn(i)' = <<>>
  <2>1. CASE Put(piece)
    <3>1. UNCHANGED pages /\ page'.pieces = more
      BY <2>1 DEF Put, more, PaginationTypeOK
    <3>2. Len(pages) \in Nat
      BY <1>0, SpotsNow
    <3>3. /\ Len(pages') = Len(pages)
          /\ \A i \in 1 .. Len(pages) : PiecesOn(i)' = PiecesOn(i)
      BY <1>0, <3>1, <3>2 DEF PiecesOn
    <3>4. PiecesOn(n) = page.pieces /\ PiecesOn(n)' = page'.pieces
      BY <1>0, <3>1, <3>2 DEF PiecesOn
    <3> QED
      BY <1>0, <3>1, <3>2, <3>3, <3>4
  <2>2. CASE \E next : Close(Append(page.pieces, piece), next)
    <3>1. /\ Len(pages') = Len(pages) + 1
          /\ \A i \in 1 .. Len(pages) : pages'[i] = pages[i]
          /\ pages'[n].pieces = more /\ page'.pieces = <<>>
      BY <1>0, <2>2, Closed DEF more
    <3>2. /\ PiecesOn(n) = page.pieces /\ PiecesOn(n)' = more
          /\ \A i \in 1 .. Len(pages) : PiecesOn(i)' = PiecesOn(i)
          /\ \A i \in 1 .. Len(pages') + 1 : i > n => PiecesOn(i)' = <<>>
      BY <1>0, <3>1 DEF PiecesOn
    <3> QED
      BY <1>0, <3>1, <3>2
  <2> QED
    BY <2>1, <2>2
<1>3. ASSUME NEW i \in 1 .. Len(pages) PROVE Len(PiecesOn(i)) \in Nat
  BY SpotsNow
<1>4. ASSUME NEW i \in Nat, NEW k \in Nat
      PROVE  (i \in 1 .. Len(pages') + 1 /\ k \in 1 .. Len(PiecesOn(i)'))
               <=> (i \in 1 .. n /\ k \in 1 .. Len(PiecesOn(i))) \/ <<i, k>> = NextSpot
  <2>1. CASE i \in 1 .. Len(pages)
    BY <1>0, <1>2, <1>3, <2>1 DEF NextSpot
  <2>2. CASE i = n
    <3>1. Len(PiecesOn(i)) = Len(page.pieces) /\ Len(PiecesOn(i)') = Len(page.pieces) + 1
      BY <1>1, <1>2, <2>2
    <3>2. i \in 1 .. Len(pages') + 1
      BY <1>0, <1>2, <2>2
    <3>3. <<i, k>> = NextSpot <=> k = Len(page.pieces) + 1
      BY <1>0, <2>2 DEF NextSpot
    <3> QED
      BY <1>0, <1>1, <2>2, <3>1, <3>2, <3>3
  <2>3. CASE i \notin 1 .. n
    <3>1. i \in 1 .. Len(pages') + 1 => Len(PiecesOn(i)') = 0
      BY <1>0, <1>2, <2>3
    <3> QED
      BY <1>0, <2>3, <3>1 DEF NextSpot
  <2> QED
    BY <1>0, <2>1, <2>2, <2>3
<1>5. ASSUME NEW s PROVE s \in Spots' <=> s \in Spots \cup {NextSpot}
  <2>1. s \in Spots' <=> \E i \in Nat : \E k \in Nat :
          i \in 1 .. Len(pages') + 1 /\ k \in 1 .. Len(PiecesOn(i)') /\ s = <<i, k>>
    BY SpotsNext
  <2>2. s \in Spots <=> \E i \in Nat : \E k \in Nat :
          i \in 1 .. n /\ k \in 1 .. Len(PiecesOn(i)) /\ s = <<i, k>>
    BY <1>0, SpotsNow
  <2>3. NextSpot \in Nat \X Nat
    BY <1>0, <1>1, <1>2 DEF NextSpot
  <2> QED
    BY <1>4, <2>1, <2>2, <2>3
<1>6. ASSUME NEW s \in Spots
      PROVE  At(s)' = At(s) /\ InOrder(s, NextSpot) /\ ~InOrder(NextSpot, s)
  <2>1. PICK i \in 1 .. n : \E k \in 1 .. Len(PiecesOn(i)) : s = <<i, k>>
    BY <1>0, SpotsNow
  <2>2. PICK k \in 1 .. Len(PiecesOn(i)) : s = <<i, k>>
    BY <2>1
  <2>3. Sheets[i].pieces = PiecesOn(i) /\ Sheets'[i].pieces = PiecesOn(i)'
    BY <1>0, <1>2, SpotsNow, SpotsNext
  <2>4. i \in 1 .. Len(pages) \/ (i = n /\ k \in 1 .. Len(page.pieces))
    BY <1>0, <1>2, <2>2
  <2>5. (PiecesOn(i)')[k] = PiecesOn(i)[k]
    <3>1. CASE i \in 1 .. Len(pages)
      BY <1>2, <3>1
    <3>2. CASE i = n /\ k \in 1 .. Len(page.pieces)
      <4>1. PiecesOn(i)' = more /\ PiecesOn(i) = page.pieces
        BY <1>2, <3>2
      <4> QED
        BY <1>1, <3>2, <4>1
    <3> QED
      BY <2>4, <3>1, <3>2
  <2>6. At(s)' = At(s)
    <3>1. s[1] = i /\ s[2] = k
      BY <2>2
    <3> QED
      BY <2>3, <2>5, <3>1 DEF At
  <2> QED
    BY <1>0, <1>1, <1>2, <2>2, <2>4, <2>6 DEF InOrder, NextSpot
<1>7. Sheets'[NextSpot[1]].pieces[NextSpot[2]] = piece
  BY <1>0, <1>1, <1>2, SpotsNext DEF NextSpot
<1>8. ~InOrder(NextSpot, NextSpot)
  BY <1>0, <1>1, <1>2 DEF InOrder, NextSpot
<1> QED
  BY <1>5, <1>6, <1>7, <1>8

LEMMA PiecesTyped == ASSUME PaginationTypeOK, NEW s \in Spots PROVE At(s) \in PagePiece
<1>1. PICK i \in 1 .. Len(pages) + 1 : \E k \in 1 .. Len(PiecesOn(i)) : s = <<i, k>>
  BY SpotsNow
<1>2. PICK k \in 1 .. Len(PiecesOn(i)) : s = <<i, k>>
  BY <1>1
<1>3. At(s) = PiecesOn(i)[k] /\ PiecesOn(i) \in Seq(PagePiece)
  BY <1>2, SpotsNow DEF At
<1> QED
  BY <1>2, <1>3, ElementOfSeq

Positions == [block : Nat, line : Nat]

LEMMA PiecePositions ==
  ASSUME JobOK, NEW p \in PagePiece
  PROVE  Beginning(p) \in Positions /\ Ending(p) \in Positions /\ Before(Beginning(p), Ending(p))
BY DEF PagePiece, Beginning, Ending, Position, Positions, Before, JobOK

LEMMA BeforeOrder ==
  \A p, q, r \in Positions :
    /\ AtOrBefore(p, q) /\ AtOrBefore(q, r) => AtOrBefore(p, r)
    /\ Before(p, q) => AtOrBefore(p, q)
    /\ Before(p, q) /\ AtOrBefore(q, r) => Before(p, r)
    /\ AtOrBefore(p, q) /\ Before(q, r) => Before(p, r)
    /\ AtOrBefore(p, p)
BY DEF Positions, Before, AtOrBefore

LEMMA AtPosition == ASSUME PInv PROVE page.at \in Positions
BY DEF PInv, PaginationTypeOK, Token, Positions, JobOK

\* No unit of a block lies between two positions.
NothingBetween(p, q) ==
  \A b \in DOMAIN job.blocks : \A unit \in 0 .. Units(job.blocks[b]) - 1 :
    Before(Position(b, unit), q) => Before(Position(b, unit), p)

LEMMA StillShown ==
  ASSUME TextInv, PInv', job' = job,
         (UNCHANGED pages /\ page'.pieces = page.pieces) \/ (\E next : Close(page.pieces, next)),
         page'.at \in Positions, AtOrBefore(page.at, page'.at), NothingBetween(page.at, page'.at)
  PROVE  (ShownBehind /\ ShownInOrder /\ AllShown)'
<1>1. Spots' = Spots /\ \A s \in Spots : At(s)' = At(s)
  BY SameSpots DEF TextInv, PInv
<1>2. page.at \in Positions /\ \A s \in Spots : Ending(At(s)) \in Positions
  BY AtPosition, PiecesTyped, PiecePositions DEF TextInv, PInv
<1>3. ShownBehind'
  <2> SUFFICES ASSUME NEW s \in Spots PROVE AtOrBefore(Ending(At(s)), page'.at)
    BY <1>1 DEF ShownBehind, Ending
  <2> QED
    BY <1>2, BeforeOrder DEF TextInv, ShownBehind
<1>4. ShownInOrder'
  BY <1>1 DEF TextInv, ShownInOrder, Ending, Beginning
<1>5. AllShown'
  <2> SUFFICES ASSUME NEW b \in DOMAIN job.blocks, NEW unit \in 0 .. Units(job.blocks[b]) - 1,
                      Before(Position(b, unit), page'.at)
               PROVE  \E s \in Spots : At(s)'.block = b /\ unit \in At(s)'.from .. At(s)'.to - 1
    BY <1>1 DEF AllShown, Shows
  <2>1. Before(Position(b, unit), page.at)
    BY DEF NothingBetween
  <2>2. PICK s \in Spots : Shows(s, b, unit)
    BY <2>1 DEF TextInv, AllShown
  <2> QED
    BY <1>1, <2>2 DEF Shows
<1> QED
  BY <1>3, <1>4, <1>5

LEMMA MoreShown ==
  ASSUME TextInv, PInv', job' = job, NEW piece \in PagePiece,
         Put(piece) \/ (\E next : Close(Append(page.pieces, piece), next)),
         Beginning(piece) = page.at,
         page'.at \in Positions, AtOrBefore(Ending(piece), page'.at),
         NothingBetween(Ending(piece), page'.at)
  PROVE  (ShownBehind /\ ShownInOrder /\ AllShown)'
<1>1. /\ Spots' = Spots \cup {NextSpot}
      /\ \A s \in Spots : At(s)' = At(s) /\ InOrder(s, NextSpot) /\ ~InOrder(NextSpot, s)
      /\ NextSpot \notin Spots /\ ~InOrder(NextSpot, NextSpot)
      /\ Sheets'[NextSpot[1]].pieces[NextSpot[2]] = piece
  BY OneSpotMore DEF TextInv, PInv
<1>2. PICK new : new = NextSpot
  OBVIOUS
<1>3. At(new)' = piece
  BY <1>1, <1>2 DEF At
<1>4. /\ page.at \in Positions
      /\ \A s \in Spots : Ending(At(s)) \in Positions /\ Beginning(At(s)) \in Positions
      /\ Ending(piece) \in Positions /\ Before(page.at, Ending(piece))
  BY AtPosition, PiecesTyped, PiecePositions DEF TextInv, PInv
<1>5. \A s \in Spots : AtOrBefore(Ending(At(s)), page.at)
  BY DEF TextInv, ShownBehind
<1>6. ShownBehind'
  <2>1. ASSUME NEW s \in Spots PROVE AtOrBefore(Ending(At(s)), page'.at)
    BY <1>4, <1>5, BeforeOrder
  <2> QED
    BY <1>1, <1>2, <1>3, <2>1 DEF ShownBehind, Ending
<1>7. ShownInOrder'
  <2> SUFFICES ASSUME NEW s \in Spots', NEW t \in Spots', InOrder(s, t)
               PROVE  AtOrBefore(Ending(At(s)'), Beginning(At(t)'))
    BY DEF ShownInOrder, Ending, Beginning
  <2>1. CASE s \in Spots /\ t \in Spots
    BY <1>1, <2>1 DEF TextInv, ShownInOrder
  <2>2. CASE s \in Spots /\ t = new
    BY <1>1, <1>3, <1>5, <2>2
  <2>3. CASE s = new
    BY <1>1, <1>2, <2>3
  <2> QED
    BY <1>1, <1>2, <2>1, <2>2, <2>3
<1>8. AllShown'
  <2> SUFFICES ASSUME NEW b \in DOMAIN job.blocks, NEW unit \in 0 .. Units(job.blocks[b]) - 1,
                      Before(Position(b, unit), page'.at)
               PROVE  \E s \in Spots' : At(s)'.block = b /\ unit \in At(s)'.from .. At(s)'.to - 1
    BY DEF AllShown, Shows
  <2>1. CASE Before(Position(b, unit), page.at)
    <3>1. PICK s \in Spots : Shows(s, b, unit)
      BY <2>1 DEF TextInv, AllShown
    <3> QED
      BY <1>1, <3>1 DEF Shows
  <2>2. CASE ~Before(Position(b, unit), page.at)
    <3>1. Before(Position(b, unit), Ending(piece))
      BY DEF NothingBetween
    <3>2. b = piece.block /\ unit \in piece.from .. piece.to - 1
      <4>1. b \in Nat /\ unit \in Int
        BY DEF TextInv, PInv, JobOK
      <4> QED
        BY <2>2, <3>1, <4>1 DEF Before, Ending, Beginning, Position, PagePiece
    <3> QED
      BY <1>1, <1>2, <1>3, <3>2
  <2> QED
    BY <2>1, <2>2
<1> QED
  BY <1>6, <1>7, <1>8

LEMMA NoSpots == ASSUME PInv, pages = <<>>, page.pieces = <<>> PROVE Spots = {}
<1>1. PiecesOn(1) = <<>> /\ Len(pages) = 0
  BY DEF PiecesOn
<1>2. ASSUME NEW s \in Spots PROVE FALSE
  <2>1. PICK i \in 1 .. Len(pages) + 1 : \E k \in 1 .. Len(PiecesOn(i)) : s = <<i, k>>
    BY SpotsNow DEF PInv
  <2>2. i = 1
    BY <1>1, <2>1
  <2> QED
    BY <1>1, <2>1, <2>2
<1> QED
  BY <1>2

LEMMA InitTextInv == PaginationInit => TextInv
<1> SUFFICES ASSUME PaginationInit PROVE TextInv
  OBVIOUS
<1>1. PInv
  BY InitPInv
<1>2. pages = <<>> /\ page.pieces = <<>> /\ page.at = Position(1, 0) /\ page.at.line = 0
  BY DEF PaginationInit, EmptyPage, Position
<1>3. Spots = {}
  BY <1>1, <1>2, NoSpots
<1>4. AllShown
  BY <1>1, <1>2 DEF AllShown, Before, Position, PInv, JobOK
<1> QED
  BY <1>1, <1>2, <1>3, <1>4 DEF TextInv, ShownBehind, ShownInOrder, SplitText

\* Behind what was placed of the current block, nothing more of it is left.
LEMMA NothingLeft ==
  ASSUME JobOK, Loop, page.at \in Positions, NEW line \in Nat, Units(Current) <= line
  PROVE  /\ NothingBetween(Position(page.at.block, line), NextBlock)
         /\ AtOrBefore(Position(page.at.block, line), NextBlock)
         /\ NextBlock \in Positions /\ NextBlock.line = 0
<1>1. page.at.block \in Nat
  BY DEF Positions
<1>2. ASSUME NEW b \in DOMAIN job.blocks, NEW unit \in 0 .. Units(job.blocks[b]) - 1,
             Before(Position(b, unit), NextBlock)
      PROVE  Before(Position(b, unit), Position(page.at.block, line))
  <2>1. b \in Nat /\ unit \in Int /\ 0 <= unit /\ unit <= Units(job.blocks[b]) - 1
    BY DEF JobOK
  <2>2. b <= page.at.block
    BY <1>1, <1>2, <2>1 DEF Before, Position, NextBlock
  <2>3. CASE b < page.at.block
    BY <2>3 DEF Before, Position
  <2>4. CASE b = page.at.block
    <3>1. job.blocks[b] = Current /\ Current \in Block
      BY <2>4, ElementOfSeq DEF Current, JobOK
    <3>2. Units(Current) \in Int
      BY <3>1 DEF Units, Block
    <3>3. unit < line
      BY <2>1, <3>1, <3>2
    <3> QED
      BY <2>4, <3>3 DEF Before, Position
  <2> QED
    BY <1>1, <2>1, <2>2, <2>3, <2>4
<1> QED
  BY <1>1, <1>2 DEF NothingBetween, AtOrBefore, Before, Position, NextBlock, Positions

\* A step that neither places anything nor passes over anything.
LEMMA TurnKeepsText ==
  ASSUME TextInv, PInv', job' = job, page'.at = page.at,
         (UNCHANGED pages /\ page'.pieces = page.pieces) \/ (\E next : Close(page.pieces, next))
  PROVE  TextInv'
<1>1. AtOrBefore(page.at, page'.at) /\ NothingBetween(page.at, page'.at)
  BY AtPosition DEF AtOrBefore, Before, NothingBetween, Positions, TextInv
<1>2. SplitText'
  BY DEF TextInv, SplitText, AtEnd, Current
<1> QED
  BY <1>1, <1>2, StillShown, AtPosition DEF TextInv

\* The rest of the block shows nothing and is passed over.
LEMMA PassKeepsText ==
  ASSUME TextInv, PInv', Loop, Units(Current) <= page.at.line,
         Skip \/ Close(page.pieces, NextBlock)
  PROVE  TextInv'
<1>1. PaginationTypeOK /\ JobOK /\ page.at \in Positions
  BY AtPosition DEF TextInv, PInv
<1>2. /\ job' = job /\ page'.at = NextBlock
      /\ (UNCHANGED pages /\ page'.pieces = page.pieces) \/ Close(page.pieces, NextBlock)
  BY <1>1 DEF Skip, Close, EmptyPage, PaginationTypeOK
<1>3. Position(page.at.block, page.at.line) = page.at
  BY <1>1 DEF Position, Positions
<1>4. page.at.line \in Nat
  BY <1>1 DEF Positions
<1>5. /\ NothingBetween(page.at, NextBlock) /\ AtOrBefore(page.at, NextBlock)
      /\ NextBlock \in Positions /\ NextBlock.line = 0
  BY <1>1, <1>3, <1>4, NothingLeft
<1>6. SplitText'
  BY <1>2, <1>5 DEF SplitText
<1> QED
  BY <1>2, <1>5, <1>6, StillShown DEF TextInv

\* The piece shows what was left of the block.
LEMMA DoneKeepsText ==
  ASSUME TextInv, PInv', Loop, NEW piece \in PagePiece,
         Beginning(piece) = page.at, Units(Current) <= piece.to,
         Put(piece) \/ Close(Append(page.pieces, piece), NextBlock)
  PROVE  TextInv'
<1>1. PaginationTypeOK /\ JobOK /\ page.at \in Positions
  BY AtPosition DEF TextInv, PInv
<1>2. job' = job /\ page'.at = NextBlock
  <2>1. CASE Put(piece)
    <3> DEFINE more == Append(page.pieces, piece)
               below == piece.bottom + Current.paddingBottom
    <3>1. /\ job' = job
          /\ page' = [page EXCEPT !.pieces = more, !.at = NextBlock, !.y = below,
                                  !.pending = Current.marginBottom]
      BY <2>1 DEF Put
    <3> HIDE DEF more, below
    <3> QED
      BY <1>1, <3>1 DEF PaginationTypeOK
  <2>2. CASE Close(Append(page.pieces, piece), NextBlock)
    BY <2>2 DEF Close, EmptyPage
  <2> QED
    BY <2>1, <2>2
<1>3. Ending(piece) = Position(page.at.block, piece.to) /\ piece.to \in Nat
  BY DEF Ending, Beginning, Position, PagePiece
<1>4. /\ NothingBetween(Ending(piece), NextBlock) /\ AtOrBefore(Ending(piece), NextBlock)
      /\ NextBlock \in Positions /\ NextBlock.line = 0
  BY <1>1, <1>3, NothingLeft
<1>5. SplitText'
  BY <1>2, <1>4 DEF SplitText
<1> QED
  BY <1>2, <1>4, <1>5, MoreShown DEF TextInv

LEMMA NextTextInv == TextInv /\ [PaginationNext]_paginationVars => TextInv'
<1> SUFFICES ASSUME TextInv, [PaginationNext]_paginationVars PROVE TextInv'
  OBVIOUS
<1>0. PInv /\ PInv' /\ PaginationTypeOK /\ page.at \in Positions
  BY NextPInv, AtPosition DEF TextInv, PInv
<1> USE DEF Place, Text, PlaceBox, Round
<1>1. CASE TooManyFragments \/ PageLimit \/ Validate \/ UNCHANGED paginationVars
  <2>1. UNCHANGED <<job, pages, page>>
    BY <1>1 DEF TooManyFragments, PageLimit, Validate, paginationVars
  <2> QED
    BY <1>0, <2>1, TurnKeepsText
<1>2. CASE BreakBefore \/ KeepWithNext \/ NoFit \/ BoxNoFit \/ LastPage
  <2>1. Close(page.pieces, page.at)
    BY <1>2 DEF BreakBefore, KeepWithNext, NoFit, BoxNoFit, LastPage, Turn
  <2>2. job' = job /\ page'.at = page.at
    BY <2>1 DEF Close, EmptyPage
  <2> QED
    BY <1>0, <2>1, <2>2, TurnKeepsText
<1>3. CASE ForcedBreak \/ Invisible
  <2>1. Loop /\ (Skip \/ Close(page.pieces, NextBlock))
    BY <1>3 DEF ForcedBreak, Invisible
  <2>2. Current \in Block
    BY <1>0, <2>1, RoundFacts
  <2>3. Units(Current) <= page.at.line
    BY <1>0, <1>3, <2>2 DEF ForcedBreak, Invisible, Units, Remaining, Block, Positions
  <2> QED
    BY <1>0, <2>1, <2>3, PassKeepsText
<1>4. CASE Split
  <2>1. /\ Loop /\ Remaining > 0 /\ Taken < Remaining /\ Current.kind = "text"
        /\ Close(Append(page.pieces, Lines), Position(page.at.block, Lines.to))
    BY <1>4 DEF Split
  <2>2. Lines \in PagePiece /\ Beginning(Lines) = page.at
    BY <1>0, <2>1, LinesArePiece DEF Beginning, Lines, Position, Positions
  <2>3. Lines.block = page.at.block /\ Lines.to = page.at.line + Taken
    BY DEF Lines
  <2>4. /\ job' = job /\ page'.at = Ending(Lines)
        /\ Ending(Lines) = Position(page.at.block, Lines.to)
    BY <2>1, <2>3 DEF Close, EmptyPage, Ending
  <2>5. Ending(Lines) \in Positions
    BY <1>0, <2>2, PiecePositions DEF PInv
  <2>6. AtOrBefore(Ending(Lines), page'.at) /\ NothingBetween(Ending(Lines), page'.at)
    BY <2>4, <2>5, BeforeOrder DEF NothingBetween
  <2>7. SplitText'
    <3>1. Current \in Block /\ page.at.line \in Nat /\ ~AtEnd(page.at)
      BY <1>0, <2>1, RoundFacts DEF Positions, Loop
    <3>2. Remaining \in Nat /\ Taken \in Nat
      BY <2>1, <3>1, TakenBounds DEF Remaining, Block
    <3>3. Lines.to <= Current.lines
      BY <2>1, <2>3, <3>1, <3>2 DEF Remaining, Block
    <3>4. page'.at.block = page.at.block /\ page'.at.line = Lines.to
      BY <2>4 DEF Position
    <3> QED
      BY <2>1, <2>4, <3>1, <3>3, <3>4 DEF SplitText, AtEnd, Current
  <2> QED
    BY <1>0, <2>1, <2>2, <2>4, <2>5, <2>6, <2>7, MoreShown DEF TextInv
<1>5. CASE Whole
  <2>1. /\ Loop /\ Remaining > 0 /\ Taken = Remaining /\ Current.kind = "text"
        /\ Put(Lines) \/ Close(Append(page.pieces, Lines), NextBlock)
    BY <1>5 DEF Whole
  <2>2. Lines \in PagePiece /\ Beginning(Lines) = page.at
    BY <1>0, <2>1, LinesArePiece DEF Beginning, Lines, Position, Positions
  <2>3. Units(Current) <= Lines.to
    BY <1>0, <2>1, RoundFacts DEF Units, Lines, Remaining, Block, Positions
  <2> QED
    BY <1>0, <2>1, <2>2, <2>3, DoneKeepsText
<1>6. CASE Box
  <2>1. Loop /\ Put(TheBox) /\ Current.kind \in {"box", "image", "cover"}
    BY <1>6 DEF Box
  <2>2. page.at.line = 0
    BY <1>0, <2>1 DEF TextInv, SplitText, Positions
  <2>3. TheBox \in PagePiece /\ Beginning(TheBox) = page.at
    BY <1>0, <2>1, <2>2, BoxIsPiece DEF Beginning, TheBox, Position, Positions
  <2>4. Units(Current) <= TheBox.to
    BY <2>1 DEF Units, TheBox
  <2> QED
    BY <1>0, <2>1, <2>3, <2>4, DoneKeepsText
<1> QED
  BY <1>1, <1>2, <1>3, <1>4, <1>5, <1>6 DEF PaginationNext

LEMMA SpotsInOrder ==
  ASSUME PaginationTypeOK, NEW s \in Spots, NEW t \in Spots, s # t
  PROVE  InOrder(s, t) \/ InOrder(t, s)
<1>1. Len(pages) \in Nat /\ \A i \in 1 .. Len(pages) + 1 : Len(PiecesOn(i)) \in Nat
  BY SpotsNow
<1>2. PICK i \in 1 .. Len(pages) + 1 : \E k \in 1 .. Len(PiecesOn(i)) : s = <<i, k>>
  BY SpotsNow
<1>3. PICK k \in 1 .. Len(PiecesOn(i)) : s = <<i, k>>
  BY <1>2
<1>4. PICK j \in 1 .. Len(pages) + 1 : \E l \in 1 .. Len(PiecesOn(j)) : t = <<j, l>>
  BY SpotsNow
<1>5. PICK l \in 1 .. Len(PiecesOn(j)) : t = <<j, l>>
  BY <1>4
<1> QED
  BY <1>1, <1>3, <1>5 DEF InOrder

\* A unit is shown by at most one piece, and by none before it is behind.
LEMMA ShownOnce ==
  ASSUME TextInv, NEW b \in Nat, NEW unit \in Nat,
         NEW s \in Spots, Shows(s, b, unit)
  PROVE  /\ Before(Position(b, unit), page.at)
         /\ \A t \in Spots : Shows(t, b, unit) => t = s
<1>1. PaginationTypeOK /\ JobOK /\ page.at \in Positions
  BY AtPosition DEF TextInv, PInv
<1>2. ASSUME NEW t \in Spots PROVE At(t).from \in Nat /\ At(t).to \in Nat
  BY <1>1, PiecesTyped DEF PagePiece
<1>3. Before(Position(b, unit), page.at)
  <2>1. AtOrBefore(Ending(At(s)), page.at)
    BY DEF TextInv, ShownBehind
  <2>2. At(s).block = b /\ unit < At(s).to
    BY <1>2 DEF Shows
  <2> QED
    BY <1>1, <1>2, <2>1, <2>2 DEF AtOrBefore, Before, Ending, Position, Positions
<1>4. ASSUME NEW t \in Spots, NEW r \in Spots, Shows(t, b, unit), Shows(r, b, unit), InOrder(t, r)
      PROVE  FALSE
  <2>1. AtOrBefore(Ending(At(t)), Beginning(At(r)))
    BY <1>4 DEF TextInv, ShownInOrder
  <2>2. At(t).to <= At(r).from
    BY <1>2, <1>4, <2>1 DEF AtOrBefore, Before, Ending, Beginning, Position, Shows
  <2> QED
    BY <1>2, <1>4, <2>2 DEF Shows
<1>5. ASSUME NEW t \in Spots, Shows(t, b, unit) PROVE t = s
  BY <1>1, <1>4, <1>5, SpotsInOrder
<1> QED
  BY <1>3, <1>5

LEMMA TextInvSuffices == TextInv => NothingLostOrRepeated
<1> SUFFICES ASSUME TextInv PROVE NothingLostOrRepeated
  OBVIOUS
<1>1. PaginationTypeOK /\ JobOK /\ page.at \in Positions
  BY AtPosition DEF TextInv, PInv
<1>2. ASSUME NEW b \in DOMAIN job.blocks, NEW unit \in 0 .. Units(job.blocks[b]) - 1
      PROVE  Cardinality({s \in Spots : Shows(s, b, unit)})
               = IF Before(Position(b, unit), page.at) THEN 1 ELSE 0
  <2>1. b \in Nat /\ unit \in Nat
    <3>1. b \in Nat
      BY <1>1 DEF JobOK
    <3>2. Units(job.blocks[b]) \in Int
      <4>1. job.blocks[b] \in Block
        BY <1>1, ElementOfSeq DEF JobOK
      <4> QED
        BY <4>1 DEF Units, Block
    <3> QED
      BY <3>1, <3>2
  <2>2. CASE Before(Position(b, unit), page.at)
    <3>1. PICK s \in Spots : Shows(s, b, unit)
      BY <2>2 DEF TextInv, AllShown
    <3>2. {t \in Spots : Shows(t, b, unit)} = {s}
      BY <2>1, <3>1, ShownOnce
    <3> QED
      BY <2>2, <3>2, FS_Singleton
  <2>3. CASE ~Before(Position(b, unit), page.at)
    <3>1. {t \in Spots : Shows(t, b, unit)} = {}
      BY <2>1, <2>3, ShownOnce
    <3> QED
      BY <2>3, <3>1, FS_EmptySet
  <2> QED
    BY <2>2, <2>3
<1>3. ASSUME NEW s \in Spots, NEW t \in Spots, InOrder(s, t)
      PROVE  Before(Beginning(At(s)), Beginning(At(t)))
  <2>1. AtOrBefore(Ending(At(s)), Beginning(At(t)))
    BY <1>3 DEF TextInv, ShownInOrder
  <2>2. /\ Before(Beginning(At(s)), Ending(At(s)))
        /\ Beginning(At(s)) \in Positions /\ Ending(At(s)) \in Positions
        /\ Beginning(At(t)) \in Positions
    BY <1>1, PiecesTyped, PiecePositions
  <2> QED
    BY <2>1, <2>2, BeforeOrder
<1> QED
  BY <1>2, <1>3 DEF NothingLostOrRepeated, Shows, Beginning

(* Pages do not drop text, show it twice or show it out of order, whatever  *)
(* the blocks, the heights and the limits: docs/adr/0005-break-token-       *)
(* pagination.md:35 of paginate_prepared_blocks.                            *)
THEOREM PagesKeepText == PaginationSpec => []NothingLostOrRepeated
  BY InitTextInv, NextTextInv, TextInvSuffices, PTL DEF PaginationSpec

-----------------------------------------------------------------------------
(* Pagination before and after an edit *)

\* The greatest lower bound is found by counting the lower bounds.
LEMMA MinOf ==
  ASSUME NEW T \in SUBSET Nat, T # {}
  PROVE  Min(T) \in T /\ \A y \in T : Min(T) <= y
<1>1. PICK n \in Nat : n \in T
  OBVIOUS
<1> DEFINE L == {m \in 0 .. n : \A y \in T : m <= y}
           c == Cardinality(L)
<1>2. IsFiniteSet(L) /\ c \in Nat
  <2>1. IsFiniteSet(0 .. n) /\ L \in SUBSET (0 .. n)
    BY FS_Interval
  <2> HIDE DEF L
  <2>2. IsFiniteSet(L)
    BY <2>1, FS_Subset
  <2> QED
    BY <2>2, FS_CardinalityType
<1>3. 0 \in L
  BY <1>1
<1>4. ASSUME NEW x \in L PROVE 0 .. x \in SUBSET L /\ x \in Nat
  BY <1>1
<1> HIDE DEF L
<1>5. ASSUME NEW x \in L PROVE x + 1 <= c
  <2>1. Cardinality(0 .. x) = x + 1
    BY <1>4, FS_Interval
  <2>2. Cardinality(0 .. x) <= c
    BY <1>2, <1>4, FS_Subset DEF c
  <2> QED
    BY <2>1, <2>2
<1>6. c \in Nat \ {0}
  BY <1>2, <1>3, <1>5
<1> HIDE DEF c
<1>7. L = 0 .. c - 1
  <2>1. L \in SUBSET (0 .. c - 1)
    BY <1>4, <1>5, <1>6
  <2>2. IsFiniteSet(0 .. c - 1) /\ Cardinality(0 .. c - 1) = c
    BY <1>6, FS_Interval
  <2> QED
    BY <2>1, <2>2, FS_Subset DEF c
<1>8. c \notin L /\ c - 1 \in L
  BY <1>6, <1>7
<1>9. PICK y \in T : y < c
  BY <1>1, <1>6, <1>8 DEF L
<1>10. y = c - 1 /\ \A z \in T : c - 1 <= z
  BY <1>6, <1>8, <1>9 DEF L
<1>11. \E x \in T : \A z \in T : x <= z
  BY <1>10
<1> QED
  BY <1>11 DEF Min

\* A sequence, whatever its elements.
IsSeq(s) == \E S : s \in Seq(S)

LEMMA AppendAny ==
  ASSUME NEW s, IsSeq(s), NEW e
  PROVE  /\ IsSeq(Append(s, e)) /\ Len(s) \in Nat /\ DOMAIN s = 1 .. Len(s)
         /\ Len(Append(s, e)) = Len(s) + 1
         /\ DOMAIN Append(s, e) = 1 .. Len(s) + 1
         /\ \A i \in 1 .. Len(s) : Append(s, e)[i] = s[i]
         /\ Append(s, e)[Len(s) + 1] = e
<1>1. PICK S : s \in Seq(S)
  BY DEF IsSeq
<1>2. s \in Seq(S \cup {e}) /\ e \in S \cup {e} /\ Len(s) \in Nat /\ DOMAIN s = 1 .. Len(s)
  BY <1>1
<1>3. /\ Append(s, e) \in Seq(S \cup {e}) /\ Len(Append(s, e)) = Len(s) + 1
      /\ \A i \in 1 .. Len(s) : Append(s, e)[i] = s[i]
      /\ Append(s, e)[Len(s) + 1] = e
  BY <1>2, AppendProperties
<1> QED
  BY <1>2, <1>3 DEF IsSeq

LEMMA SubSeqAny ==
  ASSUME NEW s, IsSeq(s), NEW m \in Nat \ {0}, NEW n \in Nat, n <= Len(s), m <= n + 1
  PROVE  /\ IsSeq(SubSeq(s, m, n))
         /\ Len(SubSeq(s, m, n)) = n - m + 1
         /\ DOMAIN SubSeq(s, m, n) = 1 .. n - m + 1
         /\ \A i \in 1 .. n - m + 1 : SubSeq(s, m, n)[i] = s[m + i - 1]
<1>1. PICK S : s \in Seq(S)
  BY DEF IsSeq
<1>2. \A i \in m .. n : s[i] \in S
  BY <1>1, ElementOfSeq
<1>3. /\ SubSeq(s, m, n) \in Seq(S)
      /\ Len(SubSeq(s, m, n)) = IF m <= n THEN n - m + 1 ELSE 0
      /\ \A i \in 1 .. n - m + 1 : SubSeq(s, m, n)[i] = s[m + i - 1]
  BY <1>2, SubSeqProperties
<1>4. Len(SubSeq(s, m, n)) = n - m + 1 /\ IsSeq(SubSeq(s, m, n))
  <2>1. m = n + 1 => n - m + 1 = 0
    OBVIOUS
  <2>2. m <= n \/ m = n + 1
    OBVIOUS
  <2> HIDE <1>1
  <2> QED
    BY <1>3, <2>1, <2>2 DEF IsSeq
<1>5. DOMAIN SubSeq(s, m, n) = 1 .. Len(SubSeq(s, m, n))
  BY <1>3
<1> QED
  BY <1>3, <1>4, <1>5

\* The first pages of a list are its pages with the same numbers.
LEMMA FirstPart ==
  ASSUME NEW s, IsSeq(s), NEW n \in Nat, n <= Len(s)
  PROVE  /\ IsSeq(SubSeq(s, 1, n)) /\ Len(SubSeq(s, 1, n)) = n
         /\ DOMAIN SubSeq(s, 1, n) = 1 .. n
         /\ \A i \in 1 .. n : SubSeq(s, 1, n)[i] = s[i]
<1> DEFINE part == SubSeq(s, 1, n)
<1>1. 1 \in Nat \ {0} /\ 1 <= n + 1
  OBVIOUS
<1>2. /\ IsSeq(part) /\ Len(part) = n - 1 + 1 /\ DOMAIN part = 1 .. n - 1 + 1
      /\ \A i \in 1 .. n - 1 + 1 : part[i] = s[1 + i - 1]
  BY <1>1, SubSeqAny
<1> HIDE DEF part
<1>3. n - 1 + 1 = n /\ \A i \in 1 .. n : 1 + i - 1 = i
  OBVIOUS
<1>4. /\ IsSeq(part) /\ Len(part) = n /\ DOMAIN part = 1 .. n
      /\ \A i \in 1 .. n : part[i] = s[1 + i - 1]
  BY <1>2, <1>3
<1>5. \A i \in 1 .. n : part[i] = s[i]
  BY <1>3, <1>4
<1> QED
  BY <1>4, <1>5 DEF part

LEMMA ConcatAny ==
  ASSUME NEW s, IsSeq(s), NEW t, IsSeq(t)
  PROVE  /\ IsSeq(s \o t) /\ Len(s) \in Nat /\ Len(t) \in Nat
         /\ Len(s \o t) = Len(s) + Len(t)
         /\ DOMAIN (s \o t) = 1 .. Len(s) + Len(t)
         /\ \A i \in 1 .. Len(s) + Len(t) :
              (s \o t)[i] = IF i <= Len(s) THEN s[i] ELSE t[i - Len(s)]
<1>1. PICK S : s \in Seq(S)
  BY DEF IsSeq
<1>2. PICK T : t \in Seq(T)
  BY DEF IsSeq
<1>3. s \in Seq(S \cup T) /\ t \in Seq(S \cup T)
  BY <1>1, <1>2
<1> HIDE <1>1, <1>2
<1>4. /\ s \o t \in Seq(S \cup T) /\ Len(s \o t) = Len(s) + Len(t)
      /\ \A i \in 1 .. Len(s) + Len(t) :
           (s \o t)[i] = IF i <= Len(s) THEN s[i] ELSE t[i - Len(s)]
  BY <1>3, ConcatProperties
<1> QED
  BY <1>3, <1>4 DEF IsSeq

\* What a piece shows is what its block says.
ContentShown == \A s \in Spots : At(s).content = job.blocks[At(s).block].content

\* A page without a token is the last, and a chapter that is done ends with one.
TokensToTheEnd ==
  /\ \A i \in DOMAIN pages : i < Len(pages) \/ outcome = "paging" => pages[i].next # None
  /\ outcome \in {"built", "complete"} /\ pages # <<>> => pages[Len(pages)].next = None
  /\ outcome = "complete" => \A i \in DOMAIN pages : ~Blank(pages[i])

WholeInv == TextInv /\ ContentShown /\ TokensToTheEnd

LEMMA InitWholeInv == PaginationInit => WholeInv
<1> SUFFICES ASSUME PaginationInit PROVE WholeInv
  OBVIOUS
<1>1. TextInv /\ pages = <<>> /\ page.pieces = <<>>
  BY InitTextInv DEF PaginationInit, EmptyPage
<1>2. Spots = {}
  BY <1>1, NoSpots DEF TextInv
<1> QED
  BY <1>1, <1>2 DEF WholeInv, ContentShown, TokensToTheEnd

\* What a round of the loop does to the page: nothing is placed, or a piece that
\* is made for the current block.
PlacesNothing ==
  \/ UNCHANGED <<pages, page>> /\ (TooManyFragments \/ PageLimit \/ Validate \/ UNCHANGED outcome)
  \/ Loop /\ Skip
  \/ outcome = "paging" /\ Close(page.pieces, page.at)
  \/ Loop /\ Close(page.pieces, NextBlock)

Places(piece) ==
  /\ Loop
  /\ piece = TheBox \/ (piece = Lines /\ Remaining > 0)
  /\ Put(piece)
     \/ (\E next : next.block \in {page.at.block, page.at.block + 1}
                     /\ Close(Append(page.pieces, piece), next))

LEMMA StepKinds ==
  ASSUME [PaginationNext]_paginationVars
  PROVE  /\ job' = job
         /\ PlacesNothing \/ (\E piece : Places(piece))
<1> USE DEF Place, Text, PlaceBox, Round, Loop
<1>1. CASE TooManyFragments \/ PageLimit \/ Validate \/ UNCHANGED paginationVars
  BY <1>1 DEF TooManyFragments, PageLimit, Validate, paginationVars, PlacesNothing
<1>2. CASE BreakBefore \/ KeepWithNext \/ NoFit \/ BoxNoFit \/ LastPage
  <2>1. outcome = "paging" /\ Close(page.pieces, page.at)
    BY <1>2 DEF BreakBefore, KeepWithNext, NoFit, BoxNoFit, LastPage, Turn
  <2> QED
    BY <2>1 DEF PlacesNothing, Close
<1>3. CASE ForcedBreak \/ Invisible
  <2>1. Loop /\ (Skip \/ Close(page.pieces, NextBlock))
    BY <1>3 DEF ForcedBreak, Invisible
  <2> QED
    BY <2>1 DEF PlacesNothing, Skip, Close
<1>4. CASE Split
  <2>1. /\ Loop /\ Remaining > 0
        /\ Close(Append(page.pieces, Lines), Position(page.at.block, Lines.to))
    BY <1>4 DEF Split
  <2>2. Position(page.at.block, Lines.to).block \in {page.at.block, page.at.block + 1}
    BY DEF Position
  <2>3. job' = job
    BY <2>1 DEF Close
  <2>4. PICK next : next = Position(page.at.block, Lines.to)
    OBVIOUS
  <2>5. Places(Lines)
    BY <2>1, <2>2, <2>4 DEF Places
  <2> QED
    BY <2>3, <2>5
<1>5. CASE Whole
  <2>1. Loop /\ Remaining > 0 /\ (Put(Lines) \/ Close(Append(page.pieces, Lines), NextBlock))
    BY <1>5 DEF Whole
  <2>2. NextBlock.block \in {page.at.block, page.at.block + 1}
    BY DEF NextBlock, Position
  <2>3. job' = job
    BY <2>1 DEF Put, Close
  <2>4. Places(Lines)
    BY <2>1, <2>2 DEF Places
  <2> QED
    BY <2>3, <2>4
<1>6. CASE Box
  BY <1>6 DEF Box, Places, Put
<1> QED
  BY <1>1, <1>2, <1>3, <1>4, <1>5, <1>6 DEF PaginationNext

\* A piece says what its block says.
Faithful(p) == p.block \in DOMAIN job.blocks /\ p.content = job.blocks[p.block].content

LEMMA PiecesFaithful ==
  ASSUME JobOK, Loop, page.at.block \in Nat \ {0}, NEW piece, Places(piece)
  PROVE  Faithful(piece)
<1>1. page.at.block \in DOMAIN job.blocks
  BY DEF JobOK, Loop, AtEnd
<1> QED
  BY <1>1 DEF Faithful, Places, Lines, TheBox, Current

LEMMA CloseKeepsTokens ==
  ASSUME PInv, TokensToTheEnd, outcome = "paging", NEW pieces, NEW next, next.block # 0,
         Close(pieces, next)
  PROVE  TokensToTheEnd'
<1> DEFINE last == [start |-> page.start, pieces |-> pieces,
                    next |-> IF AtEnd(next) THEN None ELSE next]
<1>1. IsSeq(pages) /\ pages' = Append(pages, last)
  BY DEF PInv, PaginationTypeOK, IsSeq, Close
<1>2. last.next = IF AtEnd(next) THEN None ELSE next
  OBVIOUS
<1>3. next # None /\ outcome' = IF AtEnd(next) THEN "built" ELSE "paging"
  BY DEF None, Position, Close
<1> HIDE DEF last
<1>4. /\ Len(pages) \in Nat /\ Len(pages') = Len(pages) + 1
      /\ DOMAIN pages = 1 .. Len(pages) /\ DOMAIN pages' = 1 .. Len(pages) + 1
      /\ \A i \in 1 .. Len(pages) : pages'[i] = pages[i]
      /\ pages'[Len(pages) + 1] = last
  BY <1>1, AppendAny
<1>5. \A i \in 1 .. Len(pages) : pages'[i].next # None
  BY <1>4 DEF TokensToTheEnd
<1> QED
  BY <1>2, <1>3, <1>4, <1>5 DEF TokensToTheEnd, None

LEMMA NextWholeInv == WholeInv /\ [PaginationNext]_paginationVars => WholeInv'
<1> SUFFICES ASSUME WholeInv, [PaginationNext]_paginationVars PROVE WholeInv'
  OBVIOUS
<1>1. TextInv /\ TextInv' /\ PInv /\ PInv' /\ JobOK /\ PaginationTypeOK /\ PaginationTypeOK'
  BY NextTextInv DEF WholeInv, TextInv, PInv
<1>2. job' = job /\ (PlacesNothing \/ \E piece : Places(piece))
  BY StepKinds
<1>3. page.at.block \in Nat \ {0}
  <2>1. page.at \in Token
    BY <1>1 DEF PaginationTypeOK
  <2> QED
    BY <1>1, <2>1 DEF Token, JobOK
<1>4. ContentShown'
  <2>1. CASE PlacesNothing
    <3>1. (UNCHANGED pages /\ page'.pieces = page.pieces) \/ (\E next : Close(page.pieces, next))
      <4>1. CASE Loop /\ Skip
        BY <1>1, <4>1 DEF Skip, PaginationTypeOK
      <4> QED
        BY <2>1, <4>1 DEF PlacesNothing
    <3>2. Spots' = Spots /\ \A s \in Spots : At(s)' = At(s)
      BY <1>1, <3>1, SameSpots
    <3> QED
      BY <1>2, <3>2 DEF WholeInv, ContentShown
  <2>2. CASE \E piece : Places(piece)
    <3>1. PICK piece : Places(piece)
      BY <2>2
    <3>2. piece \in PagePiece /\ Faithful(piece)
      BY <1>1, <1>3, <3>1, LinesArePiece, BoxIsPiece, PiecesFaithful DEF Places
    <3>3. /\ Spots' = Spots \cup {NextSpot}
          /\ \A s \in Spots : At(s)' = At(s)
          /\ Sheets'[NextSpot[1]].pieces[NextSpot[2]] = piece
      BY <1>1, <3>1, <3>2, OneSpotMore DEF Places
    <3>4. PICK new : new = NextSpot
      OBVIOUS
    <3>5. At(new)' = piece
      BY <3>3, <3>4 DEF At
    <3> QED
      BY <1>2, <3>2, <3>3, <3>4, <3>5 DEF WholeInv, ContentShown, Faithful
  <2> QED
    BY <1>2, <2>1, <2>2
<1>5. TokensToTheEnd'
  <2>1. CASE /\ UNCHANGED <<pages, page>>
             /\ (TooManyFragments \/ PageLimit \/ Validate \/ UNCHANGED outcome)
    BY <2>1 DEF WholeInv, TokensToTheEnd, TooManyFragments, PageLimit, Validate, Blank, Loop
  <2>2. CASE Loop /\ UNCHANGED <<pages, outcome>>
    BY <2>2 DEF WholeInv, TokensToTheEnd, Blank
  <2>3. CASE outcome = "paging" /\ \E pieces, next : next.block # 0 /\ Close(pieces, next)
    BY <1>1, <2>3, CloseKeepsTokens DEF WholeInv
  <2>4. CASE PlacesNothing
    <3>1. NextBlock.block # 0
      BY <1>3 DEF NextBlock, Position
    <3>2. Skip => UNCHANGED <<pages, outcome>>
      BY DEF Skip
    <3> QED
      BY <1>3, <2>1, <2>2, <2>3, <2>4, <3>1, <3>2 DEF PlacesNothing, Loop
  <2>5. CASE \E piece : Places(piece)
    <3>1. PICK piece : Places(piece)
      BY <2>5
    <3>2. Put(piece) => UNCHANGED <<pages, outcome>>
      BY DEF Put
    <3>3. Loop => outcome = "paging"
      BY DEF Loop
    <3>4. CASE Put(piece)
      BY <2>2, <3>1, <3>2, <3>4 DEF Places
    <3>5. CASE \E next : next.block \in {page.at.block, page.at.block + 1}
                           /\ Close(Append(page.pieces, piece), next)
      <4>1. PICK next : /\ next.block \in {page.at.block, page.at.block + 1}
                        /\ Close(Append(page.pieces, piece), next)
        BY <3>5
      <4>2. next.block # 0
        BY <1>3, <4>1
      <4> QED
        BY <2>3, <3>1, <3>3, <4>1, <4>2 DEF Places
    <3> QED
      BY <3>1, <3>4, <3>5 DEF Places
  <2> QED
    BY <1>2, <2>4, <2>5
<1> QED
  BY <1>1, <1>4, <1>5 DEF WholeInv

\* What the previous result is: its pages show the blocks of its chapter in order,
\* all but the last show something, and the last has no token.
Result(chapter, sheets) ==
  /\ IsSeq(chapter.blocks) /\ IsSeq(sheets)
  /\ \A i \in DOMAIN sheets : sheets[i].next = None \/ sheets[i].next.block \in Nat \ {0}
  /\ sheets # <<>> => sheets[Len(sheets)].next = None
  /\ \A i \in DOMAIN sheets : i < Len(sheets) => DOMAIN sheets[i].pieces # {}
  /\ \A i \in DOMAIN sheets : \A k \in DOMAIN sheets[i].pieces :
       LET p == sheets[i].pieces[k]
       IN  p.block \in Nat /\ p.content = chapter.blocks[p.block].content
  /\ \A i, j \in DOMAIN sheets : i < j =>
       \A k \in DOMAIN sheets[i].pieces : \A l \in DOMAIN sheets[j].pieces :
         sheets[i].pieces[k].block <= sheets[j].pieces[l].block

LEMMA ResultOfPagination == WholeInv /\ outcome = "complete" => Result(job, pages)
<1> SUFFICES ASSUME WholeInv, outcome = "complete" PROVE Result(job, pages)
  OBVIOUS
<1> DEFINE P == [start : Token, pieces : Seq(PagePiece), next : Token \cup {None}]
<1>1. TextInv /\ PInv /\ JobOK /\ PaginationTypeOK
  BY DEF WholeInv, TextInv, PInv
<1>2. pages \in Seq(P)
  BY <1>1 DEF PaginationTypeOK
<1>3. IsSeq(job.blocks) /\ IsSeq(pages) /\ Len(pages) \in Nat /\ DOMAIN pages = 1 .. Len(pages)
  BY <1>1, <1>2 DEF JobOK, IsSeq
<1>4. ASSUME NEW i \in DOMAIN pages
      PROVE  /\ pages[i] \in P
             /\ pages[i].pieces \in Seq(PagePiece) /\ pages[i].next \in Token \cup {None}
             /\ DOMAIN pages[i].pieces = 1 .. Len(pages[i].pieces)
             /\ \A k \in DOMAIN pages[i].pieces :
                  /\ <<i, k>> \in Spots /\ At(<<i, k>>) = pages[i].pieces[k]
                  /\ pages[i].pieces[k] \in PagePiece
  <2>1. pages[i] \in P
    <3> HIDE DEF P
    <3> QED
      BY <1>2, <1>3, ElementOfSeq
  <2>2. /\ pages[i].pieces \in Seq(PagePiece) /\ pages[i].next \in Token \cup {None}
        /\ DOMAIN pages[i].pieces = 1 .. Len(pages[i].pieces)
    BY <2>1
  <2>3. PiecesOn(i) = pages[i].pieces
    BY <1>3 DEF PiecesOn
  <2>4. ASSUME NEW k \in DOMAIN pages[i].pieces
        PROVE  /\ <<i, k>> \in Spots /\ At(<<i, k>>) = pages[i].pieces[k]
               /\ pages[i].pieces[k] \in PagePiece
    <3>1. i \in 1 .. Len(pages) + 1 /\ k \in 1 .. Len(PiecesOn(i))
      BY <1>3, <2>2, <2>3
    <3>2. Sheets[i].pieces = pages[i].pieces /\ <<i, k>> \in Spots
      BY <1>1, <2>3, <3>1, SpotsNow
    <3>3. At(<<i, k>>) = pages[i].pieces[k]
      BY <3>2 DEF At
    <3> QED
      BY <1>1, <3>2, <3>3, PiecesTyped
  <2> QED
    BY <2>1, <2>2, <2>4
<1>5. ASSUME NEW i \in DOMAIN pages
      PROVE  pages[i].next = None \/ pages[i].next.block \in Nat \ {0}
  BY <1>1, <1>4 DEF Token, JobOK
<1>6. ASSUME NEW i \in DOMAIN pages, i < Len(pages) PROVE DOMAIN pages[i].pieces # {}
  <2>1. pages[i].pieces # <<>>
    BY <1>6 DEF WholeInv, TokensToTheEnd, Blank
  <2>2. Len(pages[i].pieces) \in Nat /\ Len(pages[i].pieces) # 0
    BY <1>4, <2>1, EmptySeq
  <2>3. 1 \in 1 .. Len(pages[i].pieces)
    BY <2>2
  <2>4. DOMAIN pages[i].pieces = 1 .. Len(pages[i].pieces)
    BY <1>4
  <2> HIDE DEF P
  <2> QED
    BY <2>3, <2>4
<1>7. ASSUME NEW i \in DOMAIN pages, NEW k \in DOMAIN pages[i].pieces
      PROVE  /\ pages[i].pieces[k].block \in Nat
             /\ pages[i].pieces[k].content = job.blocks[pages[i].pieces[k].block].content
  <2>1. PICK s : s = <<i, k>>
    OBVIOUS
  <2>2. s \in Spots /\ At(s) = pages[i].pieces[k] /\ pages[i].pieces[k] \in PagePiece
    BY <1>4, <2>1
  <2>3. pages[i].pieces[k].block \in Nat
    BY <1>1, <2>2 DEF PagePiece, JobOK
  <2>4. At(s).content = job.blocks[At(s).block].content
    BY <2>2 DEF WholeInv, ContentShown
  <2> QED
    BY <2>2, <2>3, <2>4
<1>8. ASSUME NEW i \in DOMAIN pages, NEW j \in DOMAIN pages, i < j,
             NEW k \in DOMAIN pages[i].pieces, NEW l \in DOMAIN pages[j].pieces
      PROVE  pages[i].pieces[k].block <= pages[j].pieces[l].block
  <2>1. InOrder(<<i, k>>, <<j, l>>)
    BY <1>8 DEF InOrder
  <2>2. AtOrBefore(Ending(pages[i].pieces[k]), Beginning(pages[j].pieces[l]))
    BY <1>1, <1>4, <2>1 DEF TextInv, ShownInOrder
  <2> QED
    BY <1>7, <2>2 DEF AtOrBefore, Before, Ending, Beginning, Position
<1> QED
  BY <1>3, <1>5, <1>6, <1>7, <1>8 DEF Result, WholeInv, TokensToTheEnd

PreviousOK == Result(previous.job, previous.pages)

LEMMA SeqShape ==
  ASSUME NEW s, IsSeq(s)
  PROVE  Len(s) \in Nat /\ DOMAIN s = 1 .. Len(s) /\ (s = <<>> <=> Len(s) = 0)
<1>1. PICK S : s \in Seq(S)
  BY DEF IsSeq
<1> QED
  BY <1>1, EmptySeq

LEMMA PreviousPages ==
  ASSUME PreviousOK
  PROVE  /\ IsSeq(previous.pages) /\ Len(previous.pages) \in Nat
         /\ DOMAIN previous.pages = 1 .. Len(previous.pages)
         /\ previous.pages # <<>> =>
              Len(previous.pages) > 0 /\ previous.pages[Len(previous.pages)].next = None
<1>1. IsSeq(previous.pages)
  BY DEF PreviousOK, Result
<1>2. /\ Len(previous.pages) \in Nat /\ DOMAIN previous.pages = 1 .. Len(previous.pages)
      /\ previous.pages # <<>> => Len(previous.pages) # 0
  BY <1>1, SeqShape
<1>3. previous.pages # <<>> => previous.pages[Len(previous.pages)].next = None
  BY DEF PreviousOK, Result
<1> QED
  BY <1>1, <1>2, <1>3

LEMMA PreviousTokens ==
  ASSUME PreviousOK, NEW i \in DOMAIN previous.pages
  PROVE  previous.pages[i].next = None \/ previous.pages[i].next.block \in Nat \ {0}
  BY DEF PreviousOK, Result

LEMMA PreviousNotBlank ==
  ASSUME PreviousOK, NEW i \in DOMAIN previous.pages, i < Len(previous.pages)
  PROVE  DOMAIN previous.pages[i].pieces # {}
  BY SMTT(60) DEF PreviousOK, Result

LEMMA PreviousContent ==
  ASSUME PreviousOK, NEW i \in DOMAIN previous.pages, NEW k \in DOMAIN previous.pages[i].pieces
  PROVE  LET p == previous.pages[i].pieces[k]
         IN  p.block \in Nat /\ p.content = previous.job.blocks[p.block].content
  BY DEF PreviousOK, Result

LEMMA PreviousOrder ==
  ASSUME PreviousOK, NEW i \in DOMAIN previous.pages, NEW j \in DOMAIN previous.pages, i < j,
         NEW k \in DOMAIN previous.pages[i].pieces, NEW l \in DOMAIN previous.pages[j].pieces
  PROVE  previous.pages[i].pieces[k].block <= previous.pages[j].pieces[l].block
  BY DEF PreviousOK, Result

LEMMA DirtyBlocks ==
  ASSUME PreviousOK, JobOK
  PROVE  /\ Dirty # {} => Min(Dirty) \in Nat \ {0}
         /\ FirstDirty \in Nat \ {0}
<1>1. Len(previous.job.blocks) \in Nat /\ Len(job.blocks) \in Nat
  <2>1. IsSeq(previous.job.blocks) /\ IsSeq(job.blocks)
    BY DEF PreviousOK, Result, IsSeq, JobOK
  <2> QED
    BY <2>1, SeqShape
<1>2. ASSUME NEW i \in Dirty PROVE i \in Nat \ {0}
  BY <1>1 DEF Dirty, Differing
<1>3. Dirty \in SUBSET Nat
  BY <1>2
<1>4. Dirty # {} => Min(Dirty) \in Nat \ {0}
  BY <1>2, <1>3, MinOf
<1> QED
  BY <1>2, <1>4 DEF FirstDirty

\* The pages that are kept end before the first that shows the edited block.
LEMMA CheckpointBounds ==
  ASSUME PreviousOK, JobOK
  PROVE  /\ Checkpoint \in 0 .. Len(previous.pages)
         /\ Resume.block \in Nat \ {0}
         /\ Dirty # {} => \A i \in 1 .. Checkpoint : i \notin Showing(Min(Dirty))
         /\ Reparse /\ Dirty # {} /\ Showing(Min(Dirty)) # {} =>
              /\ Checkpoint + 1 \in Showing(Min(Dirty))
<1> DEFINE n == Len(previous.pages)
<1>1. /\ n \in Nat /\ DOMAIN previous.pages = 1 .. n
      /\ \A i \in 1 .. n :
           previous.pages[i].next = None \/ previous.pages[i].next.block \in Nat \ {0}
      /\ previous.pages # <<>> => n > 0 /\ previous.pages[n].next = None
  BY PreviousPages, PreviousTokens
<1>2. FirstDirty \in Nat \ {0} /\ (Reparse /\ Dirty # {} => FirstDirty = Min(Dirty))
  BY DirtyBlocks DEF FirstDirty
<1> HIDE DEF n
<1> DEFINE Kept ==
             /\ Checkpoint \in 0 .. n
             /\ Dirty # {} => \A i \in 1 .. Checkpoint : i \notin Showing(Min(Dirty))
             /\ Reparse /\ Dirty # {} /\ Showing(Min(Dirty)) # {} =>
                  Checkpoint + 1 \in Showing(Min(Dirty))
<1>3. ASSUME ~Reparse \/ previous.pages = <<>> PROVE Kept
  <2>1. Checkpoint = 0
    BY <1>3 DEF Checkpoint
  <2>2. previous.pages = <<>> => Showing(Min(Dirty)) = {}
    BY EmptySeq DEF Showing
  <2> QED
    BY <1>1, <1>3, <2>1, <2>2
<1>4. ASSUME Reparse /\ previous.pages # <<>> PROVE Kept
  <2>1. CASE Showing(FirstDirty) # {}
    <3>1. Showing(FirstDirty) \in SUBSET Nat /\ Showing(FirstDirty) \subseteq 1 .. n
      BY <1>1 DEF Showing
    <3>2. /\ Min(Showing(FirstDirty)) \in Showing(FirstDirty)
          /\ \A i \in Showing(FirstDirty) : Min(Showing(FirstDirty)) <= i
      BY <2>1, <3>1, MinOf
    <3>3. Checkpoint = Min(Showing(FirstDirty)) - 1
      BY <1>4, <2>1 DEF Checkpoint
    <3>4. /\ Checkpoint \in 0 .. n /\ Checkpoint + 1 \in Showing(FirstDirty)
          /\ \A i \in 1 .. Checkpoint : i \notin Showing(FirstDirty)
      BY <1>1, <3>1, <3>2, <3>3
    <3> QED
      BY <1>2, <1>4, <3>4
  <2>2. CASE Showing(FirstDirty) = {}
    <3>1. Reaching(FirstDirty) \in SUBSET Nat /\ n \in Reaching(FirstDirty)
          /\ Reaching(FirstDirty) \subseteq 1 .. n
      BY <1>1, <1>4 DEF Reaching
    <3>2. Min(Reaching(FirstDirty)) \in 1 .. n
      BY <3>1, MinOf
    <3>3. Checkpoint \in {Min(Reaching(FirstDirty)), Min(Reaching(FirstDirty)) - 1}
      BY <1>4, <2>2 DEF Checkpoint
    <3>4. Checkpoint \in 0 .. n
      BY <1>1, <3>2, <3>3
    <3> QED
      BY <1>2, <1>4, <2>2, <3>4
  <2> QED
    BY <2>1, <2>2
<1>5. Kept
  BY <1>3, <1>4
<1>6. Resume.block \in Nat \ {0}
  <2>1. CASE Checkpoint = 0
    BY <2>1 DEF Resume, Position
  <2>2. CASE Checkpoint # 0
    <3>1. Checkpoint \in 1 .. n
      BY <1>1, <1>5, <2>2
    <3> DEFINE token == previous.pages[Checkpoint].next
    <3>2. token = None \/ token.block \in Nat \ {0}
      BY <1>1, <3>1
    <3> HIDE DEF token
    <3>3. /\ Position(FirstDirty, 0).block = FirstDirty
          /\ Position(token.block, 0).block = token.block
      BY DEF Position
    <3>4. Resume = IF token = None \/ AtEnd(token) THEN Position(FirstDirty, 0)
                   ELSE IF SameBlock(token.block) THEN token ELSE Position(token.block, 0)
      BY <2>2 DEF Resume, token
    <3> QED
      BY <1>2, <3>2, <3>3, <3>4
  <2> QED
    BY <2>1, <2>2
<1> QED
  BY <1>5, <1>6 DEF n

\* Every piece that shows the first edited block shows what it says now.
Right(p) == p.block = Min(Dirty) => Faithful(p)

RightPages ==
  Dirty # {} => \A i \in DOMAIN pages : \A k \in DOMAIN pages[i].pieces : Right(pages[i].pieces[k])

RightPage == Dirty # {} => \A k \in DOMAIN page.pieces : Right(page.pieces[k])

\* Pages are compared from the first on that is rebuilt, and one that matched is kept.
ComparedRebuilt ==
  /\ compared \in Nat
  /\ Checkpoint <= compared \/ (pages = <<>> /\ outcome = "complete")
  /\ streak = 1 => compared \in DOMAIN pages /\ Matches(compared)

BuilderOK ==
  /\ JobOK /\ IsSeq(pages) /\ IsSeq(page.pieces)
  /\ DOMAIN page = {"start", "at", "y", "pending", "pieces"}
  /\ page.at.block \in Nat \ {0}

IncrementalInv == BuilderOK /\ PreviousOK /\ RightPages /\ RightPage /\ ComparedRebuilt

LEMMA SameEdit ==
  ASSUME UNCHANGED <<job, previous, changed>>
  PROVE  /\ Dirty' = Dirty /\ Checkpoint' = Checkpoint
         /\ (PreviousOK <=> PreviousOK') /\ (JobOK <=> JobOK')
         /\ \A p : Right(p)' <=> Right(p)
<1>1. Dirty' = Dirty
  BY DEF Dirty
<1>2. \A p : Right(p)' <=> Right(p)
  BY <1>1 DEF Right, Faithful
<1>3. (PreviousOK <=> PreviousOK') /\ (JobOK <=> JobOK')
  BY DEF PreviousOK, JobOK
<1>4. Reparse' = Reparse /\ FirstDirty' = FirstDirty
  BY <1>1 DEF Reparse, SameLimits, FirstDirty
<1>5. \A b : Showing(b)' = Showing(b) /\ Reaching(b)' = Reaching(b)
  BY DEF Showing, Reaching
<1>6. Checkpoint' = Checkpoint
  BY <1>4, <1>5 DEF Checkpoint
<1> QED
  BY <1>1, <1>2, <1>3, <1>6

LEMMA EmptyBuilder ==
  ASSUME NEW start
  PROVE  LET p == EmptyPage(start)
         IN  /\ p.at = start /\ IsSeq(p.pieces) /\ DOMAIN p.pieces = {}
             /\ DOMAIN p = {"start", "at", "y", "pending", "pieces"}
<1>1. EmptyPage(start).pieces = <<>> /\ EmptyPage(start).at = start
      /\ DOMAIN EmptyPage(start) = {"start", "at", "y", "pending", "pieces"}
  BY DEF EmptyPage
<1>2. IsSeq(<<>>) /\ DOMAIN <<>> = {}
  BY EmptySeq DEF IsSeq
<1> QED
  BY <1>1, <1>2

\* Closing a page keeps it right, and the pages before it.
LEMMA CloseKeepsRight ==
  ASSUME BuilderOK, RightPages, UNCHANGED <<previous, changed>>,
         NEW pieces, Dirty # {} => \A k \in DOMAIN pieces : Right(pieces[k]),
         NEW next, next.block \in Nat \ {0}, Close(pieces, next)
  PROVE  /\ BuilderOK' /\ RightPages' /\ RightPage'
         /\ \A i \in DOMAIN pages : i \in DOMAIN pages' /\ pages'[i] = pages[i]
<1> DEFINE last == [start |-> page.start, pieces |-> pieces,
                    next |-> IF AtEnd(next) THEN None ELSE next]
<1>1. pages' = Append(pages, last) /\ page' = EmptyPage(next) /\ job' = job
  BY DEF Close
<1>2. last.pieces = pieces
  OBVIOUS
<1> HIDE DEF last
<1>3. /\ IsSeq(pages') /\ Len(pages) \in Nat
      /\ DOMAIN pages = 1 .. Len(pages) /\ DOMAIN pages' = 1 .. Len(pages) + 1
      /\ \A i \in 1 .. Len(pages) : pages'[i] = pages[i]
      /\ pages'[Len(pages) + 1] = last
  BY <1>1, AppendAny DEF BuilderOK
<1>4. Dirty' = Dirty /\ JobOK' /\ \A p : Right(p)' <=> Right(p)
  BY <1>1, SameEdit DEF BuilderOK
<1>5. BuilderOK'
  BY <1>1, <1>3, <1>4, EmptyBuilder DEF BuilderOK
<1>6. RightPages'
  <2> SUFFICES ASSUME Dirty # {}, NEW i \in 1 .. Len(pages) + 1,
                      NEW k \in DOMAIN pages'[i].pieces
               PROVE  Right(pages'[i].pieces[k])
    BY <1>3, <1>4 DEF RightPages
  <2>1. CASE i \in 1 .. Len(pages)
    BY <1>3, <2>1 DEF RightPages
  <2>2. CASE i = Len(pages) + 1
    BY <1>2, <1>3, <2>2
  <2> QED
    BY <1>3, <2>1, <2>2
<1>7. RightPage'
  BY <1>1, EmptyBuilder DEF RightPage
<1> QED
  BY <1>3, <1>5, <1>6, <1>7

\* The pieces of the page with one more that is made for the current block.
LEMMA PieceKeepsRight ==
  ASSUME BuilderOK, RightPage, NEW piece, Places(piece)
  PROVE  /\ IsSeq(Append(page.pieces, piece))
         /\ Dirty # {} => \A k \in DOMAIN Append(page.pieces, piece) :
                            Right(Append(page.pieces, piece)[k])
<1>1. /\ IsSeq(Append(page.pieces, piece)) /\ Len(page.pieces) \in Nat
      /\ DOMAIN page.pieces = 1 .. Len(page.pieces)
      /\ DOMAIN Append(page.pieces, piece) = 1 .. Len(page.pieces) + 1
      /\ \A k \in 1 .. Len(page.pieces) : Append(page.pieces, piece)[k] = page.pieces[k]
      /\ Append(page.pieces, piece)[Len(page.pieces) + 1] = piece
  BY AppendAny DEF BuilderOK
<1>2. Right(piece)
  BY PiecesFaithful DEF BuilderOK, Places, Right
<1>3. ASSUME Dirty # {}, NEW k \in 1 .. Len(page.pieces) + 1
      PROVE  Right(Append(page.pieces, piece)[k])
  <2>1. CASE k \in 1 .. Len(page.pieces)
    BY <1>1, <1>3, <2>1 DEF RightPage
  <2>2. CASE k = Len(page.pieces) + 1
    BY <1>1, <1>2, <2>2
  <2> QED
    BY <1>1, <2>1, <2>2
<1> QED
  BY <1>1, <1>3

LEMMA PaginateKeepsRight ==
  ASSUME IncrementalInv, [PaginationNext]_paginationVars,
         UNCHANGED <<previous, changed, compared, streak>>
  PROVE  IncrementalInv'
<1>1. job' = job /\ (PlacesNothing \/ \E piece : Places(piece))
  BY StepKinds
<1>2. /\ Dirty' = Dirty /\ Checkpoint' = Checkpoint /\ PreviousOK' /\ JobOK'
      /\ \A p : Right(p)' <=> Right(p)
  BY <1>1, SameEdit DEF IncrementalInv, BuilderOK
<1>3. page.at.block \in Nat \ {0} /\ page.at.block + 1 \in Nat \ {0}
  BY DEF IncrementalInv, BuilderOK
<1>4. /\ BuilderOK' /\ RightPages' /\ RightPage'
      /\ \A i \in DOMAIN pages : i \in DOMAIN pages' /\ pages'[i] = pages[i]
  <2>1. CASE UNCHANGED <<pages, page>>
    BY <1>1, <1>2, <2>1 DEF IncrementalInv, BuilderOK, RightPages, RightPage
  <2>2. CASE Skip
    <3>1. /\ pages' = pages /\ page'.at = NextBlock /\ page'.pieces = page.pieces
          /\ DOMAIN page' = DOMAIN page
      BY <2>2 DEF Skip, IncrementalInv, BuilderOK
    <3>2. NextBlock.block \in Nat \ {0}
      BY <1>3 DEF NextBlock, Position
    <3> QED
      BY <1>1, <1>2, <3>1, <3>2 DEF IncrementalInv, BuilderOK, RightPages, RightPage
  <2>3. CASE Close(page.pieces, page.at) \/ Close(page.pieces, NextBlock)
    <3>1. NextBlock.block \in Nat \ {0}
      BY <1>3 DEF NextBlock, Position
    <3> QED
      BY <1>3, <2>3, <3>1, CloseKeepsRight DEF IncrementalInv, RightPage
  <2>4. CASE \E piece : Places(piece)
    <3>1. PICK piece : Places(piece)
      BY <2>4
    <3> DEFINE more == Append(page.pieces, piece)
    <3>2. IsSeq(more) /\ (Dirty # {} => \A k \in DOMAIN more : Right(more[k]))
      BY <3>1, PieceKeepsRight DEF IncrementalInv
    <3>3. CASE Put(piece)
      <4>1. NextBlock.block \in Nat \ {0}
        BY <1>3 DEF NextBlock, Position
      <4> DEFINE below == piece.bottom + Current.paddingBottom
      <4>2. /\ pages' = pages
            /\ page' = [page EXCEPT !.pieces = more, !.at = NextBlock, !.y = below,
                                    !.pending = Current.marginBottom]
        BY <3>3 DEF Put
      <4> HIDE DEF more, below
      <4>3. page'.pieces = more /\ page'.at = NextBlock /\ DOMAIN page' = DOMAIN page
        BY <4>2 DEF IncrementalInv, BuilderOK
      <4> QED
        BY <1>1, <1>2, <3>2, <4>1, <4>2, <4>3
           DEF IncrementalInv, BuilderOK, RightPages, RightPage
    <3>4. CASE \E next : next.block \in {page.at.block, page.at.block + 1}
                           /\ Close(more, next)
      <4>1. PICK next : next.block \in {page.at.block, page.at.block + 1} /\ Close(more, next)
        BY <3>4
      <4> HIDE DEF more
      <4> QED
        BY <1>3, <3>2, <4>1, CloseKeepsRight DEF IncrementalInv
    <3> QED
      BY <3>1, <3>3, <3>4 DEF Places
  <2> QED
    BY <1>1, <2>1, <2>2, <2>3, <2>4 DEF PlacesNothing
<1>5. ComparedRebuilt'
  <2>1. CASE outcome = "complete"
    <3>1. UNCHANGED <<pages, outcome>>
      BY <1>1, <2>1 DEF PlacesNothing, Places, Loop, TooManyFragments, PageLimit, Validate
    <3> QED
      BY <1>1, <1>2, <3>1 DEF IncrementalInv, ComparedRebuilt, Matches
  <2>2. CASE outcome # "complete"
    BY <1>1, <1>2, <1>4, <2>2 DEF IncrementalInv, ComparedRebuilt, Matches
  <2> QED
    BY <2>1, <2>2
<1> QED
  BY <1>2, <1>4, <1>5 DEF IncrementalInv

LEMMA CompareKeepsRight == ASSUME IncrementalInv, Compare PROVE IncrementalInv'
<1>1. /\ UNCHANGED <<job, pages, page, outcome, previous, changed>>
      /\ compared < Len(pages) /\ compared' = compared + 1
      /\ streak' = IF Matches(compared + 1) THEN 1 ELSE 0
  BY DEF Compare, ToCompare
<1>2. /\ Dirty' = Dirty /\ Checkpoint' = Checkpoint /\ PreviousOK' /\ JobOK'
      /\ \A p : Right(p)' <=> Right(p)
  BY <1>1, SameEdit DEF IncrementalInv, BuilderOK
<1>3. BuilderOK' /\ RightPages' /\ RightPage'
  BY <1>1, <1>2 DEF IncrementalInv, BuilderOK, RightPages, RightPage
<1>4. Len(pages) \in Nat /\ DOMAIN pages = 1 .. Len(pages) /\ (pages = <<>> => Len(pages) = 0)
  BY SeqShape DEF IncrementalInv, BuilderOK
<1>5. Checkpoint \in Nat
  <2>1. Len(previous.pages) \in Nat /\ PreviousOK /\ JobOK
    BY PreviousPages DEF IncrementalInv, BuilderOK
  <2>2. Checkpoint \in 0 .. Len(previous.pages)
    BY <2>1, CheckpointBounds
  <2> QED
    BY <2>1, <2>2
<1>6. ComparedRebuilt'
  <2>1. compared \in Nat /\ Checkpoint <= compared
    BY <1>1, <1>4 DEF IncrementalInv, ComparedRebuilt
  <2>2. streak' = 1 => Matches(compared)'
    BY <1>1 DEF Matches
  <2> QED
    BY <1>1, <1>2, <1>4, <1>5, <2>1, <2>2 DEF ComparedRebuilt
<1> QED
  BY <1>2, <1>3, <1>6 DEF IncrementalInv

\* A page further down than two that matched shows the edited block only if the
\* second of them does, and then it says what the block says now.
LEMMA TailIsRight ==
  ASSUME IncrementalInv, ToCompare, Matches(compared + 1), streak = 1, Dirty # {},
         NEW j \in DOMAIN previous.pages, compared <= j,
         NEW k \in DOMAIN previous.pages[j].pieces
  PROVE  Right(previous.pages[j].pieces[k])
<1> DEFINE block == Min(Dirty)
           shown(i, l) == previous.pages[i].pieces[l]
           c == compared + 1
<1>1. /\ Len(pages) \in Nat /\ DOMAIN pages = 1 .. Len(pages) /\ (pages = <<>> => Len(pages) = 0)
      /\ Len(previous.pages) \in Nat /\ DOMAIN previous.pages = 1 .. Len(previous.pages)
  BY SeqShape, PreviousPages DEF IncrementalInv, BuilderOK
<1>2. /\ compared \in Nat /\ compared < Len(pages) /\ Checkpoint <= compared
      /\ compared \in DOMAIN pages /\ Matches(compared)
  BY <1>1 DEF IncrementalInv, ComparedRebuilt, ToCompare
<1>3. c \in DOMAIN pages /\ c \in DOMAIN previous.pages
      /\ pages[c].pieces = previous.pages[c].pieces
  BY <1>1, <1>2 DEF Matches
<1>4. ASSUME NEW l \in DOMAIN previous.pages[c].pieces PROVE Right(shown(c, l))
  BY <1>3 DEF IncrementalInv, RightPages
<1>5. CASE j = compared
  <2>1. pages[compared].pieces = previous.pages[j].pieces
    BY <1>2, <1>5 DEF Matches
  <2> QED
    BY <1>2, <1>5, <2>1 DEF IncrementalInv, RightPages
<1>6. CASE j = c
  BY <1>4, <1>6
<1>7. CASE c < j /\ shown(j, k).block = block
  <2>1. PreviousOK
    BY DEF IncrementalInv
  <2>2. /\ block \in Nat /\ Checkpoint \in Nat
        /\ Reparse /\ Showing(block) # {} => Checkpoint + 1 \in Showing(block)
    BY <1>1, DirtyBlocks, CheckpointBounds DEF IncrementalInv, BuilderOK
  <2>3. Reparse /\ j \in Showing(block)
    BY <1>2, <1>7 DEF Reparse, Matches, Showing
  <2>4. PICK m : m = Checkpoint + 1 /\ m \in Showing(block)
    BY <2>2, <2>3
  <2>5. m \in DOMAIN previous.pages /\ m <= c
        /\ \E q \in DOMAIN previous.pages[m].pieces : shown(m, q).block = block
    BY <1>2, <2>2, <2>4 DEF Showing
  <2>6. PICK l \in DOMAIN previous.pages[c].pieces : shown(c, l).block = block
    <3>1. CASE m = c
      BY <2>5, <3>1
    <3>2. CASE m < c
      <4>1. PICK q \in DOMAIN previous.pages[m].pieces : shown(m, q).block = block
        BY <2>5
      <4>2. PICK l \in DOMAIN previous.pages[c].pieces : TRUE
        BY <1>1, <1>3, <1>7, <2>1, PreviousNotBlank
      <4>3. shown(m, q).block <= shown(c, l).block /\ shown(c, l).block <= shown(j, k).block
        BY <1>3, <1>7, <2>1, <2>5, <3>2, PreviousOrder
      <4>4. shown(c, l).block \in Nat
        BY <1>3, <2>1, PreviousContent
      <4> QED
        BY <1>7, <2>2, <4>1, <4>3, <4>4
    <3>3. m = c \/ m < c
      BY <1>2, <2>2, <2>4, <2>5
    <3> QED
      BY <3>1, <3>2, <3>3
  <2>7. /\ shown(c, l).content = previous.job.blocks[block].content
        /\ shown(j, k).content = previous.job.blocks[block].content
    <3>1. /\ shown(c, l).content = previous.job.blocks[shown(c, l).block].content
          /\ shown(j, k).content = previous.job.blocks[shown(j, k).block].content
      BY <1>3, <2>1, PreviousContent
    <3> HIDE DEF shown
    <3> QED
      BY <1>7, <2>6, <3>1, SMTT(60)
  <2>8. Faithful(shown(c, l))
    BY <1>4, <2>6 DEF Right
  <2> QED
    BY <1>7, <2>6, <2>7, <2>8 DEF Right, Faithful
<1>8. CASE shown(j, k).block # block
  BY <1>8 DEF Right
<1> QED
  BY <1>1, <1>2, <1>5, <1>6, <1>7, <1>8

\* What the pages are once a tail is taken over.
LEMMA TailPages ==
  ASSUME IncrementalInv, TakeTail
  PROVE  LET n == Len(previous.pages)
         IN  /\ n \in Nat /\ DOMAIN previous.pages = 1 .. n /\ Len(pages) \in Nat
             /\ DOMAIN pages = 1 .. Len(pages)
             /\ compared \in Nat \ {0} /\ compared < Len(pages) /\ Checkpoint <= compared
             /\ compared + 1 \in 1 .. n /\ Checkpoint \in 0 .. n /\ Matches(compared)
             /\ IsSeq(pages') /\ Len(pages') = n /\ DOMAIN pages' = 1 .. n
             /\ \A i \in 1 .. n :
                  pages'[i] = IF i < compared THEN pages[i] ELSE previous.pages[i]
<1> DEFINE n == Len(previous.pages)
           kept == SubSeq(pages, 1, compared - 1)
           rest == SubSeq(previous.pages, compared, n)
<1>1. /\ ToCompare /\ Matches(compared + 1) /\ streak = 1
      /\ pages' = kept \o rest /\ compared' = Len(pages')
      /\ UNCHANGED <<job, page, previous, changed, streak>>
  BY DEF TakeTail
<1>3. /\ IsSeq(pages) /\ Len(pages) \in Nat /\ DOMAIN pages = 1 .. Len(pages)
      /\ (pages = <<>> => Len(pages) = 0)
      /\ IsSeq(previous.pages) /\ n \in Nat /\ DOMAIN previous.pages = 1 .. n
  BY SeqShape, PreviousPages DEF IncrementalInv, BuilderOK
<1>4. /\ compared \in Nat \ {0} /\ compared < Len(pages) /\ Checkpoint <= compared
      /\ compared + 1 \in 1 .. n /\ Checkpoint \in 0 .. n /\ Matches(compared)
  BY <1>1, <1>3, CheckpointBounds
     DEF IncrementalInv, BuilderOK, ComparedRebuilt, ToCompare, Matches
<1>5. /\ IsSeq(kept) /\ Len(kept) = compared - 1
      /\ \A i \in 1 .. compared - 1 : kept[i] = pages[i]
  <2>1. PICK c \in Nat : c = compared - 1 /\ c <= Len(pages)
    BY <1>3, <1>4
  <2>2. /\ IsSeq(SubSeq(pages, 1, c)) /\ Len(SubSeq(pages, 1, c)) = c
        /\ \A i \in 1 .. c : SubSeq(pages, 1, c)[i] = pages[i]
    BY <1>3, <2>1, FirstPart
  <2> QED
    BY <2>1, <2>2
<1>6. /\ IsSeq(rest) /\ Len(rest) = n - compared + 1
      /\ \A i \in 1 .. n - compared + 1 : rest[i] = previous.pages[compared + i - 1]
  <2>1. PICK m \in Nat : m = n
    BY <1>3
  <2>2. IsSeq(previous.pages) /\ m <= Len(previous.pages)
    BY <1>3, <2>1
  <2>3. PICK c \in Nat \ {0} : c = compared /\ c <= m + 1
    BY <1>4, <2>1
  <2>4. rest = SubSeq(previous.pages, c, m)
    BY <2>1, <2>3
  <2> HIDE DEF rest, n
  <2>5. /\ IsSeq(rest) /\ Len(rest) = m - c + 1
        /\ \A i \in 1 .. m - c + 1 : rest[i] = previous.pages[c + i - 1]
    BY <2>2, <2>3, <2>4, SubSeqAny
  <2> QED
    BY <2>1, <2>3, <2>5
<1> HIDE DEF kept, rest, n
<1>7. /\ IsSeq(pages') /\ Len(pages') = n /\ DOMAIN pages' = 1 .. n
      /\ \A i \in 1 .. n : pages'[i] = IF i < compared THEN pages[i] ELSE previous.pages[i]
  <2>1. /\ IsSeq(pages') /\ Len(pages') = Len(kept) + Len(rest)
        /\ DOMAIN pages' = 1 .. Len(kept) + Len(rest)
        /\ \A i \in 1 .. Len(kept) + Len(rest) :
             pages'[i] = IF i <= Len(kept) THEN kept[i] ELSE rest[i - Len(kept)]
    BY <1>1, <1>5, <1>6, ConcatAny
  <2>2. Len(kept) + Len(rest) = n
    BY <1>3, <1>4, <1>5, <1>6
  <2>3. ASSUME NEW i \in 1 .. n
        PROVE  pages'[i] = IF i < compared THEN pages[i] ELSE previous.pages[i]
    <3>1. CASE i < compared
      BY <1>4, <1>5, <2>1, <2>2, <3>1
    <3>2. CASE ~(i < compared)
      <4>1. i - Len(kept) \in 1 .. n - compared + 1 /\ compared + (i - Len(kept)) - 1 = i
            /\ ~(i <= Len(kept))
        BY <1>3, <1>4, <1>5, <3>2
      <4> QED
        BY <1>6, <2>1, <2>2, <3>2, <4>1
    <3> QED
      BY <3>1, <3>2
  <2> QED
    BY <2>1, <2>2, <2>3
<1> QED
  BY <1>3, <1>4, <1>7 DEF n

LEMMA TakeTailKeepsRight == ASSUME IncrementalInv, TakeTail PROVE IncrementalInv'
<1> DEFINE n == Len(previous.pages)
<1>1. /\ ToCompare /\ Matches(compared + 1) /\ streak = 1
      /\ compared' = Len(pages')
      /\ UNCHANGED <<job, page, previous, changed, streak>>
  BY DEF TakeTail
<1>2. /\ Dirty' = Dirty /\ Checkpoint' = Checkpoint /\ PreviousOK' /\ JobOK'
      /\ \A p : Right(p)' <=> Right(p)
  BY <1>1, SameEdit DEF IncrementalInv, BuilderOK
<1>3. /\ n \in Nat /\ DOMAIN previous.pages = 1 .. n /\ Len(pages) \in Nat
      /\ DOMAIN pages = 1 .. Len(pages)
  BY TailPages
<1>4. /\ compared \in Nat \ {0} /\ compared < Len(pages) /\ Checkpoint <= compared
      /\ compared + 1 \in 1 .. n /\ Checkpoint \in 0 .. n /\ Matches(compared)
  BY TailPages
<1>5. /\ IsSeq(pages') /\ Len(pages') = n /\ DOMAIN pages' = 1 .. n
      /\ \A i \in 1 .. n : pages'[i] = IF i < compared THEN pages[i] ELSE previous.pages[i]
  BY TailPages
<1> HIDE DEF n
<1>6. BuilderOK'
  BY <1>1, <1>2, <1>5 DEF IncrementalInv, BuilderOK
<1>7. RightPages'
  <2> SUFFICES ASSUME Dirty # {}, NEW i \in 1 .. n, NEW k \in DOMAIN pages'[i].pieces
               PROVE  Right(pages'[i].pieces[k])
    BY <1>2, <1>5 DEF RightPages
  <2>1. CASE i < compared
    <3>1. i \in DOMAIN pages /\ pages'[i] = pages[i]
      BY <1>3, <1>4, <1>5, <2>1
    <3> QED
      BY <3>1 DEF IncrementalInv, RightPages
  <2>2. CASE ~(i < compared)
    <3>1. pages'[i] = previous.pages[i] /\ compared <= i /\ i \in DOMAIN previous.pages
      BY <1>3, <1>4, <1>5, <2>2
    <3> QED
      BY <1>1, <3>1, TailIsRight
  <2> QED
    BY <2>1, <2>2
<1>8. RightPage'
  BY <1>1, <1>2 DEF IncrementalInv, RightPage
<1>9. ComparedRebuilt'
  <2>1. compared' = n /\ n \in 1 .. n /\ pages'[n] = previous.pages[n] /\ Checkpoint <= n
    BY <1>1, <1>3, <1>4, <1>5
  <2>2. Matches(compared)'
    BY <1>1, <1>3, <1>4, <2>1 DEF Matches
  <2> QED
    BY <1>2, <1>3, <1>5, <2>1, <2>2 DEF ComparedRebuilt
<1> QED
  BY <1>2, <1>6, <1>7, <1>8, <1>9 DEF IncrementalInv

\* The pages that are kept do not show the edited block.
LEMMA StartIsRight ==
  ASSUME WholeInv, PreviousOK, streak = 0, Repaint \/ Repaginate
  PROVE  IncrementalInv'
<1> DEFINE n == Len(previous.pages)
<1>1. Start /\ UNCHANGED <<job, previous, changed, streak>>
  BY DEF Repaint, Repaginate, Start
<1>2. JobOK
  BY DEF WholeInv, TextInv, PInv
<1>3. /\ Dirty' = Dirty /\ Checkpoint' = Checkpoint /\ PreviousOK' /\ JobOK'
      /\ \A p : Right(p)' <=> Right(p)
  BY <1>1, <1>2, SameEdit
<1>4. /\ IsSeq(previous.pages) /\ n \in Nat /\ DOMAIN previous.pages = 1 .. n
      /\ Checkpoint \in 0 .. n /\ Resume.block \in Nat \ {0}
      /\ Dirty # {} => \A i \in 1 .. Checkpoint : i \notin Showing(Min(Dirty))
  BY <1>2, PreviousPages, CheckpointBounds
<1>5. CASE Repaint
  <2>1. Dirty = {} /\ ~Reparse
    BY <1>5 DEF Repaint, PaintOnly, Reparse
  <2>2. pages' = previous.pages /\ compared' = n /\ page' = page
    BY <1>5 DEF Repaint
  <2>3. Checkpoint = 0
    BY <2>1 DEF Checkpoint
  <2>4. BuilderOK'
    <3>1. /\ page \in [start : Token, at : Token, y : Int, pending : Int, pieces : Seq(PagePiece)]
      BY DEF WholeInv, TextInv, PInv, PaginationTypeOK
    <3>2. DOMAIN page = {"start", "at", "y", "pending", "pieces"} /\ page.at \in Token
          /\ page.pieces \in Seq(PagePiece)
      BY <3>1
    <3>3. page.at.block \in Nat \ {0} /\ IsSeq(page.pieces)
      BY <1>2, <3>2 DEF Token, IsSeq, JobOK
    <3> QED
      BY <1>3, <1>4, <2>2, <3>2, <3>3 DEF BuilderOK
  <2> QED
    BY <1>1, <1>3, <1>4, <2>1, <2>2, <2>3, <2>4
       DEF IncrementalInv, RightPages, RightPage, ComparedRebuilt
<1>6. CASE Repaginate
  <2> DEFINE kept == SubSeq(previous.pages, 1, Checkpoint)
  <2>1. /\ pages' = IF job.blocks = <<>> THEN <<>> ELSE kept
        /\ compared' = Len(pages') /\ page' = EmptyPage(Resume)
        /\ job.blocks = <<>> => outcome' = "complete"
    BY <1>6 DEF Repaginate
  <2>2. /\ IsSeq(kept) /\ Len(kept) = Checkpoint /\ DOMAIN kept = 1 .. Checkpoint
        /\ \A i \in 1 .. Checkpoint : kept[i] = previous.pages[i]
    BY <1>4, FirstPart
  <2> HIDE DEF kept
  <2>3. IsSeq(<<>>) /\ DOMAIN <<>> = {} /\ Len(<<>>) = 0
    BY EmptySeq DEF IsSeq
  <2>4. BuilderOK' /\ RightPage'
    BY <1>3, <1>4, <2>1, <2>2, <2>3, EmptyBuilder DEF BuilderOK, RightPage
  <2>5. RightPages'
    <3> SUFFICES ASSUME Dirty # {}, NEW i \in 1 .. Checkpoint,
                        NEW k \in DOMAIN previous.pages[i].pieces
                 PROVE  Right(previous.pages[i].pieces[k])
      BY <1>3, <2>1, <2>2, <2>3 DEF RightPages
    <3>1. i \in DOMAIN previous.pages /\ i \notin Showing(Min(Dirty))
      BY <1>4
    <3> QED
      BY <3>1 DEF Showing, Right
  <2>6. ComparedRebuilt'
    BY <1>1, <1>3, <1>4, <2>1, <2>2, <2>3 DEF ComparedRebuilt
  <2> QED
    BY <1>3, <2>4, <2>5, <2>6 DEF IncrementalInv
<1> QED
  BY <1>5, <1>6

EditInv ==
  /\ stage \in {"previous", "reference", "incremental"}
  /\ stage = "incremental" => IncrementalInv
  /\ stage # "incremental" => WholeInv /\ streak = 0
  /\ stage # "previous" => PreviousOK

LEMMA InitEditInv == RepaginationInit => EditInv
  BY InitWholeInv DEF RepaginationInit, EditInv

LEMMA NextEditInv == EditInv /\ [RepaginationNext]_repaginationVars => EditInv'
<1> SUFFICES ASSUME EditInv, [RepaginationNext]_repaginationVars PROVE EditInv'
  OBVIOUS
<1> USE DEF EditInv
<1>1. CASE Paginate \/ UNCHANGED repaginationVars
  <2>1. /\ [PaginationNext]_paginationVars /\ UNCHANGED <<stage, previous, changed, streak>>
        /\ stage = "incremental" => UNCHANGED compared
    BY <1>1 DEF Paginate, repaginationVars, paginationVars
  <2>2. PreviousOK => PreviousOK'
    BY <2>1 DEF PreviousOK
  <2>3. CASE stage = "incremental"
    BY <2>1, <2>2, <2>3, PaginateKeepsRight
  <2>4. CASE stage # "incremental"
    BY <2>1, <2>2, <2>4, NextWholeInv
  <2> QED
    BY <2>3, <2>4
<1>2. CASE Edit
  <2>1. stage = "previous" /\ stage' = "reference" /\ streak' = streak /\ outcome = "complete"
        /\ previous' = [job |-> job, pages |-> pages]
    BY <1>2 DEF Edit
  <2>2. PICK new \in Editions :
          job' = new /\ outcome' = IF new.blocks = <<>> THEN "complete" ELSE "paging"
    BY <1>2 DEF Edit
  <2>3. PaginationInit'
    BY <1>2, <2>2, RepaginationAssumption DEF PaginationInit, Edit, Job, EmptyPage, Position
  <2>4. WholeInv'
    BY <2>3, InitWholeInv, PTL
  <2>5. Result(job, pages)
    BY <2>1, ResultOfPagination
  <2>6. previous'.job = job /\ previous'.pages = pages
    BY <2>1
  <2>7. PreviousOK'
    BY <2>5, <2>6 DEF PreviousOK
  <2> QED
    BY <2>1, <2>4, <2>7
<1>3. CASE Repaint \/ Repaginate
  <2>1. stage = "reference" /\ stage' = "incremental"
    BY <1>3 DEF Repaint, Repaginate, Start
  <2>2. IncrementalInv'
    BY <1>3, <2>1, StartIsRight
  <2> QED
    BY <2>1, <2>2 DEF IncrementalInv
<1>4. CASE Compare \/ TakeTail
  <2>1. stage = "incremental" /\ stage' = stage
    BY <1>4 DEF Compare, TakeTail, ToCompare
  <2>2. IncrementalInv'
    BY <1>4, <2>1, CompareKeepsRight, TakeTailKeepsRight
  <2> QED
    BY <2>1, <2>2 DEF IncrementalInv
<1> QED
  BY <1>1, <1>2, <1>3, <1>4 DEF RepaginationNext

(* Whatever an edit changes besides, repaginate_incrementally never shows   *)
(* the first edited block as it was: pages that showed it are not kept, and *)
(* a tail is taken over only behind a page that would have told.            *)
THEOREM EditIsShown == RepaginationSpec => []FirstEditShown
<1>1. EditInv => FirstEditShown
  BY DEF EditInv, IncrementalInv, RightPages, Right, Faithful, FirstEditShown, Done
<1> QED
  BY <1>1, InitEditInv, NextEditInv, PTL DEF RepaginationSpec

(* Pagination from scratch keeps the text, before an edit and after it: the *)
(* reference that incremental repagination is measured by is sound.         *)
THEOREM ScratchKeepsText == RepaginationSpec => []TextKept
<1>1. EditInv => TextKept
  BY TextInvSuffices DEF EditInv, WholeInv, TextKept, FromScratch
<1> QED
  BY <1>1, InitEditInv, NextEditInv, PTL DEF RepaginationSpec

-----------------------------------------------------------------------------
(* Where pieces are placed *)

\* What is on the page lies above where the loop goes on.
Below ==
  page.pending >= 0 /\ \A s \in Spots : s[1] = Len(pages) + 1 => At(s).bottom <= page.y

\* A block that goes on starts a page; when one line of it is left, the page before shows
\* one line of it and nothing else.
Continued ==
  page.at.line > 0 =>
    /\ page.pieces = <<>>
    /\ Remaining = 1 =>
         \E t \in Spots : /\ t[1] = Len(pages) /\ t[2] = 1
                          /\ At(t).block = page.at.block /\ At(t).to = page.at.line
                          /\ At(t).from + 1 = page.at.line

PlacementInv ==
  /\ TextInv /\ OverflowExcused /\ SingleLines /\ Continued
  /\ NoNegativeSpacing => NoOverlap /\ Below

LEMMA InitPlacementInv == PaginationInit => PlacementInv
<1> SUFFICES ASSUME PaginationInit PROVE PlacementInv
  OBVIOUS
<1>1. TextInv /\ pages = <<>> /\ page.pieces = <<>> /\ page.at.line = 0 /\ page.pending = 0
  BY InitTextInv DEF PaginationInit, EmptyPage, Position
<1>2. Spots = {}
  BY <1>1, NoSpots DEF TextInv
<1> QED
  BY <1>1, <1>2 DEF PlacementInv, OverflowExcused, SingleLines, Continued, NoOverlap, Below

\* What fits, fits: lines below others end within the page, and so does a first piece of
\* several lines, but for a last line above a negative padding; where two lines fit, one
\* goes on the page only when three are left.
LEMMA LinesPlacement ==
  ASSUME PInv, Loop, Remaining > 0, ~Refused
  PROVE  /\ Lines.bottom > job.height =>
              \/ ~Started /\ Taken = 1
              \/ /\ Taken = Remaining /\ Lines.bottom + Current.paddingBottom <= job.height
                 /\ Lines.bottom < job.height + LineHeight
         /\ Started /\ Taken = 1 /\ Taken < Remaining => Remaining = 3
         /\ Taken + 1 = Remaining => ~Started /\ Taken = 1
<1>1. Current \in Block /\ page.at.line \in Nat /\ Top \in Int /\ job.height \in Nat
  BY RoundFacts, TopIsInt DEF Token, PInv, JobOK
<1>2. Remaining \in Nat /\ Current.paddingBottom \in Int
  BY <1>1 DEF Remaining, Block
<1>3. FitCount \in 1 .. Remaining /\ \A m \in 2 .. FitCount : Follows(m)
  BY <1>2, FittingLines
<1>4. /\ Taken \in 1 .. FitCount
      /\ Taken = FitCount \/ (Taken = FitCount - 1 /\ Remaining = FitCount + 1)
  BY <1>2, <1>3 DEF Taken
<1>5. ASSUME NEW m \in Nat, m > 0, Fits(m), Ends(m - 1) < job.height
      PROVE  \/ Ends(m) <= job.height
             \/ /\ m = Remaining /\ Ends(m) + Current.paddingBottom <= job.height
                /\ Ends(m) < job.height + LineHeight
  <2>1. m - 1 \in Nat /\ m - 1 + 1 = m
    BY <1>5
  <2>2. Ends(m) \in Int /\ Ends(m - 1) \in Int /\ Ends(m) = Ends(m - 1) + LineHeight
    BY <1>1, <2>1, LineEnds
  <2> QED
    BY <1>1, <1>2, <1>5, <2>2 DEF Fits
<1>6. Started => Top < job.height /\ Fits(1) /\ (FitCount # 1 \/ Remaining <= 1)
  BY <1>1, <1>2 DEF Refused
<1>7. Lines.bottom = Ends(Taken) /\ Ends(0) = Top
  BY <1>1 DEF Lines, Ends
<1>8. Taken > 1 => Fits(Taken) /\ Ends(Taken - 1) < job.height
  BY <1>2, <1>3, <1>4 DEF Follows
<1>9. Lines.bottom > job.height =>
        \/ ~Started /\ Taken = 1
        \/ /\ Taken = Remaining /\ Lines.bottom + Current.paddingBottom <= job.height
           /\ Lines.bottom < job.height + LineHeight
  <2> SUFFICES ASSUME Lines.bottom > job.height, Started \/ Taken # 1
               PROVE  /\ Taken = Remaining /\ Lines.bottom + Current.paddingBottom <= job.height
                      /\ Lines.bottom < job.height + LineHeight
    OBVIOUS
  <2>1. Taken \in Nat /\ Taken > 0
    BY <1>2, <1>3, <1>4
  <2>2. Fits(Taken) /\ Ends(Taken - 1) < job.height
    <3>1. CASE Taken = 1
      BY <1>6, <1>7, <3>1
    <3>2. CASE Taken # 1
      BY <1>8, <2>1, <3>2
    <3> QED
      BY <3>1, <3>2
  <2>3. Ends(Taken) \in Int
    BY <1>1, <2>1, LineEnds
  <2> QED
    BY <1>1, <1>5, <1>7, <2>1, <2>2, <2>3
<1>10. Started /\ Taken = 1 /\ Taken < Remaining => Remaining = 3
  BY <1>2, <1>3, <1>4, <1>6
<1>11. Taken + 1 = Remaining => ~Started /\ Taken = 1
  <2> SUFFICES ASSUME Taken + 1 = Remaining PROVE ~Started /\ Taken = 1
    OBVIOUS
  <2>1. Taken = FitCount /\ ~(Remaining - FitCount = 1 /\ FitCount > 1)
    BY <1>2, <1>3 DEF Taken
  <2> QED
    BY <1>2, <1>3, <1>6, <2>1
<1> QED
  BY <1>9, <1>10, <1>11

\* A box passes the bottom only on a page of its own, an image cut to the least height there,
\* or above a negative padding.
LEMMA BoxPlacement ==
  ASSUME PInv, Loop, Started => BoxFits
  PROVE  /\ TheBox.top >= Top /\ TheBox.bottom >= TheBox.top
         /\ TheBox.bottom > job.height =>
              \/ /\ ~Started
                 /\ Current.kind \in {"image", "cover"} => TheBox.bottom = TheBox.top + 1
              \/ TheBox.bottom + Current.paddingBottom <= job.height
<1>1. Current \in Block /\ Top \in Int /\ job.height \in Nat
  BY RoundFacts, TopIsInt DEF PInv, JobOK
<1>2. Current.paddingBottom \in Int /\ Current.paddingTop \in Int /\ Current.lines \in Nat
  BY <1>1 DEF Block
<1>3. Height \in Nat /\ (Current.kind # "box" => Height >= 1)
  BY <1>1, <1>2 DEF Height, AtLeastOne
<1>4. /\ Clipped \in Nat
      /\ Top + Height <= job.height => Clipped = Height
      /\ Top + Height > job.height /\ Current.kind # "box" =>
           Clipped = AtLeastOne(job.height - Top)
  BY <1>1, <1>3 DEF Clipped, AtLeastOne
<1> DEFINE rest == job.height - Top - Current.paddingBottom - Clipped
<1>5. Moved \in Nat /\ (Moved > 0 => Moved <= rest /\ Current.kind = "cover")
  <2>1. rest \in Int
    BY <1>1, <1>2, <1>4
  <2>2. \A r \in Nat : r > 0 => r \div 2 \in Nat /\ r \div 2 <= r
    OBVIOUS
  <2>3. Moved = IF Current.kind = "cover" /\ rest > 0 THEN rest \div 2 ELSE 0
    BY DEF Moved
  <2> HIDE DEF rest
  <2> QED
    BY <2>1, <2>2, <2>3
<1>6. TheBox.top = Top + Moved /\ TheBox.bottom = Top + Moved + Clipped
  BY DEF TheBox
<1>7. CASE Top + Height <= job.height
  BY <1>1, <1>2, <1>3, <1>4, <1>5, <1>6, <1>7
<1>8. CASE Top + Height > job.height
  <2>1. ~Started \/ Top + Height + Current.paddingBottom <= job.height
    BY DEF BoxFits
  <2>2. CASE Current.kind = "box"
    <3>1. Moved = 0 /\ Clipped = Height
      BY <1>5, <2>2 DEF Clipped
    <3> QED
      BY <1>1, <1>2, <1>3, <1>6, <2>1, <2>2, <3>1
  <2>3. CASE Current.kind # "box"
    <3>1. Clipped = AtLeastOne(job.height - Top)
      BY <1>4, <1>8, <2>3
    <3>2. CASE job.height - Top >= 1
      BY <1>1, <1>2, <1>4, <1>5, <1>6, <2>1, <3>1, <3>2 DEF AtLeastOne
    <3>3. CASE ~(job.height - Top >= 1)
      BY <1>1, <1>2, <1>3, <1>4, <1>5, <1>6, <2>1, <2>3, <3>1, <3>3 DEF AtLeastOne
    <3> QED
      BY <3>2, <3>3
  <2> QED
    BY <2>2, <2>3
<1> QED
  BY <1>1, <1>3, <1>7, <1>8

\* With no negative spacing, a block starts below what is above it.
LEMMA TopIsBelow ==
  ASSUME PInv, Loop, NoNegativeSpacing, page.pending >= 0
  PROVE  Top >= page.y /\ Current.marginBottom >= 0 /\ Current.paddingBottom >= 0
<1>1. /\ page.at.block \in DOMAIN job.blocks /\ Current \in Block
      /\ page.y \in Int /\ page.pending \in Int
  BY RoundFacts DEF Loop, AtEnd, Token, PInv, JobOK, PaginationTypeOK
<1>2. /\ Current.marginTop \in Int /\ Current.marginTop >= 0 /\ Current.marginBottom >= 0
      /\ Current.paddingTop \in Int /\ Current.paddingTop >= 0 /\ Current.paddingBottom >= 0
  BY <1>1 DEF NoNegativeSpacing, Current, Block
<1>3. /\ Collapse(page.pending, Current.marginTop) >= 0
      /\ Collapse(page.pending, Current.marginTop) \in Int
  BY <1>1, <1>2 DEF Collapse
<1> QED
  BY <1>1, <1>2, <1>3 DEF Top

LEMMA SpotsAreOnPages ==
  ASSUME PaginationTypeOK, NEW s \in Spots
  PROVE  s[1] \in 1 .. Len(pages) + 1 /\ Len(pages) \in Nat
<1>1. PICK i \in 1 .. Len(pages) + 1 : \E k \in 1 .. Len(PiecesOn(i)) : s = <<i, k>>
  BY SpotsNow
<1> QED
  BY <1>1, SpotsNow

\* A step that places nothing.
LEMMA NothingPlaced ==
  ASSUME PlacementInv, TextInv', job' = job,
         \/ UNCHANGED <<pages, page>>
         \/ Skip \/ Close(page.pieces, NextBlock)
         \/ Close(page.pieces, page.at) /\ (Started \/ AtEnd(page.at))
  PROVE  PlacementInv'
<1>1. PaginationTypeOK /\ PaginationTypeOK' /\ JobOK /\ SplitText
  BY DEF PlacementInv, TextInv, PInv
<1>2. CASE UNCHANGED <<pages, page>> \/ Skip
  <2>1. /\ UNCHANGED pages /\ page'.pieces = page.pieces
        /\ page'.y = page.y /\ page'.pending = page.pending
        /\ page'.at \in {page.at, NextBlock}
    BY <1>1, <1>2 DEF Skip, PaginationTypeOK
  <2>2. Spots' = Spots /\ \A s \in Spots : At(s)' = At(s)
    BY <1>1, <2>1, SameSpots
  <2>3. OverflowExcused' /\ SingleLines' /\ (NoOverlap' <=> NoOverlap)
    BY <2>2 DEF PlacementInv, OverflowExcused, Unavoidable, DrawnUp, SingleLines, NoOverlap,
                   NoNegativeSpacing
  <2>4. Below => Below'
    BY <2>1, <2>2 DEF Below
  <2>5. Continued'
    <3>1. CASE page'.at = page.at
      BY <2>1, <2>2, <3>1 DEF PlacementInv, Continued, Remaining, Current
    <3>2. CASE page'.at = NextBlock
      BY <3>2 DEF Continued, NextBlock, Position
    <3> QED
      BY <2>1, <3>1, <3>2
  <2> QED
    BY <2>3, <2>4, <2>5 DEF PlacementInv, NoNegativeSpacing
<1>3. CASE \/ Close(page.pieces, NextBlock)
           \/ Close(page.pieces, page.at) /\ (Started \/ AtEnd(page.at))
  <2>1. PICK next : Close(page.pieces, next) /\ next.line = 0
    <3>1. NextBlock.line = 0
      BY DEF NextBlock, Position
    <3>2. Started \/ AtEnd(page.at) => page.at.line = 0
      <4>1. page.at.line \in Nat
        BY <1>1 DEF PaginationTypeOK, Token
      <4> QED
        BY <1>1, <4>1 DEF PlacementInv, Continued, Started, SplitText
    <3> QED
      BY <1>3, <3>1, <3>2
  <2>2. Spots' = Spots /\ \A s \in Spots : At(s)' = At(s)
    BY <1>1, <2>1, SameSpots
  <2>3. OverflowExcused' /\ SingleLines' /\ (NoOverlap' <=> NoOverlap)
    BY <2>2 DEF PlacementInv, OverflowExcused, Unavoidable, DrawnUp, SingleLines, NoOverlap,
                   NoNegativeSpacing
  <2>4. Below'
    <3>1. page'.pending = 0 /\ Len(pages) \in Nat /\ Len(pages') = Len(pages) + 1
      BY <1>1, <2>1, Closed DEF Close, EmptyPage
    <3> QED
      BY <1>1, <2>2, <3>1, SpotsAreOnPages DEF Below
  <2>5. Continued'
    BY <2>1 DEF Continued, Close, EmptyPage
  <2> QED
    BY <2>3, <2>4, <2>5 DEF PlacementInv, NoNegativeSpacing
<1> QED
  BY <1>2, <1>3

\* A piece of the current block may pass the bottom.
Excused(piece) ==
  \/ /\ ~Started /\ piece.to = piece.from + 1
     /\ Current.kind \in {"image", "cover"} => piece.bottom = piece.top + 1
  \/ /\ piece.to = Units(Current) /\ piece.bottom + Current.paddingBottom <= job.height
     /\ Current.kind = "text" => piece.bottom < job.height + LineHeight

\* A step that places a piece of the current block.
LEMMA PiecePlaced ==
  ASSUME PlacementInv, TextInv', job' = job, Loop, NEW piece \in PagePiece,
         Put(piece) \/ (\E next : Close(Append(page.pieces, piece), next)),
         piece.block = page.at.block, piece.from = page.at.line,
         piece.top >= Top, piece.bottom >= piece.top,
         piece.bottom > job.height => Excused(piece),
         Current.kind = "text" /\ piece.to = piece.from + 1 =>
           /\ piece.to = Current.lines => Remaining = 1
           /\ piece.to < Current.lines /\ Started => Current.lines - piece.to = 2,
         Continued'
  PROVE  PlacementInv'
<1>1. PaginationTypeOK /\ PaginationTypeOK' /\ JobOK /\ PInv
  BY DEF PlacementInv, TextInv, PInv
<1>2. /\ Spots' = Spots \cup {NextSpot}
      /\ \A s \in Spots : At(s)' = At(s) /\ InOrder(s, NextSpot) /\ ~InOrder(NextSpot, s)
      /\ NextSpot \notin Spots /\ ~InOrder(NextSpot, NextSpot)
      /\ Sheets'[NextSpot[1]].pieces[NextSpot[2]] = piece
  BY <1>1, OneSpotMore
<1>3. PICK new : new = NextSpot
  OBVIOUS
<1>4. At(new)' = piece
  BY <1>2, <1>3 DEF At
<1>5. /\ Len(pages) \in Nat /\ Len(page.pieces) \in Nat /\ (~Started => Len(page.pieces) = 0)
      /\ new = <<Len(pages) + 1, Len(page.pieces) + 1>>
      /\ new[1] = Len(pages) + 1 /\ new[2] = Len(page.pieces) + 1
  <2>1. page.pieces \in Seq(PagePiece)
    BY <1>1 DEF PaginationTypeOK
  <2> QED
    BY <1>1, <1>3, <2>1, SpotsNow DEF NextSpot, Started
<1>6. job.blocks[piece.block] = Current
  BY DEF Current
<1>7. OverflowExcused'
  <2>1. ASSUME piece.bottom > job.height PROVE (Unavoidable(new) \/ DrawnUp(new))'
    BY <1>4, <1>5, <1>6, <2>1 DEF Excused, Unavoidable, DrawnUp
  <2>2. ASSUME NEW s \in Spots, At(s).bottom > job.height PROVE (Unavoidable(s) \/ DrawnUp(s))'
    <3>1. Unavoidable(s) \/ DrawnUp(s)
      BY <2>2 DEF PlacementInv, OverflowExcused
    <3>2. At(s)' = At(s)
      BY <1>2
    <3> QED
      BY <3>1, <3>2 DEF Unavoidable, DrawnUp
  <2> QED
    BY <1>2, <1>3, <1>4, <2>1, <2>2 DEF OverflowExcused
<1>8. SingleLines'
  <2>1. ASSUME NEW s \in Spots, NEW p, p = At(s),
               job.blocks[p.block].kind = "text", p.to = p.from + 1
        PROVE  /\ p.to = job.blocks[p.block].lines /\ p.from > 0 =>
                    \E t \in Spots' : /\ t[1] = s[1] - 1 /\ t[2] = 1
                                      /\ At(t)'.block = p.block /\ At(t)'.to = p.from
                                      /\ At(t)'.from + 1 = p.from
               /\ p.to < job.blocks[p.block].lines /\ s[2] > 1 =>
                    job.blocks[p.block].lines - p.to = 2
    BY <1>2, <2>1 DEF PlacementInv, SingleLines
  <2>2. ASSUME Current.kind = "text", piece.to = piece.from + 1
        PROVE  /\ piece.to = Current.lines /\ piece.from > 0 =>
                    \E t \in Spots' : /\ t[1] = new[1] - 1 /\ t[2] = 1
                                      /\ At(t)'.block = piece.block /\ At(t)'.to = piece.from
                                      /\ At(t)'.from + 1 = piece.from
               /\ piece.to < Current.lines /\ new[2] > 1 => Current.lines - piece.to = 2
    <3>1. ASSUME piece.to = Current.lines, piece.from > 0
          PROVE  \E t \in Spots' : /\ t[1] = new[1] - 1 /\ t[2] = 1
                                   /\ At(t)'.block = piece.block /\ At(t)'.to = piece.from
                                   /\ At(t)'.from + 1 = piece.from
      <4>1. Remaining = 1 /\ page.at.line > 0
        BY <2>2, <3>1
      <4>2. PICK t \in Spots : /\ t[1] = Len(pages) /\ t[2] = 1
                               /\ At(t).block = page.at.block /\ At(t).to = page.at.line
                               /\ At(t).from + 1 = page.at.line
        BY <4>1 DEF PlacementInv, Continued
      <4> QED
        BY <1>2, <1>5, <4>2
    <3> QED
      BY <1>5, <2>2, <3>1
  <2> SUFFICES ASSUME NEW s \in Spots', NEW p, p = At(s)',
                      job.blocks[p.block].kind = "text", p.to = p.from + 1
               PROVE  /\ p.to = job.blocks[p.block].lines /\ p.from > 0 =>
                           \E t \in Spots' : /\ t[1] = s[1] - 1 /\ t[2] = 1
                                             /\ At(t)'.block = p.block /\ At(t)'.to = p.from
                                             /\ At(t)'.from + 1 = p.from
                      /\ p.to < job.blocks[p.block].lines /\ s[2] > 1 =>
                           job.blocks[p.block].lines - p.to = 2
    BY DEF SingleLines
  <2>3. CASE s \in Spots
    BY <1>2, <2>1, <2>3
  <2>4. CASE s = new
    BY <1>4, <1>6, <2>2, <2>4
  <2> QED
    BY <1>2, <1>3, <2>3, <2>4
<1>9. ASSUME NoNegativeSpacing PROVE NoOverlap' /\ Below'
  <2>1. /\ NoOverlap /\ Below /\ Top >= page.y
        /\ Current.marginBottom >= 0 /\ Current.paddingBottom >= 0
    BY <1>1, <1>9, TopIsBelow DEF PlacementInv, Below
  <2>2. /\ page.y \in Int /\ Top \in Int /\ piece.top \in Int /\ piece.bottom \in Int
        /\ \A s \in Spots : At(s).bottom \in Int /\ s[1] \in 1 .. Len(pages) + 1
    BY <1>1, TopIsInt, PiecesTyped, SpotsAreOnPages DEF PaginationTypeOK, PagePiece
  <2>3. ASSUME NEW s \in Spots, s[1] = new[1] PROVE At(s).bottom <= piece.top
    BY <1>5, <2>1, <2>2, <2>3 DEF Below
  <2>4. NoOverlap'
    <3> SUFFICES ASSUME NEW s \in Spots', NEW t \in Spots', s[1] = t[1], s[2] < t[2]
                 PROVE  At(s)'.bottom <= At(t)'.top
      BY DEF NoOverlap
    <3>1. CASE s \in Spots /\ t \in Spots
      BY <1>2, <1>9, <2>1, <3>1 DEF NoOverlap, NoNegativeSpacing
    <3>2. CASE s \in Spots /\ t = new
      BY <1>2, <1>4, <2>3, <3>2
    <3>3. CASE s = new
      <4>1. InOrder(s, t)
        BY DEF InOrder
      <4> QED
        BY <1>2, <1>3, <3>3, <4>1
    <3> QED
      BY <1>2, <1>3, <3>1, <3>2, <3>3
  <2>5. Below'
    <3>1. CASE Put(piece)
      <4> DEFINE more == Append(page.pieces, piece)
                 below == piece.bottom + Current.paddingBottom
      <4>1. /\ pages' = pages
            /\ page' = [page EXCEPT !.pieces = more, !.at = NextBlock, !.y = below,
                                    !.pending = Current.marginBottom]
        BY <3>1 DEF Put
      <4>2. below >= piece.bottom /\ below \in Int
        BY <1>1, <2>1, <2>2, RoundFacts DEF Block
      <4> HIDE DEF more, below
      <4>3. page'.y = below /\ page'.pending = Current.marginBottom
        BY <1>1, <4>1 DEF PaginationTypeOK
      <4>4. ASSUME NEW s \in Spots, s[1] = Len(pages) + 1 PROVE At(s).bottom <= below
        BY <1>5, <2>2, <2>3, <4>2, <4>4
      <4> QED
        BY <1>2, <1>3, <1>4, <2>1, <4>1, <4>2, <4>3, <4>4 DEF Below
    <3>2. CASE \E next : Close(Append(page.pieces, piece), next)
      <4>1. page'.pending = 0 /\ Len(pages') = Len(pages) + 1
        BY <1>1, <3>2, Closed DEF Close, EmptyPage
      <4> QED
        BY <1>2, <1>3, <1>5, <2>2, <4>1 DEF Below
    <3> QED
      BY <3>1, <3>2
  <2> QED
    BY <2>4, <2>5
<1>10. NoNegativeSpacing' => NoNegativeSpacing
  BY DEF NoNegativeSpacing
<1> QED
  BY <1>7, <1>8, <1>9, <1>10 DEF PlacementInv

LEMMA NextPlacementInv == PlacementInv /\ [PaginationNext]_paginationVars => PlacementInv'
<1> SUFFICES ASSUME PlacementInv, [PaginationNext]_paginationVars PROVE PlacementInv'
  OBVIOUS
<1>0. /\ TextInv /\ TextInv' /\ PInv /\ PaginationTypeOK /\ SplitText /\ job' = job
      /\ page.at \in Positions
  BY NextTextInv, StepKinds, AtPosition DEF PlacementInv, TextInv, PInv
<1> USE DEF Place, Text, PlaceBox, Round
<1>1. CASE TooManyFragments \/ PageLimit \/ Validate \/ UNCHANGED paginationVars
  <2>1. UNCHANGED <<pages, page>>
    BY <1>1 DEF TooManyFragments, PageLimit, Validate, paginationVars
  <2> QED
    BY <1>0, <2>1, NothingPlaced
<1>2. CASE BreakBefore \/ KeepWithNext \/ NoFit \/ BoxNoFit \/ LastPage
  <2>1. Close(page.pieces, page.at) /\ (Started \/ AtEnd(page.at))
    BY <1>2 DEF BreakBefore, KeepWithNext, KeptWithNext, NoFit, Refused, BoxNoFit, LastPage, Turn
  <2> QED
    BY <1>0, <2>1, NothingPlaced
<1>3. CASE ForcedBreak \/ Invisible
  <2>1. Skip \/ Close(page.pieces, NextBlock)
    BY <1>3 DEF ForcedBreak, Invisible
  <2> QED
    BY <1>0, <2>1, NothingPlaced
<1>4. CASE Split \/ Whole
  <2>1. /\ Loop /\ Remaining > 0 /\ ~Refused /\ Current.kind = "text"
        /\ \/ Taken = Remaining /\ (Put(Lines) \/ Close(Append(page.pieces, Lines), NextBlock))
           \/ /\ Taken < Remaining
              /\ Close(Append(page.pieces, Lines), Position(page.at.block, Lines.to))
    BY <1>4 DEF Split, Whole
  <2>2. /\ Lines \in PagePiece /\ Current \in Block /\ Top \in Int
        /\ page.at.line \in Nat /\ Remaining \in Nat /\ Taken \in 1 .. Remaining
        /\ Remaining = Current.lines - page.at.line /\ Current.lines \in Nat
    <3>1. Current \in Block /\ page.at.line \in Nat
      BY <1>0, <2>1, RoundFacts DEF Positions
    <3>2. Remaining \in Nat
      BY <2>1, <3>1 DEF Remaining, Block
    <3> QED
      BY <1>0, <2>1, <3>1, <3>2, LinesArePiece, TopIsInt, TakenBounds DEF Remaining, Block
  <2>3. /\ Lines.block = page.at.block /\ Lines.from = page.at.line
        /\ Lines.to = page.at.line + Taken /\ Lines.top = Top /\ Lines.bottom = Ends(Taken)
    BY DEF Lines
  <2>4. /\ Lines.bottom > job.height =>
             \/ ~Started /\ Taken = 1
             \/ /\ Taken = Remaining /\ Lines.bottom + Current.paddingBottom <= job.height
                /\ Lines.bottom < job.height + LineHeight
        /\ Started /\ Taken = 1 /\ Taken < Remaining => Remaining = 3
        /\ Taken + 1 = Remaining => ~Started /\ Taken = 1
    BY <1>0, <2>1, LinesPlacement
  <2>5. Put(Lines) \/ (\E next : Close(Append(page.pieces, Lines), next))
    BY <2>1
  <2>6. Lines.top >= Top /\ Lines.bottom >= Lines.top
    BY <2>2, <2>3, LineEnds
  <2>7. Lines.bottom > job.height => Excused(Lines)
    <3>1. Units(Current) = Current.lines /\ Current.kind \notin {"image", "cover"}
      BY <2>1 DEF Units
    <3> QED
      BY <2>2, <2>3, <2>4, <3>1 DEF Excused
  <2>8. Lines.to = Lines.from + 1 =>
          /\ Lines.to = Current.lines => Remaining = 1
          /\ Lines.to < Current.lines /\ Started => Current.lines - Lines.to = 2
    BY <2>2, <2>3, <2>4
  <2>9. Continued'
    <3>1. CASE Put(Lines)
      <4>1. page'.at = NextBlock
        <5> DEFINE more == Append(page.pieces, Lines)
                   below == Lines.bottom + Current.paddingBottom
        <5>1. page' = [page EXCEPT !.pieces = more, !.at = NextBlock, !.y = below,
                                   !.pending = Current.marginBottom]
          BY <3>1 DEF Put
        <5> HIDE DEF more, below
        <5> QED
          BY <1>0, <5>1 DEF PaginationTypeOK
      <4> QED
        BY <4>1 DEF Continued, NextBlock, Position
    <3>2. CASE Close(Append(page.pieces, Lines), NextBlock)
      BY <3>2 DEF Continued, Close, EmptyPage, NextBlock, Position
    <3>3. CASE /\ Taken < Remaining
               /\ Close(Append(page.pieces, Lines), Position(page.at.block, Lines.to))
      <4>1. /\ page'.pieces = <<>> /\ page'.at = Position(page.at.block, Lines.to)
            /\ Len(pages) \in Nat /\ Len(pages') = Len(pages) + 1
        BY <1>0, <3>3, Closed
      <4>2. page'.at.block = page.at.block /\ page'.at.line = Lines.to
        BY <4>1 DEF Position
      <4>3. Remaining' = Current.lines - Lines.to
        BY <1>0, <4>2 DEF Remaining, Current
      <4>4. ASSUME Remaining' = 1
            PROVE  \E t \in Spots' : /\ t[1] = Len(pages') /\ t[2] = 1
                                     /\ At(t)'.block = page'.at.block /\ At(t)'.to = page'.at.line
                                     /\ At(t)'.from + 1 = page'.at.line
        <5>1. ~Started /\ Taken = 1
          BY <2>2, <2>3, <2>4, <4>3, <4>4
        <5>2. Len(page.pieces) = 0
          BY <1>0, <5>1 DEF Started, PaginationTypeOK
        <5>3. /\ NextSpot \in Spots'
              /\ Sheets'[NextSpot[1]].pieces[NextSpot[2]] = Lines
          BY <1>0, <2>2, <2>5, OneSpotMore DEF TextInv, PInv
        <5>4. PICK new : new = NextSpot
          OBVIOUS
        <5>5. At(new)' = Lines /\ new[1] = Len(pages') /\ new[2] = 1
          BY <4>1, <5>2, <5>3, <5>4 DEF At, NextSpot
        <5> QED
          BY <2>2, <2>3, <4>2, <5>1, <5>3, <5>4, <5>5
      <4> QED
        BY <4>1, <4>4 DEF Continued
    <3> QED
      BY <2>1, <3>1, <3>2, <3>3
  <2> QED
    BY <1>0, <2>1, <2>2, <2>3, <2>5, <2>6, <2>7, <2>8, <2>9, PiecePlaced
<1>5. CASE Box
  <2>1. /\ Loop /\ Put(TheBox) /\ Current.kind \in {"box", "image", "cover"}
        /\ Started => BoxFits
    BY <1>5 DEF Box
  <2>2. TheBox \in PagePiece /\ page.at.line = 0
    BY <1>0, <2>1, BoxIsPiece DEF SplitText, Positions
  <2>3. /\ TheBox.block = page.at.block /\ TheBox.from = page.at.line
        /\ TheBox.to = TheBox.from + 1
    BY <2>2 DEF TheBox
  <2>4. /\ TheBox.top >= Top /\ TheBox.bottom >= TheBox.top
        /\ TheBox.bottom > job.height => Excused(TheBox)
    <3>1. /\ TheBox.top >= Top /\ TheBox.bottom >= TheBox.top
          /\ TheBox.bottom > job.height =>
               \/ /\ ~Started
                  /\ Current.kind \in {"image", "cover"} => TheBox.bottom = TheBox.top + 1
               \/ TheBox.bottom + Current.paddingBottom <= job.height
      BY <1>0, <2>1, BoxPlacement
    <3>2. Units(Current) = 1 /\ TheBox.to = 1 /\ Current.kind # "text"
      BY <2>1 DEF Units, TheBox
    <3> QED
      BY <2>3, <3>1, <3>2 DEF Excused
  <2>5. Continued'
    <3>1. page'.at = NextBlock
      <4> DEFINE more == Append(page.pieces, TheBox)
                 below == TheBox.bottom + Current.paddingBottom
      <4>1. page' = [page EXCEPT !.pieces = more, !.at = NextBlock, !.y = below,
                                 !.pending = Current.marginBottom]
        BY <2>1 DEF Put
      <4> HIDE DEF more, below
      <4> QED
        BY <1>0, <4>1 DEF PaginationTypeOK
    <3> QED
      BY <3>1 DEF Continued, NextBlock, Position
  <2> QED
    BY <1>0, <2>1, <2>2, <2>3, <2>4, <2>5, PiecePlaced
<1> QED
  BY <1>1, <1>2, <1>3, <1>4, <1>5 DEF PaginationNext

ScratchPlacement == stage # "incremental" => PlacementInv

LEMMA NextScratchPlacement ==
  ScratchPlacement /\ EditInv /\ [RepaginationNext]_repaginationVars => ScratchPlacement'
<1> SUFFICES ASSUME ScratchPlacement, EditInv, [RepaginationNext]_repaginationVars,
                    stage' # "incremental"
             PROVE  PlacementInv'
  BY DEF ScratchPlacement
<1>1. CASE Paginate \/ UNCHANGED repaginationVars
  BY <1>1, NextPlacementInv DEF ScratchPlacement, Paginate, repaginationVars, paginationVars
<1>2. CASE Edit
  <2>1. PICK new \in Editions :
          job' = new /\ outcome' = IF new.blocks = <<>> THEN "complete" ELSE "paging"
    BY <1>2 DEF Edit
  <2>2. PaginationInit'
    BY <1>2, <2>1, RepaginationAssumption DEF PaginationInit, Edit, Job, EmptyPage, Position
  <2> QED
    BY <2>2, InitPlacementInv, PTL
<1>3. CASE Repaint \/ Repaginate \/ Compare \/ TakeTail
  BY <1>3 DEF Repaint, Repaginate, Start, Compare, TakeTail, ToCompare
<1> QED
  BY <1>1, <1>2, <1>3 DEF RepaginationNext

(* Whatever the blocks, the height of lines and of the page: content passes *)
(* the bottom of a page only where it is first and as little as can be, or  *)
(* by no more than a negative padding below it; without negative margins or *)
(* paddings nothing overlaps; a single line is left only where no more fit; *)
(* and no page holds more fragments than allowed, but for the marker of the *)
(* list item it ends with (push_text_block, push_image_box,                 *)
(* docs/adr/0005-break-token-pagination.md:34).                             *)
THEOREM PlacementIsSound == RepaginationSpec => []PlacementSound
<1>1. RepaginationInit => ScratchPlacement
  BY InitPlacementInv DEF RepaginationInit, ScratchPlacement
<1>2. EditInv /\ ScratchPlacement => PlacementSound
  BY DEF EditInv, WholeInv, ScratchPlacement, PlacementSound, FromScratch, PlacementInv, TextInv,
         PInv, PaginationTypeOK, FragmentsWithinLimit, NoOverlap
<1> QED
  BY <1>1, <1>2, InitEditInv, NextEditInv, NextScratchPlacement, PTL DEF RepaginationSpec

-----------------------------------------------------------------------------
(* Incremental and full pagination *)

\* What one round does is a matter of the block, the height and the page only.  These are
\* the operators of Pagination with b for Current, h for job.height and p for page.
TopOf(b, p) ==
  IF p.at.line > 0 THEN p.y ELSE p.y + Collapse(p.pending, b.marginTop) + b.paddingTop

RestOf(b, p) == b.lines - p.at.line

EndOf(b, p, n) == TopOf(b, p) + n * LineHeight

FitOf(b, h, p, n) ==
  EndOf(b, p, n) + (IF n = RestOf(b, p) THEN b.paddingBottom ELSE 0) <= h

FollowOf(b, h, p, n) == EndOf(b, p, n - 1) < h /\ FitOf(b, h, p, n)

FitCountOf(b, h, p) ==
  Cardinality({n \in 1 .. RestOf(b, p) : \A m \in 2 .. n : FollowOf(b, h, p, m)})

TakenOf(b, h, p) ==
  IF RestOf(b, p) - FitCountOf(b, h, p) = 1 /\ FitCountOf(b, h, p) > 1
  THEN FitCountOf(b, h, p) - 1 ELSE FitCountOf(b, h, p)

Holds(p) == p.pieces # <<>>

RefusedOf(b, h, p) ==
  /\ Holds(p)
  /\ TopOf(b, p) >= h \/ ~FitOf(b, h, p, 1) \/ (FitCountOf(b, h, p) = 1 /\ RestOf(b, p) > 1)

LinesOf(b, h, p) ==
  [block |-> p.at.block, content |-> b.content, marker |-> b.marker /\ p.at.line = 0,
   from |-> p.at.line, to |-> p.at.line + TakenOf(b, h, p), top |-> TopOf(b, p),
   bottom |-> EndOf(b, p, TakenOf(b, h, p))]

HeightOf(b, h) ==
  LET available == AtLeastOne(h - b.paddingTop - b.paddingBottom) IN
  IF b.kind = "box" THEN b.lines
  ELSE IF b.sized /\ b.lines > available THEN available
  ELSE AtLeastOne(b.lines)

BoxFitsOf(b, h, p) == TopOf(b, p) + HeightOf(b, h) + b.paddingBottom <= h

ClippedOf(b, h, p) ==
  IF b.kind = "box" \/ TopOf(b, p) + HeightOf(b, h) <= h THEN HeightOf(b, h)
  ELSE AtLeastOne(h - TopOf(b, p))

MovedOf(b, h, p) ==
  LET rest == h - TopOf(b, p) - b.paddingBottom - ClippedOf(b, h, p) IN
  IF b.kind = "cover" /\ rest > 0 THEN rest \div 2 ELSE 0

BoxOf(b, h, p) ==
  [block |-> p.at.block, content |-> b.content, marker |-> FALSE, from |-> 0, to |-> 1,
   top |-> TopOf(b, p) + MovedOf(b, h, p),
   bottom |-> TopOf(b, p) + MovedOf(b, h, p) + ClippedOf(b, h, p)]

LEMMA SameRound ==
  /\ Top = TopOf(Current, page) /\ Remaining = RestOf(Current, page)
  /\ FitCount = FitCountOf(Current, job.height, page)
  /\ Taken = TakenOf(Current, job.height, page)
  /\ Refused <=> RefusedOf(Current, job.height, page)
  /\ Lines = LinesOf(Current, job.height, page)
  /\ BoxFits <=> BoxFitsOf(Current, job.height, page)
  /\ TheBox = BoxOf(Current, job.height, page)
<1>1. Top = TopOf(Current, page) /\ Remaining = RestOf(Current, page)
  BY DEF Top, TopOf, Remaining, RestOf
<1>2. /\ \A n : Ends(n) = EndOf(Current, page, n)
      /\ \A n : Fits(n) <=> FitOf(Current, job.height, page, n)
      /\ \A n : Follows(n) <=> FollowOf(Current, job.height, page, n)
  BY <1>1 DEF Ends, EndOf, Fits, FitOf, Follows, FollowOf
<1>3. FitCount = FitCountOf(Current, job.height, page)
  BY <1>1, <1>2 DEF FitCount, FitCountOf
<1>4. Taken = TakenOf(Current, job.height, page)
  BY <1>1, <1>3 DEF Taken, TakenOf
<1>5. Refused <=> RefusedOf(Current, job.height, page)
  BY <1>1, <1>2, <1>3 DEF Refused, RefusedOf, Started, Holds
<1>6. Lines = LinesOf(Current, job.height, page)
  BY <1>1, <1>2, <1>4 DEF Lines, LinesOf
<1>7. Height = HeightOf(Current, job.height)
  BY DEF Height, HeightOf
<1>8. BoxFits <=> BoxFitsOf(Current, job.height, page)
  BY <1>1, <1>7 DEF BoxFits, BoxFitsOf
<1>9. Clipped = ClippedOf(Current, job.height, page)
  BY <1>1, <1>7 DEF Clipped, ClippedOf
<1>10. Moved = MovedOf(Current, job.height, page)
  BY <1>1, <1>9 DEF Moved, MovedOf
<1>11. TheBox = BoxOf(Current, job.height, page)
  BY <1>1, <1>9, <1>10 DEF TheBox, BoxOf
<1> QED
  BY <1>1, <1>3, <1>4, <1>5, <1>6, <1>8, <1>11

PassedOver(p) ==
  [start |-> p.start, at |-> Position(p.at.block + 1, 0), y |-> p.y, pending |-> p.pending,
   pieces |-> p.pieces]

WithPiece(b, p, piece) ==
  [start |-> p.start, at |-> Position(p.at.block + 1, 0), y |-> piece.bottom + b.paddingBottom,
   pending |-> b.marginBottom, pieces |-> Append(p.pieces, piece)]

BreaksBefore(b, p) == b.breakBefore /\ Holds(p)
KeptOf(b, h, p) == b.keepWithNext /\ Holds(p) /\ p.y + 2 * LineHeight > h
TextOf(b, h, p) == ~BreaksBefore(b, p) /\ b.kind = "text" /\ ~KeptOf(b, h, p)
AllTaken(b, h, p) ==
  RestOf(b, p) > 0 /\ ~RefusedOf(b, h, p) /\ TakenOf(b, h, p) = RestOf(b, p)
BoxKind(b, p) == ~BreaksBefore(b, p) /\ b.kind \in {"box", "image", "cover"}

\* After the round the page p goes on as q ...
GoesOn(b, h, p, q) ==
  \/ ~BreaksBefore(b, p) /\ b.kind = "break" /\ ~Holds(p) /\ q = PassedOver(p)
  \/ TextOf(b, h, p) /\ RestOf(b, p) = 0 /\ ~b.breakAfter /\ q = PassedOver(p)
  \/ TextOf(b, h, p) /\ AllTaken(b, h, p) /\ ~b.breakAfter /\ q = WithPiece(b, p, LinesOf(b, h, p))
  \/ BoxKind(b, p) /\ (Holds(p) => BoxFitsOf(b, h, p)) /\ q = WithPiece(b, p, BoxOf(b, h, p))

\* ... or it ends as it is, before the block or behind it ...
EndsAsIs(b, h, p, next) ==
  \/ BreaksBefore(b, p) /\ next = p.at
  \/ ~BreaksBefore(b, p) /\ b.kind = "break" /\ Holds(p) /\ next = Position(p.at.block + 1, 0)
  \/ ~BreaksBefore(b, p) /\ b.kind = "text" /\ KeptOf(b, h, p) /\ next = p.at
  \/ TextOf(b, h, p) /\ RestOf(b, p) = 0 /\ b.breakAfter /\ next = Position(p.at.block + 1, 0)
  \/ TextOf(b, h, p) /\ RestOf(b, p) > 0 /\ RefusedOf(b, h, p) /\ next = p.at
  \/ BoxKind(b, p) /\ Holds(p) /\ ~BoxFitsOf(b, h, p) /\ next = p.at

\* ... or with lines of the block.
EndsWithLines(b, h, p, next) ==
  \/ /\ TextOf(b, h, p) /\ RestOf(b, p) > 0 /\ ~RefusedOf(b, h, p)
     /\ TakenOf(b, h, p) # RestOf(b, p) /\ next = Position(p.at.block, LinesOf(b, h, p).to)
  \/ TextOf(b, h, p) /\ AllTaken(b, h, p) /\ b.breakAfter /\ next = Position(p.at.block + 1, 0)

\* The same for the block a page has reached in a chapter.
Here(j, p) == j.blocks[p.at.block]
Behind(j, p) == p.at.block > Len(j.blocks)
Allowed(j, p) == ~Behind(j, p) /\ ~(FragmentsOf(p.pieces) >= j.fragments)
Full(j, p) == ~Behind(j, p) /\ FragmentsOf(p.pieces) >= j.fragments

Moves(j, p, q) == Allowed(j, p) /\ GoesOn(Here(j, p), j.height, p, q)

Closes(j, p, pieces, next) ==
  \/ Behind(j, p) /\ pieces = p.pieces /\ next = p.at
  \/ Allowed(j, p) /\ EndsAsIs(Here(j, p), j.height, p, next) /\ pieces = p.pieces
  \/ /\ Allowed(j, p) /\ EndsWithLines(Here(j, p), j.height, p, next)
     /\ pieces = Append(p.pieces, LinesOf(Here(j, p), j.height, p))

LEMMA FragmentsTyped == ASSUME NEW pieces, IsSeq(pieces) PROVE FragmentsOf(pieces) \in Nat
<1> DEFINE S == {k \in DOMAIN pieces : pieces[k].marker}
<1>1. Len(pieces) \in Nat /\ DOMAIN pieces = 1 .. Len(pieces)
  BY DEF IsSeq
<1>2. IsFiniteSet(DOMAIN pieces) /\ S \subseteq DOMAIN pieces
  BY <1>1, FS_Interval
<1> HIDE DEF S
<1>3. Cardinality(S) \in Nat
  BY <1>2, FS_Subset, FS_CardinalityType
<1> QED
  BY <1>1, <1>3 DEF FragmentsOf, S

\* One thing happens to a page.
LEMMA OneWay ==
  ASSUME NEW j, NEW p
  PROVE  /\ \A q, r : Moves(j, p, q) /\ Moves(j, p, r) => q = r
         /\ \A q, pieces, next : ~(Moves(j, p, q) /\ Closes(j, p, pieces, next))
         /\ \A q : ~(Moves(j, p, q) /\ Full(j, p))
         /\ \A pieces, next : ~(Closes(j, p, pieces, next) /\ Full(j, p))
         /\ \A a, b, m, n : Closes(j, p, a, m) /\ Closes(j, p, b, n) => a = b /\ m = n
<1> DEFINE b == Here(j, p)
           h == j.height
<1>1. ASSUME NEW q, NEW r, GoesOn(b, h, p, q), GoesOn(b, h, p, r) PROVE q = r
  BY <1>1 DEF GoesOn, TextOf, AllTaken, BoxKind
<1>2. ASSUME NEW q, NEW m, GoesOn(b, h, p, q) PROVE ~EndsAsIs(b, h, p, m)
  BY <1>2 DEF GoesOn, EndsAsIs, TextOf, AllTaken, BoxKind
<1>3. ASSUME NEW q, NEW m, GoesOn(b, h, p, q) PROVE ~EndsWithLines(b, h, p, m)
  BY <1>3 DEF GoesOn, EndsWithLines, TextOf, AllTaken, BoxKind
<1>4. ASSUME NEW m, NEW n, EndsAsIs(b, h, p, m) PROVE ~EndsWithLines(b, h, p, n)
  BY <1>4 DEF EndsAsIs, EndsWithLines, TextOf, AllTaken, BoxKind
<1>5. ASSUME NEW m, NEW n, EndsAsIs(b, h, p, m), EndsAsIs(b, h, p, n) PROVE m = n
  BY <1>5 DEF EndsAsIs, TextOf, AllTaken, BoxKind
<1>6. ASSUME NEW m, NEW n, EndsWithLines(b, h, p, m), EndsWithLines(b, h, p, n) PROVE m = n
  BY <1>6 DEF EndsWithLines, TextOf, AllTaken
<1> HIDE DEF b, h
<1> QED
  BY <1>1, <1>2, <1>3, <1>4, <1>5, <1>6 DEF Moves, Closes, Full, Allowed, b, h

ChapterOK(j) ==
  j.blocks \in Seq(Block) /\ j.height \in Nat /\ j.fragments \in Nat /\ j.limit \in Nat

\* Where a page may be: break tokens, of any chapter.
Tokens == [block : Nat \ {0}, line : Nat]

LEMMA HereIsBlock ==
  ASSUME NEW j, ChapterOK(j), NEW p, p.at \in Tokens
  PROVE  ~Behind(j, p) => Here(j, p) \in Block
<1>1. j.blocks \in Seq(Block) /\ p.at.block \in Nat \ {0}
  BY DEF ChapterOK, Tokens
<1> QED
  BY <1>1, ElementOfSeq DEF Behind, Here

LEMMA TakenIsNat ==
  ASSUME NEW b \in Block, NEW p, p.at \in Tokens, NEW h
  PROVE  RestOf(b, p) \in Int /\ TakenOf(b, h, p) \in Nat
<1>1. RestOf(b, p) \in Int
  BY DEF RestOf, Block, Tokens
<1> DEFINE F == {n \in 1 .. RestOf(b, p) : \A m \in 2 .. n : FollowOf(b, h, p, m)}
<1>2. IsFiniteSet(1 .. RestOf(b, p)) /\ F \subseteq 1 .. RestOf(b, p)
  BY <1>1, FS_Interval
<1>3. Cardinality(F) \in Nat
  <2> HIDE DEF F
  <2> QED
    BY <1>2, FS_Subset, FS_CardinalityType
<1>4. FitCountOf(b, h, p) \in Nat
  BY <1>3 DEF FitCountOf
<1> QED
  BY <1>1, <1>4 DEF TakenOf

HasFields == DOMAIN page = {"start", "at", "y", "pending", "pieces"}

\* A round of pagination, as seen from its page.
LEMMA RoundIs ==
  ASSUME ChapterOK(job), HasFields, IsSeq(page.pieces), page.at \in Tokens,
         [PaginationNext]_paginationVars
  PROVE  \/ UNCHANGED paginationVars
         \/ /\ outcome = "paging" /\ Len(pages) < job.limit /\ UNCHANGED <<job, pages, outcome>>
            /\ Moves(job, page, page')
         \/ /\ outcome = "paging" /\ Len(pages) < job.limit
            /\ \E pieces, next : Closes(job, page, pieces, next) /\ Close(pieces, next)
         \/ outcome = "paging" /\ Full(job, page) /\ TooManyFragments
         \/ PageLimit
         \/ Validate
<1> DEFINE b == Here(job, page)
           h == job.height
           going == outcome = "paging" /\ Len(pages) < job.limit /\ UNCHANGED <<job, pages, outcome>>
           ending == outcome = "paging" /\ Len(pages) < job.limit
<1>1. /\ Current = b /\ (Started <=> Holds(page)) /\ (KeptWithNext <=> KeptOf(b, h, page))
      /\ NextBlock = Position(page.at.block + 1, 0)
  BY DEF Current, Here, Started, Holds, KeptWithNext, KeptOf, NextBlock
<1>2. /\ Remaining = RestOf(b, page) /\ Taken = TakenOf(b, h, page)
      /\ (Refused <=> RefusedOf(b, h, page)) /\ Lines = LinesOf(b, h, page)
      /\ (BoxFits <=> BoxFitsOf(b, h, page)) /\ TheBox = BoxOf(b, h, page)
  BY <1>1, SameRound
<1>3. Skip => page' = PassedOver(page) /\ UNCHANGED <<job, pages, outcome>>
  BY <1>1 DEF Skip, PassedOver, HasFields
<1>4. ASSUME NEW piece, Put(piece)
      PROVE  page' = WithPiece(b, page, piece) /\ UNCHANGED <<job, pages, outcome>>
  BY <1>1, <1>4 DEF Put, WithPiece, HasFields
<1>5. Round => ending /\ Allowed(job, page)
  <2>1. FragmentsOf(page.pieces) \in Nat /\ job.fragments \in Nat
    BY FragmentsTyped DEF ChapterOK
  <2> QED
    BY <2>1 DEF Round, Loop, Allowed, Behind, AtEnd
<1>6. /\ Place => Round /\ ~BreaksBefore(b, page)
      /\ Text => Round /\ TextOf(b, h, page)
      /\ PlaceBox => Round /\ BoxKind(b, page)
  BY <1>1 DEF Place, Text, PlaceBox, TextOf, BoxKind, BreaksBefore
<1> DEFINE Left == Close(page.pieces, page.at)
<1>7. (BreakBefore \/ KeepWithNext \/ NoFit \/ BoxNoFit)
        => Round /\ EndsAsIs(b, h, page, page.at) /\ Close(page.pieces, page.at)
  <2>1. BreakBefore => Round /\ EndsAsIs(b, h, page, page.at) /\ Left
    BY <1>1 DEF BreakBefore, Turn, EndsAsIs, BreaksBefore
  <2>2. KeepWithNext => Round /\ EndsAsIs(b, h, page, page.at) /\ Left
    BY <1>1, <1>6 DEF KeepWithNext, Turn, EndsAsIs
  <2>3. NoFit => Round /\ EndsAsIs(b, h, page, page.at) /\ Left
    BY <1>2, <1>6 DEF NoFit, Turn, EndsAsIs
  <2>4. BoxNoFit => Round /\ EndsAsIs(b, h, page, page.at) /\ Left
    BY <1>1, <1>2, <1>6 DEF BoxNoFit, Turn, EndsAsIs
  <2> QED
    BY <2>1, <2>2, <2>3, <2>4
<1>8. ForcedBreak =>
        \/ Round /\ GoesOn(b, h, page, PassedOver(page)) /\ Skip
        \/ Round /\ EndsAsIs(b, h, page, NextBlock) /\ Close(page.pieces, NextBlock)
  BY <1>1, <1>6 DEF ForcedBreak, GoesOn, EndsAsIs
<1>9. Invisible =>
        \/ Round /\ GoesOn(b, h, page, PassedOver(page)) /\ Skip
        \/ Round /\ EndsAsIs(b, h, page, NextBlock) /\ Close(page.pieces, NextBlock)
  BY <1>1, <1>2, <1>6 DEF Invisible, GoesOn, EndsAsIs
<1>10. Split => Round /\ \E next : /\ EndsWithLines(b, h, page, next)
                                   /\ Close(Append(page.pieces, Lines), next)
  <2> SUFFICES ASSUME Split
               PROVE  Round /\ \E next : /\ EndsWithLines(b, h, page, next)
                                         /\ Close(Append(page.pieces, Lines), next)
    OBVIOUS
  <2>1. /\ Round /\ TextOf(b, h, page) /\ Remaining > 0 /\ ~Refused /\ Taken < Remaining
        /\ Close(Append(page.pieces, Lines), Position(page.at.block, Lines.to))
    BY <1>6 DEF Split
  <2>2. Remaining \in Int /\ Taken \in Nat
    BY <1>2, <1>5, <2>1, HereIsBlock, TakenIsNat DEF Allowed
  <2>3. Taken # Remaining
    BY <2>1, <2>2
  <2> QED
    BY <1>2, <2>1, <2>3 DEF EndsWithLines
<1>11. Whole =>
         \/ Round /\ GoesOn(b, h, page, WithPiece(b, page, Lines)) /\ Put(Lines)
         \/ /\ Round /\ EndsWithLines(b, h, page, NextBlock)
            /\ Close(Append(page.pieces, Lines), NextBlock)
  BY <1>1, <1>2, <1>6 DEF Whole, GoesOn, EndsWithLines, AllTaken
<1>12. Box => Round /\ GoesOn(b, h, page, WithPiece(b, page, TheBox)) /\ Put(TheBox)
  BY <1>1, <1>2, <1>6 DEF Box, GoesOn
<1>13. LastPage => ending /\ Behind(job, page) /\ Close(page.pieces, page.at)
  BY DEF LastPage, Turn, Behind, AtEnd
<1>14. TooManyFragments => outcome = "paging" /\ Full(job, page)
  BY DEF TooManyFragments, Loop, Full, Behind, AtEnd
<1> DEFINE Going == going /\ Moves(job, page, page')
           Leaving == /\ ending
                      /\ \E pieces, next : Closes(job, page, pieces, next) /\ Close(pieces, next)
<1>15. ASSUME NEW q, Round, GoesOn(b, h, page, q), page' = q, UNCHANGED <<job, pages, outcome>>
       PROVE  Going
  BY <1>5, <1>15 DEF Moves
<1>16. ASSUME NEW next, Round, EndsAsIs(b, h, page, next), Close(page.pieces, next)
       PROVE  Leaving
  BY <1>5, <1>16 DEF Closes
<1>17. ASSUME NEW next, Round, EndsWithLines(b, h, page, next),
              Close(Append(page.pieces, Lines), next)
       PROVE  Leaving
  BY <1>2, <1>5, <1>17 DEF Closes
<1>18. LastPage => Leaving
  BY <1>13 DEF Closes
<1> HIDE DEF Going, Leaving
<1>19. BreakBefore \/ KeepWithNext \/ NoFit \/ BoxNoFit => Leaving
  BY <1>7, <1>16
<1>20. ForcedBreak \/ Invisible => Going \/ Leaving
  <2>1. Round /\ GoesOn(b, h, page, PassedOver(page)) /\ Skip => Going
    BY <1>3, <1>15
  <2>2. Round /\ EndsAsIs(b, h, page, NextBlock) /\ Close(page.pieces, NextBlock) => Leaving
    BY <1>16
  <2> QED
    BY <1>8, <1>9, <2>1, <2>2
<1>21. Split => Leaving
  BY <1>10, <1>17
<1>22. Whole => Going \/ Leaving
  <2>1. Round /\ GoesOn(b, h, page, WithPiece(b, page, Lines)) /\ Put(Lines) => Going
    BY <1>4, <1>15
  <2>2. Round /\ EndsWithLines(b, h, page, NextBlock) /\ Close(Append(page.pieces, Lines), NextBlock)
          => Leaving
    BY <1>17
  <2> QED
    BY <1>11, <2>1, <2>2
<1>23. Box => Going
  BY <1>4, <1>12, <1>15
<1>24. PaginationNext => \/ Going \/ Leaving \/ PageLimit \/ Validate
                         \/ outcome = "paging" /\ Full(job, page) /\ TooManyFragments
  BY <1>14, <1>18, <1>19, <1>20, <1>21, <1>22, <1>23 DEF PaginationNext
<1> QED
  BY <1>24 DEF Going, Leaving

\* A page that started at a position and has reached block b.
UnderWay(start, b, p) ==
  /\ p.at \in Tokens /\ p.at.block = b
  /\ IsSeq(p.pieces)
  /\ \A k \in DOMAIN p.pieces : p.pieces[k].block \in start.block .. b

\* T is a page at each block, from the one it started at to block b.
Grows(j, start, T, b) ==
  /\ start \in Tokens /\ b \in Nat /\ start.block <= b
  /\ T[start.block] = EmptyPage(start)
  /\ \A c \in start.block .. b : UnderWay(start, c, T[c])
  /\ \A c \in start.block .. b - 1 : Moves(j, T[c], T[c + 1])

\* A page that pagination comes to when it starts one there.
Reached(j, start, p) == \E T : Grows(j, start, T, p.at.block) /\ T[p.at.block] = p

LEMMA ReachedFirst ==
  ASSUME NEW j, NEW start \in Tokens
  PROVE  Reached(j, start, EmptyPage(start))
<1> DEFINE p == EmptyPage(start)
           b == start.block
           T == [c \in {b} |-> p]
<1>1. b \in Nat \ {0} /\ p.at = start /\ p.pieces = <<>>
  BY DEF Tokens, EmptyPage
<1>2. IsSeq(p.pieces) /\ DOMAIN p.pieces = {}
  BY <1>1, EmptySeq DEF IsSeq
<1>3. UnderWay(start, b, p)
  BY <1>1, <1>2 DEF UnderWay
<1> HIDE DEF p
<1>4. T[b] = p /\ b .. b = {b} /\ b .. b - 1 = {}
  BY <1>1
<1>5. Grows(j, start, T, b)
  BY <1>1, <1>3, <1>4 DEF Grows, p
<1> QED
  BY <1>1, <1>4, <1>5 DEF Reached, p

LEMMA MovesOn ==
  ASSUME NEW j, NEW start \in Tokens, NEW p, NEW b \in Nat, start.block <= b,
         UnderWay(start, b, p), NEW q, Moves(j, p, q)
  PROVE  UnderWay(start, b + 1, q)
<1>1. p.at.block = b /\ b \in Nat \ {0} /\ start.block \in Nat
  BY DEF UnderWay, Tokens
<1>2. q = PassedOver(p) \/ q = WithPiece(Here(j, p), p, LinesOf(Here(j, p), j.height, p))
      \/ q = WithPiece(Here(j, p), p, BoxOf(Here(j, p), j.height, p))
  BY DEF Moves, GoesOn
<1>3. PICK piece : /\ piece.block = b
                   /\ q.at = Position(b + 1, 0) /\ q.pieces \in {p.pieces, Append(p.pieces, piece)}
  <2>1. /\ LinesOf(Here(j, p), j.height, p).block = b
        /\ BoxOf(Here(j, p), j.height, p).block = b
    BY <1>1 DEF LinesOf, BoxOf
  <2> QED
    BY <1>1, <1>2, <2>1 DEF PassedOver, WithPiece
<1>4. /\ IsSeq(p.pieces) /\ DOMAIN p.pieces = 1 .. Len(p.pieces) /\ Len(p.pieces) \in Nat
      /\ \A k \in DOMAIN p.pieces : p.pieces[k].block \in start.block .. b
  BY SeqShape DEF UnderWay
<1>5. IsSeq(q.pieces) /\ \A k \in DOMAIN q.pieces : q.pieces[k].block \in start.block .. b + 1
  <2>1. CASE q.pieces = p.pieces
    BY <1>1, <1>4, <2>1
  <2>2. CASE q.pieces = Append(p.pieces, piece)
    <3> DEFINE more == Append(p.pieces, piece)
    <3>1. /\ IsSeq(more) /\ DOMAIN more = 1 .. Len(p.pieces) + 1
          /\ \A k \in 1 .. Len(p.pieces) : more[k] = p.pieces[k]
          /\ more[Len(p.pieces) + 1] = piece
      BY <1>4, AppendAny
    <3> HIDE DEF more
    <3>2. ASSUME NEW k \in 1 .. Len(p.pieces) + 1 PROVE more[k].block \in start.block .. b + 1
      <4>1. CASE k \in 1 .. Len(p.pieces)
        <5>1. more[k] = p.pieces[k] /\ p.pieces[k].block \in start.block .. b
          BY <1>4, <3>1, <4>1
        <5>2. \A x \in start.block .. b : x \in start.block .. b + 1
          BY <1>1
        <5> QED
          BY <5>1, <5>2
      <4>2. CASE k = Len(p.pieces) + 1
        BY <1>1, <1>3, <3>1, <4>2
      <4> QED
        BY <1>4, <4>1, <4>2
    <3> QED
      BY <2>2, <3>1, <3>2 DEF more
  <2> QED
    BY <1>3, <2>1, <2>2
<1>6. q.at \in Tokens /\ q.at.block = b + 1
  BY <1>1, <1>3 DEF Position, Tokens
<1> QED
  BY <1>5, <1>6 DEF UnderWay

LEMMA ReachedNext ==
  ASSUME NEW j, NEW start, NEW p, Reached(j, start, p), NEW q, Moves(j, p, q)
  PROVE  Reached(j, start, q)
<1>1. PICK b : b = p.at.block
  OBVIOUS
<1>2. PICK T : Grows(j, start, T, b) /\ T[b] = p
  BY <1>1 DEF Reached
<1>3. /\ start \in Tokens /\ b \in Nat /\ start.block <= b /\ start.block \in Nat
      /\ T[start.block] = EmptyPage(start)
      /\ \A c \in start.block .. b : UnderWay(start, c, T[c])
      /\ \A c \in start.block .. b - 1 : Moves(j, T[c], T[c + 1])
  BY <1>2 DEF Grows, Tokens
<1>4. UnderWay(start, b + 1, q)
  BY <1>2, <1>3, MovesOn
<1>5. q.at.block = b + 1
  BY <1>4 DEF UnderWay
<1> DEFINE U == [c \in start.block .. b + 1 |-> IF c = b + 1 THEN q ELSE T[c]]
<1>6. U[b + 1] = q /\ \A c \in start.block .. b : U[c] = T[c]
  BY <1>3
<1> HIDE DEF U
<1>7. ASSUME NEW c \in start.block .. b + 1 PROVE UnderWay(start, c, U[c])
  <2>1. CASE c = b + 1
    BY <1>4, <1>6, <2>1
  <2>2. CASE c \in start.block .. b
    BY <1>3, <1>6, <2>2
  <2> QED
    BY <1>3, <2>1, <2>2
<1>8. ASSUME NEW c \in start.block .. b PROVE Moves(j, U[c], U[c + 1])
  <2>1. CASE c = b
    BY <1>2, <1>3, <1>6, <2>1
  <2>2. CASE c # b
    <3>1. c \in start.block .. b - 1 /\ c + 1 \in start.block .. b
      BY <1>3, <2>2
    <3> QED
      BY <1>3, <1>6, <3>1
  <2> QED
    BY <2>1, <2>2
<1>9. Grows(j, start, U, b + 1)
  <2>1. start.block \in start.block .. b /\ b + 1 \in Nat /\ start.block <= b + 1 /\ b + 1 - 1 = b
    BY <1>3
  <2> QED
    BY <1>3, <1>6, <1>7, <1>8, <2>1 DEF Grows
<1> QED
  BY <1>5, <1>6, <1>9 DEF Reached

\* Two pages that started at one place were the same at every block both have reached.
LEMMA GrowsAlike ==
  ASSUME NEW j, NEW start, NEW T, NEW U, NEW b, NEW c,
         Grows(j, start, T, b), Grows(j, start, U, c), b <= c
  PROVE  \A d \in start.block .. b : T[d] = U[d]
<1>1. start.block \in Nat /\ b \in Nat /\ c \in Nat
  BY DEF Grows, Tokens
<1> DEFINE Bad == {d \in start.block .. b : T[d] # U[d]}
<1>2. SUFFICES ASSUME Bad # {} PROVE FALSE
  OBVIOUS
<1>3. PICK d \in Bad : \A e \in Bad : d <= e
  <2>1. Bad \in SUBSET Nat
    BY <1>1
  <2> HIDE DEF Bad
  <2> QED
    BY <1>2, <2>1, MinOf
<1>4. d \in start.block .. b /\ T[d] # U[d] /\ d \in Nat
  BY <1>1, <1>3
<1>5. d # start.block
  BY <1>4 DEF Grows
<1>6. d - 1 \in start.block .. b - 1 /\ d - 1 \in start.block .. c - 1 /\ d - 1 + 1 = d
      /\ d - 1 \in start.block .. b /\ ~(d <= d - 1)
  BY <1>1, <1>4, <1>5
<1>7. T[d - 1] = U[d - 1]
  BY <1>3, <1>6
<1>8. Moves(j, T[d - 1], T[d]) /\ Moves(j, U[d - 1], U[d])
  BY <1>6 DEF Grows
<1> QED
  BY <1>4, <1>7, <1>8, OneWay

LEMMA ReachedAlike ==
  ASSUME NEW j, NEW start, NEW p, NEW q, Reached(j, start, p), Reached(j, start, q)
  PROVE  /\ p.at.block \in Nat /\ q.at.block \in Nat
         /\ p.at.block = q.at.block => p = q
         /\ p.at.block < q.at.block => \E r : Moves(j, p, r)
<1>1. PICK b, c : b = p.at.block /\ c = q.at.block
  OBVIOUS
<1>2. PICK T : Grows(j, start, T, b) /\ T[b] = p
  BY <1>1 DEF Reached
<1>3. PICK U : Grows(j, start, U, c) /\ U[c] = q
  BY <1>1 DEF Reached
<1>4. b \in Nat /\ c \in Nat /\ start.block \in Nat /\ start.block <= b /\ start.block <= c
  BY <1>2, <1>3 DEF Grows, Tokens
<1>5. b <= c => U[b] = p
  BY <1>2, <1>3, <1>4, GrowsAlike
<1>6. b < c => Moves(j, U[b], U[b + 1])
  BY <1>3, <1>4 DEF Grows
<1> QED
  BY <1>1, <1>2, <1>3, <1>4, <1>5, <1>6

\* A page that starts at a place ends in one way, or cannot end.
LEMMA EndsAlike ==
  ASSUME NEW j, NEW start, NEW p, NEW q, Reached(j, start, p), Reached(j, start, q),
         NEW a, NEW m, Closes(j, p, a, m)
  PROVE  /\ ~Full(j, q)
         /\ \A b, n : Closes(j, q, b, n) => a = b /\ m = n
<1>1. p.at.block \in Nat /\ q.at.block \in Nat
  BY ReachedAlike
<1>2. ASSUME Full(j, q) \/ (\E b, n : Closes(j, q, b, n)) PROVE p = q
  <2>1. CASE p.at.block < q.at.block
    BY <2>1, ReachedAlike, OneWay
  <2>2. CASE q.at.block < p.at.block
    BY <1>2, <2>2, ReachedAlike, OneWay
  <2> QED
    BY <1>1, <2>1, <2>2, ReachedAlike
<1> QED
  BY <1>2, OneWay

\* A page is the same in another chapter with the same blocks, as long as it has looked
\* at no other.
LEMMA ReachedElsewhere ==
  ASSUME NEW j, NEW k, ChapterOK(j), ChapterOK(k),
         j.height = k.height, j.fragments <= k.fragments,
         NEW start, NEW p, Reached(j, start, p),
         \A c \in start.block .. p.at.block - 1 :
           c <= Len(j.blocks) => c <= Len(k.blocks) /\ j.blocks[c] = k.blocks[c]
  PROVE  Reached(k, start, p)
<1>1. PICK b : b = p.at.block
  OBVIOUS
<1>2. PICK T : Grows(j, start, T, b) /\ T[b] = p
  BY <1>1 DEF Reached
<1>3. start.block \in Nat /\ b \in Nat
  BY <1>2 DEF Grows, Tokens
<1>4. Len(j.blocks) \in Nat /\ Len(k.blocks) \in Nat /\ j.fragments \in Nat /\ k.fragments \in Nat
  BY DEF ChapterOK
<1>5. ASSUME NEW c \in start.block .. b - 1 PROVE Moves(k, T[c], T[c + 1])
  <2>1. Moves(j, T[c], T[c + 1]) /\ UnderWay(start, c, T[c])
    BY <1>2, <1>3 DEF Grows
  <2>2. T[c].at.block = c /\ FragmentsOf(T[c].pieces) \in Nat
    BY <2>1, FragmentsTyped DEF UnderWay
  <2>3. Allowed(j, T[c]) /\ GoesOn(j.blocks[c], j.height, T[c], T[c + 1])
    BY <2>1, <2>2 DEF Moves, Here
  <2>4. c <= Len(j.blocks)
    BY <1>3, <1>4, <2>2, <2>3 DEF Allowed, Behind
  <2>5. c <= Len(k.blocks) /\ j.blocks[c] = k.blocks[c]
    BY <1>1, <2>4
  <2>6. Allowed(k, T[c])
    BY <1>3, <1>4, <2>2, <2>3, <2>5 DEF Allowed, Behind
  <2> QED
    BY <2>2, <2>3, <2>5, <2>6 DEF Moves, Here
<1>6. Grows(k, start, T, b)
  BY <1>2, <1>5 DEF Grows
<1> QED
  BY <1>1, <1>2, <1>6 DEF Reached

LEMMA ClosesElsewhere ==
  ASSUME NEW j, NEW k, ChapterOK(j), ChapterOK(k),
         j.height = k.height, j.fragments <= k.fragments,
         NEW p, IsSeq(p.pieces), p.at.block \in Nat, NEW pieces, NEW next,
         Closes(j, p, pieces, next),
         p.at.block <= Len(j.blocks) =>
           p.at.block <= Len(k.blocks) /\ Here(j, p) = Here(k, p),
         p.at.block > Len(j.blocks) => p.at.block > Len(k.blocks)
  PROVE  Closes(k, p, pieces, next)
<1>1. /\ Len(j.blocks) \in Nat /\ Len(k.blocks) \in Nat /\ j.fragments \in Nat /\ k.fragments \in Nat
      /\ FragmentsOf(p.pieces) \in Nat
  BY SeqShape, FragmentsTyped DEF ChapterOK
<1>2. Allowed(j, p) => Allowed(k, p) /\ Here(j, p) = Here(k, p)
  BY <1>1 DEF Allowed, Behind
<1>3. Behind(j, p) => Behind(k, p)
  BY DEF Behind
<1> QED
  BY <1>2, <1>3 DEF Closes

\* The break token of a page that ends at a position.
TokenOf(j, position) == IF position.block > Len(j.blocks) THEN None ELSE position

\* What pagination makes of a page that starts there.
Made(j, start, pieces, next) ==
  \E p, n : Reached(j, start, p) /\ Closes(j, p, pieces, n) /\ next = TokenOf(j, n)

StartOf(sheets, i) == IF i = 1 THEN Position(1, 0) ELSE sheets[i - 1].next

\* Pages pagination makes of the chapter, the first ones or all.  Where a page says it
\* started does not matter: one that is taken over may say something else.
Chain(j, sheets) ==
  /\ IsSeq(sheets)
  /\ \A i \in DOMAIN sheets : Made(j, StartOf(sheets, i), sheets[i].pieces, sheets[i].next)
  /\ \A i \in 1 .. Len(sheets) - 1 : sheets[i].next # None

LEMMA ClosingBounds ==
  ASSUME NEW j, ChapterOK(j), NEW start, NEW p, Reached(j, start, p),
         NEW pieces, NEW n, Closes(j, p, pieces, n)
  PROVE  /\ start \in Tokens /\ n \in Tokens /\ start.block <= n.block /\ p.at.block <= n.block
         /\ \A k \in DOMAIN pieces : pieces[k].block \in Nat /\ start.block <= pieces[k].block
<1>3. PICK b : b = p.at.block
  OBVIOUS
<1>4. /\ start \in Tokens /\ b \in Nat /\ start.block <= b /\ UnderWay(start, b, p)
      /\ start.block \in Nat \ {0}
  BY <1>3 DEF Reached, Grows, Tokens
<1>5. /\ p.at \in Tokens /\ IsSeq(p.pieces) /\ p.at.line \in Nat
      /\ \A k \in DOMAIN p.pieces : p.pieces[k].block \in start.block .. b
  BY <1>4 DEF UnderWay, Tokens
<1> DEFINE lines == LinesOf(Here(j, p), j.height, p)
<1>6. Allowed(j, p) => lines.to \in Nat /\ lines.block = b
  BY <1>3, <1>5, HereIsBlock, TakenIsNat DEF Allowed, LinesOf
<1> HIDE DEF lines
<1>7. /\ n \in {p.at, Position(b + 1, 0)} \/ (Allowed(j, p) /\ n = Position(b, lines.to))
      /\ pieces = p.pieces \/ (Allowed(j, p) /\ pieces = Append(p.pieces, lines))
  BY <1>3 DEF Closes, EndsAsIs, EndsWithLines, lines
<1>8. n \in Tokens /\ start.block <= n.block /\ b <= n.block
  BY <1>3, <1>4, <1>5, <1>6, <1>7 DEF Position, Tokens
<1>11. ASSUME NEW k \in DOMAIN pieces PROVE pieces[k].block \in Nat /\ start.block <= pieces[k].block
  <2>1. CASE pieces = p.pieces
    BY <1>4, <1>5, <2>1
  <2>2. CASE Allowed(j, p) /\ pieces = Append(p.pieces, lines)
    <3>1. /\ DOMAIN pieces = 1 .. Len(p.pieces) + 1 /\ Len(p.pieces) \in Nat
          /\ DOMAIN p.pieces = 1 .. Len(p.pieces)
          /\ \A i \in 1 .. Len(p.pieces) : pieces[i] = p.pieces[i]
          /\ pieces[Len(p.pieces) + 1] = lines
      BY <1>5, <2>2, AppendAny
    <3>2. CASE k \in 1 .. Len(p.pieces)
      BY <1>4, <1>5, <3>1, <3>2
    <3>3. CASE k = Len(p.pieces) + 1
      BY <1>4, <1>6, <2>2, <3>1, <3>3
    <3> QED
      BY <3>1, <3>2, <3>3
  <2> QED
    BY <1>7, <2>1, <2>2
<1> QED
  BY <1>4, <1>3, <1>8, <1>11

LEMMA MadeBounds ==
  ASSUME NEW j, ChapterOK(j), NEW start, NEW pieces, NEW next, Made(j, start, pieces, next)
  PROVE  /\ start \in Tokens
         /\ next = None \/ (/\ next \in Tokens /\ next.block \in start.block .. Len(j.blocks))
         /\ \A k \in DOMAIN pieces : pieces[k].block \in Nat /\ start.block <= pieces[k].block
<1>1. PICK p, n : Reached(j, start, p) /\ Closes(j, p, pieces, n) /\ next = TokenOf(j, n)
  BY DEF Made
<1>2. /\ start \in Tokens /\ n \in Tokens /\ start.block <= n.block
      /\ \A k \in DOMAIN pieces : pieces[k].block \in Nat /\ start.block <= pieces[k].block
  BY <1>1, ClosingBounds
<1>3. Len(j.blocks) \in Nat /\ n.block \in Nat /\ start.block \in Nat
  BY <1>2 DEF ChapterOK, Tokens
<1> QED
  BY <1>1, <1>2, <1>3 DEF TokenOf

\* The pages of a chapter are made in one way.
LEMMA MadeAlike ==
  ASSUME NEW j, NEW start, NEW a, NEW m, NEW b, NEW n, Made(j, start, a, m), Made(j, start, b, n)
  PROVE  a = b /\ m = n
<1>1. PICK p, m0 : Reached(j, start, p) /\ Closes(j, p, a, m0) /\ m = TokenOf(j, m0)
  BY DEF Made
<1>2. PICK q, n0 : Reached(j, start, q) /\ Closes(j, q, b, n0) /\ n = TokenOf(j, n0)
  BY DEF Made
<1> QED
  BY <1>1, <1>2, EndsAlike

LEMMA ChainsAlike ==
  ASSUME NEW j, NEW A, NEW B, Chain(j, A), Chain(j, B),
         NEW i \in DOMAIN A, i \in DOMAIN B
  PROVE  A[i].pieces = B[i].pieces /\ A[i].next = B[i].next
<1>1. /\ Len(A) \in Nat /\ DOMAIN A = 1 .. Len(A)
      /\ Len(B) \in Nat /\ DOMAIN B = 1 .. Len(B)
  BY SeqShape DEF Chain
<1> DEFINE Bad == {k \in 1 .. i : ~(A[k].pieces = B[k].pieces /\ A[k].next = B[k].next)}
<1>2. SUFFICES ASSUME Bad # {} PROVE FALSE
  BY <1>1
<1>3. PICK k \in Bad : \A e \in Bad : k <= e
  <2>1. Bad \in SUBSET Nat
    BY <1>1
  <2> HIDE DEF Bad
  <2> QED
    BY <1>2, <2>1, MinOf
<1>4. /\ k \in DOMAIN A /\ k \in DOMAIN B /\ k \in Nat \ {0} /\ k <= i
      /\ ~(A[k].pieces = B[k].pieces /\ A[k].next = B[k].next)
  BY <1>1, <1>3
<1>5. StartOf(A, k) = StartOf(B, k)
  <2>1. CASE k = 1
    BY <2>1 DEF StartOf
  <2>2. CASE k # 1
    <3>1. k - 1 \in 1 .. i /\ ~(k <= k - 1)
      BY <1>1, <1>4, <2>2
    <3>2. A[k - 1].next = B[k - 1].next
      BY <1>3, <3>1
    <3> QED
      BY <2>2, <3>2 DEF StartOf
  <2> QED
    BY <2>1, <2>2
<1> QED
  BY <1>4, <1>5, MadeAlike DEF Chain

\* Pages go forward through the chapter.
LEMMA ChainForward ==
  ASSUME NEW j, ChapterOK(j), NEW sheets, Chain(j, sheets),
         NEW i \in DOMAIN sheets, NEW k \in DOMAIN sheets, i <= k
  PROVE  /\ StartOf(sheets, i).block \in Nat \ {0} /\ StartOf(sheets, k).block \in Nat
         /\ StartOf(sheets, i).block <= StartOf(sheets, k).block
<1>1. Len(sheets) \in Nat /\ DOMAIN sheets = 1 .. Len(sheets)
  BY SeqShape DEF Chain
<1>2. ASSUME NEW x \in DOMAIN sheets PROVE StartOf(sheets, x).block \in Nat \ {0}
  BY MadeBounds DEF Chain, Tokens
<1> DEFINE Bad == {x \in i .. k : ~(StartOf(sheets, i).block <= StartOf(sheets, x).block)}
<1>3. SUFFICES ASSUME Bad # {} PROVE FALSE
  BY <1>1, <1>2
<1>4. PICK x \in Bad : \A e \in Bad : x <= e
  <2>1. Bad \in SUBSET Nat
    BY <1>1
  <2> HIDE DEF Bad
  <2> QED
    BY <1>3, <2>1, MinOf
<1>5. x \in i .. k /\ x # i /\ ~(StartOf(sheets, i).block <= StartOf(sheets, x).block)
  BY <1>1, <1>2, <1>4
<1>6. x - 1 \in i .. k /\ ~(x <= x - 1) /\ x - 1 \in 1 .. Len(sheets) - 1 /\ x # 1
      /\ x - 1 \in DOMAIN sheets /\ x \in DOMAIN sheets
  BY <1>1, <1>5
<1>7. StartOf(sheets, i).block <= StartOf(sheets, x - 1).block
  BY <1>4, <1>6
<1>8. StartOf(sheets, x) = sheets[x - 1].next /\ sheets[x - 1].next # None
  BY <1>6 DEF StartOf, Chain
<1>9. sheets[x - 1].next.block \in StartOf(sheets, x - 1).block .. Len(j.blocks)
  BY <1>6, <1>8, MadeBounds DEF Chain
<1>10. Len(j.blocks) \in Nat
  BY DEF ChapterOK
<1> QED
  BY <1>2, <1>5, <1>6, <1>7, <1>8, <1>9, <1>10

OpenEnd(sheets) == sheets # <<>> => sheets[Len(sheets)].next # None

\* The pages of the whole chapter ...
Through(j, sheets) ==
  /\ Chain(j, sheets) /\ Len(sheets) <= j.limit
  /\ sheets = <<>> <=> j.blocks = <<>>
  /\ sheets # <<>> => sheets[Len(sheets)].next = None

\* ... and those before a page that cannot be made.
Stuck(j, sheets) ==
  /\ Chain(j, sheets) /\ j.blocks # <<>> /\ OpenEnd(sheets)
  /\ \/ Len(sheets) >= j.limit
     \/ \E p : Reached(j, StartOf(sheets, Len(sheets) + 1), p) /\ Full(j, p)

AnyBlank(sheets) == \E i \in DOMAIN sheets : Blank(sheets[i])

\* How pagination ends.
Ended(j, sheets, o) ==
  \/ Through(j, sheets) /\ o = (IF AnyBlank(sheets) THEN "error" ELSE "complete")
  \/ Stuck(j, sheets) /\ o = "error"

LEMMA NotBoth ==
  ASSUME NEW j, ChapterOK(j), NEW A, NEW B, Through(j, A), Stuck(j, B)
  PROVE  FALSE
<1>1. /\ Chain(j, A) /\ Chain(j, B) /\ IsSeq(A) /\ IsSeq(B) /\ A # <<>>
      /\ A[Len(A)].next = None /\ OpenEnd(B)
  BY DEF Through, Stuck, Chain
<1>2. /\ Len(A) \in Nat /\ DOMAIN A = 1 .. Len(A) /\ Len(A) # 0
      /\ Len(B) \in Nat /\ DOMAIN B = 1 .. Len(B) /\ (B = <<>> <=> Len(B) = 0)
  BY <1>1, SeqShape
<1>3. Len(B) < Len(A)
  <2> SUFFICES ASSUME Len(A) <= Len(B) PROVE FALSE
    BY <1>2
  <2>1. PICK m : m = Len(A) /\ m \in DOMAIN A /\ m \in DOMAIN B
    BY <1>2
  <2>2. B[m].next = None
    BY <1>1, <2>1, ChainsAlike, SMTT(60)
  <2>3. m \in 1 .. Len(B) - 1 \/ m = Len(B)
    <3>1. \A x \in Nat : m \in 1 .. x => m \in 1 .. x - 1 \/ m = x
      BY SMTT(60)
    <3> QED
      BY <1>2, <2>1, <3>1
  <2>4. B[m].next # None
    BY <1>1, <1>2, <2>1, <2>3 DEF Chain, OpenEnd
  <2> QED
    BY <2>2, <2>4
<1>4. ~(Len(B) >= j.limit)
  BY <1>2, <1>3 DEF Through, ChapterOK
<1>5. PICK n : n = Len(B) + 1 /\ n \in DOMAIN A
  BY <1>2, <1>3
<1>6. StartOf(B, n) = StartOf(A, n)
  <2>1. CASE n = 1
    BY <2>1 DEF StartOf
  <2>2. CASE n # 1
    <3>1. n - 1 \in DOMAIN A /\ n - 1 \in DOMAIN B
      BY <1>2, <1>3, <1>5, <2>2
    <3>2. A[n - 1].next = B[n - 1].next
      BY <1>1, <3>1, ChainsAlike
    <3> QED
      BY <2>2, <3>2 DEF StartOf
  <2> QED
    BY <2>1, <2>2
<1>7. PICK p : Reached(j, StartOf(A, n), p) /\ Full(j, p)
  BY <1>4, <1>5, <1>6 DEF Stuck
<1>8. PICK q, m : Reached(j, StartOf(A, n), q) /\ Closes(j, q, A[n].pieces, m)
  BY <1>1, <1>5 DEF Chain, Made
<1> QED
  BY <1>7, <1>8, EndsAlike

LEMMA SameThrough ==
  ASSUME NEW j, NEW A, NEW B, Through(j, A), Through(j, B)
  PROVE  Scenes(A) = Scenes(B) /\ (AnyBlank(A) <=> AnyBlank(B))
<1>1. Chain(j, A) /\ Chain(j, B) /\ IsSeq(A) /\ IsSeq(B) /\ (A = <<>> <=> B = <<>>)
  BY DEF Through, Chain
<1>2. /\ Len(A) \in Nat /\ DOMAIN A = 1 .. Len(A) /\ (A = <<>> <=> Len(A) = 0)
      /\ Len(B) \in Nat /\ DOMAIN B = 1 .. Len(B) /\ (B = <<>> <=> Len(B) = 0)
  BY <1>1, SeqShape
<1>3. ASSUME NEW X, NEW Y, Chain(j, X), Chain(j, Y), IsSeq(X), IsSeq(Y), X # <<>>,
             X[Len(X)].next = None, Len(X) < Len(Y)
      PROVE  FALSE
  <2>1. /\ Len(X) \in Nat /\ DOMAIN X = 1 .. Len(X) /\ Len(X) # 0
        /\ Len(Y) \in Nat /\ DOMAIN Y = 1 .. Len(Y)
    BY <1>3, SeqShape
  <2>2. PICK m : m = Len(X) /\ m \in DOMAIN X /\ m \in DOMAIN Y /\ m \in 1 .. Len(Y) - 1
    BY <1>3, <2>1
  <2>3. Y[m].next = None
    BY <1>3, <2>2, ChainsAlike
  <2> QED
    BY <1>3, <2>2, <2>3 DEF Chain
<1>4. Len(A) = Len(B)
  <2>1. A # <<>> => A[Len(A)].next = None /\ B[Len(B)].next = None
    BY <1>1 DEF Through
  <2>2. A # <<>> => ~(Len(A) < Len(B)) /\ ~(Len(B) < Len(A))
    BY <1>1, <1>3, <2>1
  <2>3. \A x, y \in Nat : ~(x < y) /\ ~(y < x) => x = y
    BY SMTT(60)
  <2>4. CASE A # <<>>
    BY <1>2, <2>2, <2>3, <2>4
  <2>5. CASE A = <<>>
    BY <1>1, <1>2, <2>5
  <2> QED
    BY <2>4, <2>5
<1>5. DOMAIN A = DOMAIN B
  BY <1>2, <1>4
<1>6. ASSUME NEW i \in DOMAIN A PROVE A[i].pieces = B[i].pieces /\ A[i].next = B[i].next
  BY <1>1, <1>5, ChainsAlike
<1>7. Scenes(A) = Scenes(B)
  BY <1>5, <1>6 DEF Scenes
<1> QED
  BY <1>5, <1>6, <1>7 DEF AnyBlank, Blank

\* Pagination of a chapter ends in one way.
LEMMA EndedAlike ==
  ASSUME NEW j, ChapterOK(j), NEW A, NEW B, NEW o, NEW r, Ended(j, A, o), Ended(j, B, r)
  PROVE  o = r /\ (o = "complete" => Scenes(A) = Scenes(B))
<1>1. CASE Through(j, A) /\ Through(j, B)
  BY <1>1, SameThrough, NotBoth DEF Ended
<1>2. CASE ~(Through(j, A) /\ Through(j, B))
  BY <1>2, NotBoth DEF Ended
<1> QED
  BY <1>1, <1>2

-----------------------------------------------------------------------------

\* The pages so far are those of the chapter, and so is the page being built.
OnTrack ==
  /\ Chain(job, pages) /\ Len(pages) <= job.limit
  /\ outcome \in {"paging", "built", "complete", "error"}
  /\ outcome = "paging" =>
       job.blocks # <<>> /\ OpenEnd(pages) /\ Reached(job, StartOf(pages, Len(pages) + 1), page)
  /\ outcome = "built" => Through(job, pages)
  /\ outcome \in {"complete", "error"} => Ended(job, pages, outcome)

LEMMA EmptyChain == ASSUME NEW j PROVE Chain(j, <<>>) /\ Len(<<>>) = 0 /\ OpenEnd(<<>>)
<1>1. IsSeq(<<>>) /\ DOMAIN <<>> = {} /\ Len(<<>>) = 0
  BY EmptySeq DEF IsSeq
<1> QED
  BY <1>1 DEF Chain, OpenEnd

\* One more page.
LEMMA LongerChain ==
  ASSUME NEW j, ChapterOK(j), NEW sheets, Chain(j, sheets), OpenEnd(sheets), Len(sheets) < j.limit,
         j.blocks # <<>>, NEW sheet, NEW p, NEW n,
         Reached(j, StartOf(sheets, Len(sheets) + 1), p), Closes(j, p, sheet.pieces, n),
         sheet.next = TokenOf(j, n)
  PROVE  LET more == Append(sheets, sheet)
         IN  /\ Chain(j, more) /\ Len(more) <= j.limit
             /\ n.block > Len(j.blocks) => Through(j, more)
             /\ ~(n.block > Len(j.blocks)) =>
                  OpenEnd(more) /\ Reached(j, StartOf(more, Len(more) + 1), EmptyPage(n))
<1> DEFINE more == Append(sheets, sheet)
           l == Len(sheets)
<1>1. /\ IsSeq(sheets) /\ l \in Nat /\ DOMAIN sheets = 1 .. l /\ (sheets = <<>> <=> l = 0)
      /\ IsSeq(more) /\ Len(more) = l + 1 /\ DOMAIN more = 1 .. l + 1
      /\ \A i \in 1 .. l : more[i] = sheets[i]
      /\ more[l + 1] = sheet
  BY AppendAny, SeqShape DEF Chain
<1> HIDE DEF more, l
<1>2. more # <<>>
  <2>1. Len(more) # 0
    BY <1>1
  <2> QED
    BY <1>1, <2>1, SeqShape
<1>3. ASSUME NEW i \in 1 .. l + 1 PROVE StartOf(more, i) = StartOf(sheets, i)
  <2>1. i # 1 => i - 1 \in 1 .. l
    BY <1>1
  <2> QED
    BY <1>1, <2>1 DEF StartOf
<1>4. ASSUME NEW i \in 1 .. l + 1 PROVE Made(j, StartOf(more, i), more[i].pieces, more[i].next)
  <2>1. CASE i \in 1 .. l
    BY <1>1, <1>3, <2>1, SMTT(60) DEF Chain
  <2>2. CASE i = l + 1
    BY <1>1, <1>3, <2>2 DEF Made, l
  <2> QED
    BY <1>1, <2>1, <2>2
<1>5. ASSUME NEW i \in 1 .. l PROVE more[i].next # None
  <2>1. i \in 1 .. l - 1 \/ i = l
    BY <1>1
  <2>2. l # 0
    BY <1>1
  <2> QED
    BY <1>1, <2>1, <2>2 DEF Chain, OpenEnd, l
<1>6. Chain(j, more)
  BY <1>1, <1>4, <1>5 DEF Chain
<1>7. Len(more) <= j.limit /\ l + 1 <= j.limit
  BY <1>1 DEF ChapterOK, l
<1>8. ASSUME n.block > Len(j.blocks) PROVE Through(j, more)
  BY <1>1, <1>2, <1>6, <1>7, <1>8 DEF Through, TokenOf
<1>9. ASSUME ~(n.block > Len(j.blocks))
      PROVE  OpenEnd(more) /\ Reached(j, StartOf(more, Len(more) + 1), EmptyPage(n))
  <2>1. sheet.next = n
    BY <1>9 DEF TokenOf
  <2>3. n \in Tokens
    BY ClosingBounds
  <2>4. n # None
    BY <2>3 DEF Tokens, None, Position
  <2>7. more # <<>> /\ more[Len(more)].next = n /\ StartOf(more, Len(more) + 1) = n
    <3>1. l + 1 + 1 # 1 /\ l + 1 + 1 - 1 = l + 1
      BY <1>1
    <3> QED
      BY <1>1, <1>2, <2>1, <3>1 DEF StartOf
  <2> QED
    BY <2>3, <2>4, <2>7, ReachedFirst DEF OpenEnd
<1> QED
  BY <1>6, <1>7, <1>8, <1>9 DEF more

LEMMA OnlyValidate ==
  ASSUME [PaginationNext]_paginationVars, outcome # "paging"
  PROVE  UNCHANGED paginationVars \/ Validate
<1> USE DEF Loop, Round, Place, Text, PlaceBox
<1>1. ~(TooManyFragments \/ BreakBefore \/ ForcedBreak \/ KeepWithNext \/ Invisible)
  BY DEF TooManyFragments, BreakBefore, ForcedBreak, KeepWithNext, Invisible
<1>2. ~(NoFit \/ Split \/ Whole \/ BoxNoFit \/ Box \/ LastPage \/ PageLimit)
  BY DEF NoFit, Split, Whole, BoxNoFit, Box, LastPage, PageLimit
<1> QED
  BY <1>1, <1>2 DEF PaginationNext

LEMMA NextOnTrack ==
  ASSUME OnTrack, ChapterOK(job), HasFields, [PaginationNext]_paginationVars
  PROVE  OnTrack'
<1>1. CASE outcome # "paging"
  <2>1. CASE UNCHANGED paginationVars
    BY <2>1 DEF OnTrack, paginationVars, OpenEnd, Through, Ended, AnyBlank, Stuck
  <2>2. CASE Validate
    <3>1. /\ outcome = "built" /\ UNCHANGED <<job, pages, page>>
          /\ outcome' = IF AnyBlank(pages) THEN "error" ELSE "complete"
      BY <2>2 DEF Validate, AnyBlank
    <3>2. Through(job, pages) /\ outcome' \in {"error", "complete"}
      BY <3>1 DEF OnTrack
    <3>3. Ended(job, pages, outcome')
      BY <3>1, <3>2 DEF Ended
    <3>4. Ended(job', pages', outcome')
      BY <3>1, <3>3
    <3> QED
      BY <3>1, <3>2, <3>4 DEF OnTrack
  <2> QED
    BY <1>1, <2>1, <2>2, OnlyValidate
<1>2. CASE outcome = "paging"
  <2> DEFINE start == StartOf(pages, Len(pages) + 1)
  <2>1. /\ Chain(job, pages) /\ Len(pages) <= job.limit /\ job.blocks # <<>> /\ OpenEnd(pages)
        /\ Reached(job, start, page)
    BY <1>2 DEF OnTrack
  <2>2. page.at \in Tokens /\ IsSeq(page.pieces)
    <3>1. PICK T : Grows(job, start, T, page.at.block) /\ T[page.at.block] = page
      BY <2>1 DEF Reached
    <3>2. start.block \in Nat /\ page.at.block \in Nat /\ start.block <= page.at.block
      BY <3>1 DEF Grows, Tokens
    <3>3. UnderWay(start, page.at.block, page)
      BY <3>1, <3>2 DEF Grows
    <3> QED
      BY <3>3 DEF UnderWay
  <2>3. \/ UNCHANGED paginationVars
        \/ /\ Len(pages) < job.limit /\ UNCHANGED <<job, pages, outcome>>
           /\ Moves(job, page, page')
        \/ /\ Len(pages) < job.limit
           /\ \E pieces, next : Closes(job, page, pieces, next) /\ Close(pieces, next)
        \/ Full(job, page) /\ TooManyFragments
        \/ PageLimit
        \/ Validate
    BY <2>2, RoundIs
  <2>4. CASE UNCHANGED paginationVars
    <3>1. job' = job /\ pages' = pages /\ page' = page /\ outcome' = outcome
      BY <2>4 DEF paginationVars
    <3> QED
      BY <1>2, <2>1, <3>1 DEF OnTrack
  <2>5. CASE UNCHANGED <<job, pages, outcome>> /\ Moves(job, page, page')
    <3>1. \A q : Moves(job, page, q) => Reached(job, start, q)
      BY <2>1, ReachedNext
    <3>2. Reached(job, start, page')
      BY <2>5, <3>1
    <3> QED
      BY <1>2, <2>1, <2>5, <3>2 DEF OnTrack
  <2>6. ASSUME NEW pieces, NEW next, Len(pages) < job.limit,
               Closes(job, page, pieces, next), Close(pieces, next)
        PROVE  OnTrack'
    <3> DEFINE sheet == [start |-> page.start, pieces |-> pieces,
                         next |-> IF AtEnd(next) THEN None ELSE next]
               more == Append(pages, sheet)
    <3>1. /\ pages' = more /\ page' = EmptyPage(next) /\ job' = job
          /\ outcome' = IF next.block > Len(job.blocks) THEN "built" ELSE "paging"
      BY <2>6 DEF Close, AtEnd
    <3>2. sheet.pieces = pieces /\ sheet.next = TokenOf(job, next)
      BY DEF TokenOf, AtEnd
    <3> HIDE DEF sheet
    <3>3. /\ Chain(job, more) /\ Len(more) <= job.limit
          /\ next.block > Len(job.blocks) => Through(job, more)
          /\ ~(next.block > Len(job.blocks)) =>
               OpenEnd(more) /\ Reached(job, StartOf(more, Len(more) + 1), EmptyPage(next))
      BY <2>1, <2>6, <3>2, LongerChain
    <3> HIDE DEF more
    <3>4. CASE next.block > Len(job.blocks)
      BY <3>1, <3>3, <3>4 DEF OnTrack
    <3>5. CASE ~(next.block > Len(job.blocks))
      BY <2>1, <3>1, <3>3, <3>5 DEF OnTrack
    <3> QED
      BY <3>4, <3>5
  <2>7. CASE Full(job, page) /\ TooManyFragments
    <3>1. outcome' = "error" /\ UNCHANGED <<job, pages, page>>
      BY <2>7 DEF TooManyFragments
    <3>2. Stuck(job, pages)
      BY <2>1, <2>7 DEF Stuck
    <3>3. Ended(job, pages, "error")
      BY <3>2 DEF Ended
    <3> QED
      BY <2>1, <3>1, <3>3 DEF OnTrack
  <2>8. CASE PageLimit
    <3>1. outcome' = "error" /\ UNCHANGED <<job, pages, page>> /\ Len(pages) >= job.limit
      BY <2>8 DEF PageLimit
    <3>2. Stuck(job, pages)
      BY <2>1, <3>1 DEF Stuck
    <3>3. Ended(job, pages, "error")
      BY <3>2 DEF Ended
    <3> QED
      BY <2>1, <3>1, <3>3 DEF OnTrack
  <2>9. CASE Validate
    BY <1>2, <2>9 DEF Validate
  <2> QED
    BY <2>3, <2>4, <2>5, <2>6, <2>7, <2>8, <2>9
<1> QED
  BY <1>1, <1>2

LEMMA JobIsChapter == ASSUME NEW j \in Job PROVE ChapterOK(j)
<1>1. /\ j.height \in Heights /\ j.fragments \in FragmentLimits /\ j.limit \in PageLimits
      /\ \E n \in 0 .. MaxBlocks : j.blocks \in [1 .. n -> Shapes]
  BY DEF Job
<1>2. PICK n \in 0 .. MaxBlocks : j.blocks \in [1 .. n -> Shapes]
  BY <1>1
<1>3. n \in Nat /\ Shapes \subseteq Block
  BY PaginationAssumption
<1>4. j.blocks \in [1 .. n -> Block]
  BY <1>2, <1>3
<1>5. j.blocks \in Seq(Block)
  BY <1>3, <1>4
<1> QED
  BY <1>1, <1>5, PaginationAssumption DEF ChapterOK

LEMMA InitOnTrack == PaginationInit => OnTrack
<1> SUFFICES ASSUME PaginationInit PROVE OnTrack
  OBVIOUS
<1>1. /\ job \in Job /\ pages = <<>> /\ page = EmptyPage(Position(1, 0))
      /\ outcome = IF job.blocks = <<>> THEN "complete" ELSE "paging"
  BY DEF PaginationInit
<1>2. Chain(job, pages) /\ Len(pages) = 0 /\ OpenEnd(pages) /\ ChapterOK(job)
  BY <1>1, EmptyChain, JobIsChapter
<1>3. Len(pages) <= job.limit
  BY <1>2 DEF ChapterOK
<1>4. CASE job.blocks = <<>>
  <2>1. Through(job, pages)
    BY <1>1, <1>2, <1>3, <1>4 DEF Through
  <2>2. ~AnyBlank(pages)
    BY <1>1, EmptySeq DEF AnyBlank
  <2> QED
    BY <1>1, <1>2, <1>3, <1>4, <2>1, <2>2 DEF OnTrack, Ended
<1>5. CASE job.blocks # <<>>
  <2>1. StartOf(pages, Len(pages) + 1) = Position(1, 0)
    BY <1>2 DEF StartOf
  <2>2. Position(1, 0) \in Tokens
    BY DEF Position, Tokens
  <2> QED
    BY <1>1, <1>2, <1>3, <1>5, <2>1, <2>2, ReachedFirst DEF OnTrack
<1> QED
  BY <1>4, <1>5

LEMMA MadeElsewhere ==
  ASSUME NEW j, NEW k, ChapterOK(j), ChapterOK(k),
         j.height = k.height, j.fragments <= k.fragments,
         NEW start, NEW pieces, NEW next, Made(j, start, pieces, next),
         next = None => Len(j.blocks) = Len(k.blocks),
         next # None => next.block <= Len(k.blocks),
         \A b \in Nat : start.block <= b /\ b <= Len(j.blocks) /\ (next # None => b <= next.block)
                          => b <= Len(k.blocks) /\ j.blocks[b] = k.blocks[b]
  PROVE  Made(k, start, pieces, next)
<1>1. PICK p, n : Reached(j, start, p) /\ Closes(j, p, pieces, n) /\ next = TokenOf(j, n)
  BY DEF Made
<1>2. /\ start \in Tokens /\ n \in Tokens /\ start.block <= n.block /\ p.at.block <= n.block
  BY <1>1, ClosingBounds
<1>3. PICK c : c = p.at.block
  OBVIOUS
<1>4. c \in Nat /\ start.block \in Nat \ {0} /\ start.block <= c /\ UnderWay(start, c, p)
  <2>1. PICK T : Grows(j, start, T, c) /\ T[c] = p
    BY <1>1, <1>3 DEF Reached
  <2> QED
    BY <2>1 DEF Grows, Tokens
<1>5. IsSeq(p.pieces) /\ n.block \in Nat \ {0} /\ Len(j.blocks) \in Nat /\ Len(k.blocks) \in Nat
  BY <1>2, <1>4 DEF UnderWay, Tokens, ChapterOK
<1>6. next # None => next = n /\ n.block <= Len(j.blocks) /\ n.block <= Len(k.blocks)
  BY <1>1, <1>5 DEF TokenOf
<1>7. next = None => n.block > Len(j.blocks)
  BY <1>1, <1>5 DEF TokenOf, None, Position
<1>8. ASSUME NEW b \in start.block .. c, b <= Len(j.blocks)
      PROVE  b <= Len(k.blocks) /\ j.blocks[b] = k.blocks[b]
  <2>1. b \in Nat /\ start.block <= b /\ b <= n.block
    BY <1>2, <1>3, <1>4, <1>5
  <2> QED
    BY <1>6, <1>8, <2>1
<1>9. Reached(k, start, p)
  <2>1. ASSUME NEW b \in start.block .. c - 1
        PROVE  b <= Len(j.blocks) => b <= Len(k.blocks) /\ j.blocks[b] = k.blocks[b]
    <3>1. b \in start.block .. c
      BY <1>4
    <3> QED
      BY <1>8, <3>1
  <2> QED
    BY <1>1, <1>3, <2>1, ReachedElsewhere
<1>10. Closes(k, p, pieces, n)
  <2>1. c <= Len(j.blocks) => c <= Len(k.blocks) /\ Here(j, p) = Here(k, p)
    <3>1. c \in start.block .. c
      BY <1>4
    <3> QED
      BY <1>3, <1>8, <3>1 DEF Here
  <2>2. c > Len(j.blocks) => c > Len(k.blocks)
    BY <1>2, <1>3, <1>4, <1>5, <1>6
  <2> QED
    BY <1>1, <1>3, <1>4, <1>5, <2>1, <2>2, ClosesElsewhere
<1>11. next = TokenOf(k, n)
  <2>1. CASE next = None
    BY <1>5, <1>7, <2>1 DEF TokenOf
  <2>2. CASE next # None
    BY <1>5, <1>6, <2>2 DEF TokenOf
  <2> QED
    BY <2>1, <2>2
<1> QED
  BY <1>9, <1>10, <1>11 DEF Made

LEMMA NotDirty ==
  ASSUME ChapterOK(job), ChapterOK(previous.job), NEW b \in Nat \ {0}, b \notin Dirty,
         b <= Len(previous.job.blocks) \/ b <= Len(job.blocks)
  PROVE  /\ b <= Len(previous.job.blocks) /\ b <= Len(job.blocks)
         /\ previous.job.blocks[b] = job.blocks[b]
<1>1. Len(previous.job.blocks) \in Nat /\ Len(job.blocks) \in Nat
  BY DEF ChapterOK
<1>2. \A x, y \in Nat : b <= x \/ b <= y => b \in 1 .. x + y
  OBVIOUS
<1>3. b \in 1 .. Len(previous.job.blocks) + Len(job.blocks)
  BY <1>1, <1>2
<1> QED
  BY <1>3 DEF Dirty, Differing

PreviousThrough ==
  previous.job \in Job /\ Through(previous.job, previous.pages) /\ ~AnyBlank(previous.pages)

\* The pages that are kept are pages of the edited chapter.
LEMMA KeptIsCurrent ==
  ASSUME PreviousOK, PreviousThrough, job \in Job, Checkpoint > 0, LimitsNotLowered, PrefixCurrent
  PROVE  /\ Checkpoint \in 1 .. Len(previous.pages) /\ Resume = previous.pages[Checkpoint].next
         /\ Resume # None /\ ~AtEnd(Resume)
         /\ Chain(job, SubSeq(previous.pages, 1, Checkpoint))
<1> DEFINE n == Len(previous.pages)
           c == Checkpoint
           token == previous.pages[c].next
           sheets == previous.pages
<1>1. /\ ChapterOK(job) /\ ChapterOK(previous.job) /\ JobOK
      /\ Chain(previous.job, sheets) /\ n <= previous.job.limit
  BY JobIsChapter, JobTypes DEF PreviousThrough, Through
<1>2. /\ IsSeq(sheets) /\ n \in Nat /\ DOMAIN sheets = 1 .. n /\ c \in 1 .. n
      /\ FirstDirty \in Nat \ {0}
  <2>1. Checkpoint \in 0 .. Len(previous.pages) /\ FirstDirty \in Nat \ {0}
    BY <1>1, CheckpointBounds, DirtyBlocks
  <2> QED
    BY <1>1, <2>1, PreviousPages
<1>3. Reparse /\ sheets # <<>>
  BY DEF Checkpoint
<1>4. /\ job.height = previous.job.height /\ Resume.block # FirstDirty
      /\ previous.job.fragments <= job.fragments
  <2>1. job.fragments \in Nat /\ previous.job.fragments \in Nat
    BY <1>1 DEF ChapterOK
  <2> QED
    BY <2>1 DEF PrefixCurrent, LimitsNotLowered
<1>5. /\ token # None /\ ~AtEnd(token) /\ token.block # FirstDirty
      /\ SameBlock(token.block) => Resume = token
  <2>1. Resume = IF token = None \/ AtEnd(token) THEN Position(FirstDirty, 0)
                 ELSE IF SameBlock(token.block) THEN token ELSE Position(token.block, 0)
    BY <1>2 DEF Resume
  <2> HIDE DEF token
  <2>2. Position(FirstDirty, 0).block = FirstDirty /\ Position(token.block, 0).block = token.block
    BY DEF Position
  <2> QED
    BY <1>4, <2>1, <2>2
<1>6. ASSUME NEW i \in 1 .. n
      PROVE  /\ Made(previous.job, StartOf(sheets, i), sheets[i].pieces, sheets[i].next)
             /\ StartOf(sheets, i).block \in Nat \ {0}
             /\ sheets[i].next = None \/
                  (/\ sheets[i].next \in Tokens
                   /\ sheets[i].next.block \in StartOf(sheets, i).block .. Len(previous.job.blocks))
             /\ \A k \in DOMAIN sheets[i].pieces :
                  sheets[i].pieces[k].block \in Nat
                    /\ StartOf(sheets, i).block <= sheets[i].pieces[k].block
  <2>1. Made(previous.job, StartOf(sheets, i), sheets[i].pieces, sheets[i].next)
    BY <1>1, <1>2 DEF Chain
  <2>2. /\ StartOf(sheets, i) \in Tokens
        /\ sheets[i].next = None \/
             (/\ sheets[i].next \in Tokens
              /\ sheets[i].next.block \in StartOf(sheets, i).block .. Len(previous.job.blocks))
        /\ \A k \in DOMAIN sheets[i].pieces :
             sheets[i].pieces[k].block \in Nat
               /\ StartOf(sheets, i).block <= sheets[i].pieces[k].block
    BY <1>1, <2>1, MadeBounds
  <2> QED
    BY <2>1, <2>2 DEF Tokens
<1>7. token.block \in Nat \ {0}
  BY <1>2, <1>5, <1>6 DEF Tokens
<1>8. token.block < FirstDirty
  <2>1. CASE Showing(FirstDirty) # {}
    <3>1. Showing(FirstDirty) \in SUBSET Nat
      BY <1>2 DEF Showing
    <3>2. PICK m : m = Min(Showing(FirstDirty)) /\ m \in Showing(FirstDirty)
      BY <2>1, <3>1, MinOf
    <3>3. c = m - 1
      BY <1>3, <2>1, <3>2 DEF Checkpoint
    <3>4. /\ m \in 1 .. n /\ m # 1 /\ m - 1 = c
          /\ \E k \in DOMAIN sheets[m].pieces : sheets[m].pieces[k].block = FirstDirty
      <4>1. /\ m \in DOMAIN sheets
            /\ \E k \in DOMAIN sheets[m].pieces : sheets[m].pieces[k].block = FirstDirty
        BY <3>2 DEF Showing
      <4>2. m \in 1 .. n /\ c \in Nat \ {0}
        BY <1>2, <4>1
      <4>3. m # 1 /\ m - 1 = c
        BY <3>3, <4>2
      <4> QED
        BY <4>1, <4>2, <4>3, SMTT(60)
    <3>5. StartOf(sheets, m) = token
      BY <3>4 DEF StartOf
    <3>6. token.block <= FirstDirty
      BY <1>6, <3>4, <3>5
    <3> QED
      BY <1>2, <1>5, <1>7, <3>6
  <2>2. CASE Showing(FirstDirty) = {}
    <3>1. Reaching(FirstDirty) \in SUBSET Nat /\ n \in Reaching(FirstDirty)
      BY <1>2, <1>3, PreviousPages DEF Reaching
    <3>2. PICK end : end = Min(Reaching(FirstDirty)) /\ end \in Reaching(FirstDirty)
                       /\ \A i \in Reaching(FirstDirty) : end <= i
      BY <3>1, MinOf
    <3>3. c = IF sheets[end].next = Position(FirstDirty, 0) THEN end ELSE end - 1
      BY <1>3, <2>2, <3>2 DEF Checkpoint
    <3>4. c = end - 1
      BY <1>5, <3>3 DEF Position
    <3>5. c \notin Reaching(FirstDirty)
      BY <1>2, <3>1, <3>2, <3>4
    <3> QED
      BY <1>2, <1>7, <3>5 DEF Reaching
  <2> QED
    BY <2>1, <2>2
<1>9. Dirty # {} /\ FirstDirty = Min(Dirty)
  BY <1>7, <1>8 DEF FirstDirty
<1>10. Len(previous.job.blocks) \in Nat /\ Len(job.blocks) \in Nat /\ token.block <= Len(job.blocks)
  <2>1. Len(previous.job.blocks) \in Nat /\ Len(job.blocks) \in Nat
    BY <1>1 DEF ChapterOK
  <2> QED
    BY <1>5, <1>7, <2>1 DEF AtEnd
<1>11. ASSUME NEW b \in 1 .. token.block
       PROVE  /\ b <= Len(previous.job.blocks) /\ b <= Len(job.blocks)
              /\ previous.job.blocks[b] = job.blocks[b]
  <2>1. Dirty \in SUBSET Nat
    <3>1. \A x, y \in Nat : 1 .. x + y \subseteq Nat
      OBVIOUS
    <3>2. 1 .. Len(previous.job.blocks) + Len(job.blocks) \subseteq Nat
      BY <1>10, <3>1
    <3> QED
      BY <3>2 DEF Dirty, Differing
  <2>2. b \notin Dirty
    BY <1>2, <1>7, <1>8, <1>9, <2>1, MinOf
  <2>3. b \in Nat \ {0} /\ b <= Len(job.blocks)
    BY <1>7, <1>10
  <2> QED
    BY <1>1, <2>2, <2>3, NotDirty
<1>12. Resume = token
  <2>1. token.block \in 1 .. token.block
    BY <1>7
  <2>2. SameBlock(token.block)
    BY <1>7, <1>10, <1>11, <2>1, SMTT(60) DEF SameBlock
  <2> QED
    BY <1>5, <2>2
<1>13. ASSUME NEW i \in 1 .. c
       PROVE  sheets[i].next # None /\ sheets[i].next.block <= token.block
                /\ sheets[i].next.block \in Nat
  <2>1. CASE i = c
    BY <1>5, <1>7, <2>1
  <2>2. CASE i # c
    <3>1. i \in 1 .. n - 1 /\ i \in 1 .. n /\ i + 1 \in 1 .. n /\ i + 1 <= c /\ i + 1 # 1
          /\ i + 1 - 1 = i
      BY <1>2, <2>2
    <3>2. sheets[i].next # None
      BY <1>1, <3>1 DEF Chain
    <3>3. StartOf(sheets, i + 1) = sheets[i].next
      BY <3>1 DEF StartOf
    <3>4. /\ StartOf(sheets, i + 1).block \in Nat /\ StartOf(sheets, c).block \in Nat
          /\ StartOf(sheets, i + 1).block <= StartOf(sheets, c).block
      BY <1>1, <1>2, <3>1, ChainForward
    <3>5. StartOf(sheets, c).block <= token.block
      BY <1>2, <1>5, <1>6, <1>10
    <3> QED
      BY <1>7, <3>2, <3>3, <3>4, <3>5
  <2> QED
    BY <2>1, <2>2
<1> HIDE DEF token, n, c, sheets
<1>14. ASSUME NEW i \in 1 .. c
       PROVE  Made(job, StartOf(sheets, i), sheets[i].pieces, sheets[i].next)
  <2>1. i \in 1 .. n
    BY <1>2
  <2>2. /\ Made(previous.job, StartOf(sheets, i), sheets[i].pieces, sheets[i].next)
        /\ StartOf(sheets, i).block \in Nat \ {0}
    BY <1>6, <2>1
  <2>3. sheets[i].next # None /\ sheets[i].next.block <= Len(job.blocks)
    BY <1>7, <1>10, <1>13
  <2>4. ASSUME NEW b \in Nat, StartOf(sheets, i).block <= b, b <= sheets[i].next.block
        PROVE  b <= Len(job.blocks) /\ previous.job.blocks[b] = job.blocks[b]
    <3>1. b \in 1 .. token.block
      BY <1>7, <1>13, <2>2, <2>4
    <3> QED
      BY <1>11, <3>1
  <2>5. \A b \in Nat :
          /\ StartOf(sheets, i).block <= b /\ b <= Len(previous.job.blocks)
          /\ sheets[i].next # None => b <= sheets[i].next.block
          => b <= Len(job.blocks) /\ previous.job.blocks[b] = job.blocks[b]
    BY <2>3, <2>4
  <2> QED
    BY <1>1, <1>4, <2>2, <2>3, <2>5, MadeElsewhere
<1>15. Chain(job, SubSeq(sheets, 1, c))
  <2> DEFINE kept == SubSeq(sheets, 1, c)
  <2>1. c \in Nat /\ c <= Len(sheets)
    BY <1>2 DEF n
  <2>2. /\ IsSeq(kept) /\ Len(kept) = c /\ DOMAIN kept = 1 .. c
        /\ \A i \in 1 .. c : kept[i] = sheets[i]
    BY <1>2, <2>1, FirstPart
  <2> HIDE DEF kept
  <2>3. ASSUME NEW i \in 1 .. c PROVE StartOf(kept, i) = StartOf(sheets, i)
    <3>1. i # 1 => i - 1 \in 1 .. c
      BY <2>1
    <3> QED
      BY <2>2, <3>1 DEF StartOf
  <2>4. \A i \in 1 .. c - 1 : i \in 1 .. c
    BY <2>1
  <2> QED
    BY <1>13, <1>14, <2>2, <2>3, <2>4 DEF Chain, kept
<1> QED
  BY <1>2, <1>5, <1>12, <1>15 DEF token, n, c, sheets

\* Behind the last edited block, the previous pages are pages of the edited chapter.
LEMMA TailIsCurrent ==
  ASSUME PreviousOK, PreviousThrough, job \in Job, LimitsNotLowered,
         job.height = previous.job.height,
         NEW c \in 1 .. Len(previous.pages) - 1,
         previous.pages[c].next.block <= Len(job.blocks),
         \A b \in Dirty : b < previous.pages[c].next.block
  PROVE  \A i \in c + 1 .. Len(previous.pages) :
           Made(job, StartOf(previous.pages, i), previous.pages[i].pieces, previous.pages[i].next)
<1> DEFINE n == Len(previous.pages)
           sheets == previous.pages
           at == previous.pages[c].next.block
           old == Len(previous.job.blocks)
           new == Len(job.blocks)
<1>1. /\ ChapterOK(job) /\ ChapterOK(previous.job) /\ Chain(previous.job, sheets)
      /\ old \in Nat /\ new \in Nat
  <2>1. ChapterOK(job) /\ ChapterOK(previous.job)
    BY JobIsChapter DEF PreviousThrough
  <2>2. Chain(previous.job, sheets)
    BY DEF PreviousThrough, Through
  <2> QED
    BY <2>1, <2>2 DEF ChapterOK
<1>2. n \in Nat /\ DOMAIN sheets = 1 .. n
  BY PreviousPages
<1>3. previous.job.fragments <= job.fragments
  BY <1>1 DEF ChapterOK, LimitsNotLowered
<1>4. ASSUME NEW i \in 1 .. n
      PROVE  /\ Made(previous.job, StartOf(sheets, i), sheets[i].pieces, sheets[i].next)
             /\ StartOf(sheets, i).block \in Nat \ {0}
             /\ sheets[i].next = None \/
                  (/\ sheets[i].next \in Tokens
                   /\ sheets[i].next.block \in StartOf(sheets, i).block .. old)
  <2>1. Made(previous.job, StartOf(sheets, i), sheets[i].pieces, sheets[i].next)
    BY <1>1, <1>2, <1>4 DEF Chain
  <2>2. /\ StartOf(sheets, i) \in Tokens
        /\ sheets[i].next = None \/
             (/\ sheets[i].next \in Tokens
              /\ sheets[i].next.block \in StartOf(sheets, i).block .. old)
    BY <1>1, <2>1, MadeBounds
  <2> QED
    BY <2>1, <2>2 DEF Tokens
<1>5. at \in Nat \ {0} /\ at <= old /\ at <= new
  <2>1. sheets[c].next # None /\ c \in 1 .. n
    BY <1>1, <1>2 DEF Chain
  <2>2. sheets[c].next \in Tokens /\ sheets[c].next.block \in StartOf(sheets, c).block .. old
        /\ StartOf(sheets, c).block \in Nat
    BY <1>4, <2>1
  <2> QED
    BY <1>1, <2>2 DEF Tokens
<1> HIDE DEF n, at, old, new
<1>6. ASSUME NEW b \in Nat, at <= b, b <= old \/ b <= new
      PROVE  b <= old /\ b <= new /\ previous.job.blocks[b] = job.blocks[b]
  <2>1. b \in Nat \ {0} /\ b \notin Dirty
    <3>1. ASSUME b \in Dirty PROVE FALSE
      <4>1. b < at
        BY <3>1 DEF at
      <4> QED
        BY <1>5, <1>6, <4>1
    <3> QED
      BY <1>5, <1>6, <3>1
  <2> QED
    BY <1>1, <1>6, <2>1, NotDirty DEF old, new
<1>7. old = new
  BY <1>1, <1>5, <1>6
<1>8. ASSUME NEW i \in c + 1 .. n
      PROVE  Made(job, StartOf(sheets, i), sheets[i].pieces, sheets[i].next)
  <2>1. i \in 1 .. n /\ c + 1 \in 1 .. n /\ c + 1 <= i /\ c + 1 # 1 /\ c + 1 - 1 = c
    BY <1>2 DEF n
  <2>2. StartOf(sheets, c + 1).block = at
    BY <2>1 DEF StartOf, at
  <2>3. at <= StartOf(sheets, i).block
    BY <1>1, <1>2, <2>1, <2>2, ChainForward
  <2>4. /\ Made(previous.job, StartOf(sheets, i), sheets[i].pieces, sheets[i].next)
        /\ StartOf(sheets, i).block \in Nat \ {0}
        /\ sheets[i].next # None => sheets[i].next.block <= new
    BY <1>1, <1>4, <1>7, <2>1
  <2>5. ASSUME NEW b \in Nat, StartOf(sheets, i).block <= b, b <= old
        PROVE  b <= new /\ previous.job.blocks[b] = job.blocks[b]
    <3>1. at <= b
      BY <1>5, <2>3, <2>4, <2>5
    <3> QED
      BY <1>6, <2>5, <3>1
  <2>6. \A b \in Nat :
          /\ StartOf(sheets, i).block <= b /\ b <= old
          /\ sheets[i].next # None => b <= sheets[i].next.block
          => b <= new /\ previous.job.blocks[b] = job.blocks[b]
    BY <2>5
  <2> QED
    BY <1>1, <1>3, <1>7, <2>4, <2>6, MadeElsewhere DEF old, new
<1> QED
  BY <1>8 DEF n

\* The conditions under which an edit shows what full pagination shows stay as they are.
LEMMA SameConditions ==
  ASSUME UNCHANGED <<job, previous, changed>>
  PROVE  /\ (LimitsNotLowered <=> LimitsNotLowered') /\ (PrefixCurrent <=> PrefixCurrent')
         /\ (PreviousThrough <=> PreviousThrough')
<1>1. job' = job /\ previous' = previous /\ changed' = changed
  OBVIOUS
<1>2. (LimitsNotLowered <=> LimitsNotLowered') /\ (PreviousThrough <=> PreviousThrough')
  BY <1>1 DEF LimitsNotLowered, PreviousThrough, AnyBlank, Blank
<1>3. Dirty' = Dirty /\ Checkpoint' = Checkpoint
  BY SameEdit
<1>4. FirstDirty' = FirstDirty
  BY <1>1, <1>3 DEF FirstDirty, Reparse, SameLimits
<1>5. \A b : SameBlock(b)' <=> SameBlock(b)
  BY <1>1 DEF SameBlock
<1>6. \A t : AtEnd(t)' <=> AtEnd(t)
  BY <1>1 DEF AtEnd
<1>7. Resume' = Resume
  <2> DEFINE token == previous.pages[Checkpoint].next
  <2>1. token' = token
    BY <1>1, <1>3
  <2>2. (AtEnd(token) <=> AtEnd(token)') /\ (SameBlock(token.block) <=> SameBlock(token.block)')
    BY <1>1, <2>1 DEF AtEnd, SameBlock
  <2> HIDE DEF token
  <2>3. Resume = IF Checkpoint = 0 THEN Position(1, 0)
                 ELSE IF token = None \/ AtEnd(token) THEN Position(FirstDirty, 0)
                 ELSE IF SameBlock(token.block) THEN token ELSE Position(token.block, 0)
    BY DEF Resume, token
  <2>4. Resume' = IF Checkpoint' = 0 THEN Position(1, 0)
                  ELSE IF token' = None \/ AtEnd(token)' THEN Position(FirstDirty', 0)
                  ELSE IF SameBlock(token.block)' THEN token' ELSE Position(token'.block, 0)
    BY DEF Resume, token, None, Position
  <2> QED
    BY <1>3, <1>4, <2>1, <2>2, <2>3, <2>4
<1> QED
  BY <1>1, <1>2, <1>3, <1>4, <1>7 DEF PrefixCurrent

LEMMA TailOnTrack ==
  ASSUME IncrementalInv, PreviousThrough, job \in Job, OnTrack, TakeTail,
         LimitsNotLowered, TailCurrent'
  PROVE  OnTrack'
<1> DEFINE n == Len(previous.pages)
           c == compared
<1>1. /\ tail' = c /\ outcome' = "built" /\ UNCHANGED <<job, previous, changed>>
      /\ Matches(c + 1) /\ Matches(c) /\ PreviousOK
  BY TailPages DEF TakeTail, IncrementalInv
<1>2. /\ n \in Nat /\ DOMAIN previous.pages = 1 .. n /\ Len(pages) \in Nat
      /\ DOMAIN pages = 1 .. Len(pages)
      /\ c \in Nat \ {0} /\ c < Len(pages) /\ c + 1 \in 1 .. n
      /\ IsSeq(pages') /\ Len(pages') = n /\ DOMAIN pages' = 1 .. n
      /\ \A i \in 1 .. n : pages'[i] = IF i < c THEN pages[i] ELSE previous.pages[i]
  BY TailPages
<1>3. /\ ChapterOK(job) /\ ChapterOK(previous.job) /\ Chain(previous.job, previous.pages)
      /\ Chain(job, pages) /\ n <= previous.job.limit
      /\ previous.pages # <<>> => previous.pages[n].next = None
  BY JobIsChapter DEF PreviousThrough, Through, OnTrack
<1> HIDE DEF n, c
<1>4. /\ pages[c].pieces = previous.pages[c].pieces /\ pages[c].next = previous.pages[c].next
      /\ job.height = previous.job.height
  BY <1>1 DEF Matches
<1>5. /\ c \in 1 .. n - 1 /\ c \in 1 .. Len(pages) - 1 /\ c \in 1 .. n /\ c \in DOMAIN pages
  BY <1>2
<1>6. previous.pages[c].next # None /\ \A i \in 1 .. c : pages[i].next # None
  <2>1. \A i \in 1 .. c : i \in 1 .. Len(pages) - 1
    BY <1>2, <1>5
  <2> QED
    BY <1>3, <1>5, <2>1 DEF Chain, n
<1>7. previous.pages[c].next.block <= Len(job.blocks)
  <2>1. Made(job, StartOf(pages, c), pages[c].pieces, pages[c].next)
    BY <1>3, <1>5 DEF Chain
  <2>2. pages[c].next # None /\ Len(job.blocks) \in Nat
    BY <1>3, <1>4, <1>6 DEF ChapterOK
  <2>3. /\ StartOf(pages, c) \in Tokens
        /\ pages[c].next.block \in StartOf(pages, c).block .. Len(job.blocks)
    BY <1>3, <2>1, <2>2, MadeBounds
  <2> QED
    BY <1>4, <2>2, <2>3 DEF Tokens
<1>8. \A b \in Dirty : b < previous.pages[c].next.block
  <2>1. Dirty' = Dirty
    BY <1>1, SameEdit
  <2>2. tail' > 0 /\ previous'.pages[tail'].next # None
    BY <1>1, <1>2, <1>6
  <2> QED
    BY <1>1, <2>1, <2>2 DEF TailCurrent
<1>9. \A i \in c + 1 .. n :
        Made(job, StartOf(previous.pages, i), previous.pages[i].pieces, previous.pages[i].next)
  BY <1>1, <1>4, <1>5, <1>7, <1>8, TailIsCurrent DEF n
<1>10. ASSUME NEW i \in 1 .. n
       PROVE  Made(job, StartOf(pages', i), pages'[i].pieces, pages'[i].next)
  <2>1. CASE i <= c
    <3>1. /\ i \in DOMAIN pages
          /\ pages'[i].pieces = pages[i].pieces /\ pages'[i].next = pages[i].next
      BY <1>2, <1>4, <1>5, <2>1
    <3>2. StartOf(pages', i) = StartOf(pages, i)
      <4>1. CASE i = 1
        BY <4>1 DEF StartOf
      <4>2. CASE i # 1
        <5>1. i - 1 \in 1 .. n /\ i - 1 < c
          BY <1>2, <2>1, <4>2
        <5> QED
          BY <1>2, <4>2, <5>1 DEF StartOf
      <4> QED
        BY <4>1, <4>2
    <3> QED
      BY <1>3, <3>1, <3>2 DEF Chain
  <2>2. CASE ~(i <= c)
    <3>1. i \in c + 1 .. n /\ i # 1 /\ i - 1 \in 1 .. n /\ ~(i - 1 < c) /\ ~(i < c)
      BY <1>2, <2>2
    <3>2. pages'[i] = previous.pages[i] /\ StartOf(pages', i) = StartOf(previous.pages, i)
      BY <1>2, <3>1 DEF StartOf
    <3> QED
      BY <1>9, <3>1, <3>2
  <2> QED
    BY <2>1, <2>2
<1>11. ASSUME NEW i \in 1 .. n - 1 PROVE pages'[i].next # None
  <2>1. CASE i < c
    BY <1>2, <1>6, <2>1
  <2>2. CASE ~(i < c)
    BY <1>2, <1>3, <2>2 DEF Chain, n
  <2> QED
    BY <2>1, <2>2
<1>12. Chain(job, pages')
  BY <1>2, <1>10, <1>11 DEF Chain
<1>13. n <= job.limit
  BY <1>2, <1>3 DEF LimitsNotLowered, ChapterOK
<1>14. pages'[n].next = None /\ pages' # <<>> /\ job.blocks # <<>>
  <2>1. previous.pages # <<>> /\ pages' # <<>>
    BY <1>2, EmptySeq
  <2>2. n \in 1 .. n /\ ~(n < c)
    BY <1>2
  <2>3. Len(job.blocks) # 0
    <3>1. /\ StartOf(pages, c) \in Tokens
          /\ pages[c].next.block \in StartOf(pages, c).block .. Len(job.blocks)
      BY <1>3, <1>5, <1>6, MadeBounds DEF Chain
    <3> QED
      BY <1>3, <3>1 DEF Tokens, ChapterOK
  <2> QED
    BY <1>2, <1>3, <2>1, <2>2, <2>3, EmptySeq
<1>15. Through(job, pages')
  BY <1>2, <1>12, <1>13, <1>14 DEF Through
<1> QED
  BY <1>1, <1>2, <1>12, <1>13, <1>15 DEF OnTrack

LEMMA RepaintOnTrack ==
  ASSUME PreviousThrough, job \in Job, Repaint
  PROVE  OnTrack'
<1>1. /\ Dirty = {} /\ SameLimits /\ job.height = previous.job.height
      /\ pages' = previous.pages /\ outcome' = "built" /\ job' = job
  BY DEF Repaint, PaintOnly, Start
<1>2. ChapterOK(job) /\ ChapterOK(previous.job) /\ previous.job \in Job
  BY JobIsChapter DEF PreviousThrough
<1> DEFINE old == previous.job.blocks
           new == job.blocks
<1>3. old \in Seq(Block) /\ new \in Seq(Block) /\ Len(old) \in Nat /\ Len(new) \in Nat
      /\ DOMAIN old = 1 .. Len(old) /\ DOMAIN new = 1 .. Len(new)
  BY <1>2, SMTT(60) DEF ChapterOK
<1>4. ASSUME NEW b \in Nat \ {0}, b <= Len(old) \/ b <= Len(new)
      PROVE  b <= Len(old) /\ b <= Len(new) /\ old[b] = new[b]
  BY <1>1, <1>2, <1>4, NotDirty
<1> HIDE DEF old, new
<1>5. Len(old) = Len(new)
  <2>1. \A x, y \in Nat : (\A b \in Nat \ {0} : b <= x \/ b <= y => b <= x /\ b <= y) => x = y
    <3> SUFFICES ASSUME NEW x \in Nat, NEW y \in Nat,
                        \A b \in Nat \ {0} : b <= x \/ b <= y => b <= x /\ b <= y
                 PROVE  x = y
      OBVIOUS
    <3>1. x # 0 => x <= y
      OBVIOUS
    <3>2. y # 0 => y <= x
      OBVIOUS
    <3> QED
      BY <3>1, <3>2
  <2> QED
    BY <1>3, <1>4, <2>1
<1>6. old = new
  <2>1. ASSUME NEW b \in 1 .. Len(old) PROVE old[b] = new[b]
    BY <1>3, <1>4
  <2> QED
    BY <1>3, <1>5, <2>1
<1>7. previous.job = job
  <2>1. previous.job \in [blocks : UNION {[1 .. n -> Shapes] : n \in 0 .. MaxBlocks},
                          height : Heights, fragments : FragmentLimits, limit : PageLimits]
        /\ job \in [blocks : UNION {[1 .. n -> Shapes] : n \in 0 .. MaxBlocks},
                    height : Heights, fragments : FragmentLimits, limit : PageLimits]
    BY <1>2 DEF Job
  <2> DEFINE S == UNION {[1 .. n -> Shapes] : n \in 0 .. MaxBlocks}
  <2> HIDE DEF S
  <2>2. previous.job \in [blocks : S, height : Heights, fragments : FragmentLimits, limit : PageLimits]
        /\ job \in [blocks : S, height : Heights, fragments : FragmentLimits, limit : PageLimits]
    BY <2>1 DEF S
  <2> HIDE <2>1
  <2> QED
    BY <1>1, <1>6, <2>2 DEF SameLimits, old, new
<1>8. Through(job', pages')
  BY <1>1, <1>7 DEF PreviousThrough
<1> QED
  BY <1>1, <1>8 DEF OnTrack, Through

LEMMA RepaginateOnTrack ==
  ASSUME PreviousOK, PreviousThrough, job \in Job, Repaginate, LimitsNotLowered, PrefixCurrent
  PROVE  OnTrack'
<1> DEFINE kept == SubSeq(previous.pages, 1, Checkpoint)
<1>1. /\ pages' = IF job.blocks = <<>> THEN <<>> ELSE kept
      /\ page' = EmptyPage(Resume) /\ job' = job
      /\ outcome' = IF job.blocks = <<>> THEN "complete"
                    ELSE IF AtEnd(Resume) THEN "built" ELSE "paging"
  BY DEF Repaginate, Start
<1>2. /\ ChapterOK(job) /\ ChapterOK(previous.job) /\ JobOK /\ IsSeq(previous.pages)
      /\ Len(previous.pages) \in Nat /\ Len(previous.pages) <= previous.job.limit
  BY JobIsChapter, JobTypes, PreviousPages DEF PreviousThrough, Through
<1>3. Checkpoint \in 0 .. Len(previous.pages)
  BY <1>2, CheckpointBounds
<1>4. IsSeq(kept) /\ Len(kept) = Checkpoint /\ \A i \in 1 .. Checkpoint : kept[i] = previous.pages[i]
  BY <1>2, <1>3, FirstPart
<1>5. job.limit \in Nat /\ previous.job.limit \in Nat /\ job.limit >= previous.job.limit
  BY <1>2 DEF ChapterOK, LimitsNotLowered
<1>6. CASE job.blocks = <<>>
  <2>1. Chain(job, <<>>) /\ Len(<<>>) = 0
    BY EmptyChain
  <2>2. Through(job, <<>>) /\ ~AnyBlank(<<>>)
    BY <1>5, <1>6, <2>1, EmptySeq DEF Through, AnyBlank
  <2>3. Ended(job, <<>>, "complete")
    BY <2>2 DEF Ended
  <2> QED
    BY <1>1, <1>5, <1>6, <2>1, <2>3 DEF OnTrack
<1>7. ASSUME job.blocks # <<>>, Chain(job, kept), OpenEnd(kept), ~AtEnd(Resume),
             Resume \in Tokens, Resume = StartOf(kept, Len(kept) + 1)
      PROVE  OnTrack'
  <2>1. pages' = kept /\ outcome' = "paging"
    BY <1>1, <1>7
  <2>2. Reached(job, StartOf(kept, Len(kept) + 1), EmptyPage(Resume))
    BY <1>7, ReachedFirst
  <2>3. Len(kept) <= job.limit
    BY <1>2, <1>3, <1>4, <1>5
  <2> HIDE DEF kept
  <2> QED
    BY <1>1, <1>7, <2>1, <2>2, <2>3 DEF OnTrack
<1>8. CASE job.blocks # <<>> /\ Checkpoint = 0
  <2>1. kept = <<>>
    BY <1>4, <1>8, SeqShape
  <2>2. Resume = Position(1, 0)
    BY <1>8 DEF Resume
  <2>3. Len(job.blocks) \in Nat /\ Len(job.blocks) # 0
    BY <1>2, <1>8, EmptySeq DEF ChapterOK
  <2>4. ~AtEnd(Resume) /\ Resume \in Tokens /\ Resume = StartOf(kept, Len(kept) + 1)
    BY <1>4, <1>8, <2>2, <2>3 DEF AtEnd, Tokens, Position, StartOf
  <2> HIDE DEF kept
  <2> QED
    BY <1>7, <1>8, <2>1, <2>4, EmptyChain
<1>9. CASE job.blocks # <<>> /\ Checkpoint > 0
  <2>1. /\ Checkpoint \in 1 .. Len(previous.pages) /\ Resume = previous.pages[Checkpoint].next
        /\ Resume # None /\ ~AtEnd(Resume) /\ Chain(job, kept)
    BY <1>9, KeptIsCurrent
  <2> HIDE DEF kept
  <2>2. kept[Len(kept)].next = Resume /\ Len(kept) \in Nat \ {0} /\ Len(kept) \in DOMAIN kept
    BY <1>2, <1>4, <2>1, SeqShape
  <2>3. OpenEnd(kept) /\ Resume = StartOf(kept, Len(kept) + 1)
    BY <2>1, <2>2 DEF OpenEnd, StartOf
  <2>4. Resume \in Tokens
    BY <1>2, <2>1, <2>2, MadeBounds DEF Chain
  <2> QED
    BY <1>7, <1>9, <2>1, <2>3, <2>4
<1> QED
  BY <1>3, <1>6, <1>8, <1>9

\* What pagination makes of the edited chapter is known when it is repaginated, and
\* repagination is on the way to the same.
FullInv ==
  /\ EditInv /\ job \in Job
  /\ stage # "incremental" => OnTrack /\ tail = 0
  /\ stage # "previous" => PreviousThrough
  /\ stage = "incremental" =>
       /\ Ended(job, reference.pages, reference.outcome)
       /\ tail > 0 => outcome # "paging" /\ compared = Len(pages)
       /\ LimitsNotLowered /\ PrefixCurrent /\ TailCurrent => OnTrack

LEMMA InitFullInv == RepaginationInit => FullInv
<1> SUFFICES ASSUME RepaginationInit PROVE FullInv
  OBVIOUS
<1>1. PaginationInit /\ stage = "previous" /\ tail = 0
  BY DEF RepaginationInit
<1> QED
  BY <1>1, InitEditInv, InitOnTrack DEF FullInv, PaginationInit

LEMMA FieldsOf ==
  ASSUME EditInv
  PROVE  HasFields
<1>1. CASE stage = "incremental"
  BY <1>1 DEF EditInv, IncrementalInv, BuilderOK, HasFields
<1>2. CASE stage # "incremental"
  <2>1. page \in [start : Token, at : Token, y : Int, pending : Int, pieces : Seq(PagePiece)]
    BY <1>2 DEF EditInv, WholeInv, TextInv, PInv, PaginationTypeOK
  <2> QED
    BY <2>1 DEF HasFields
<1> QED
  BY <1>1, <1>2

LEMMA NextFullInv == FullInv /\ [RepaginationNext]_repaginationVars => FullInv'
<1> SUFFICES ASSUME FullInv, [RepaginationNext]_repaginationVars PROVE FullInv'
  OBVIOUS
<1>1. EditInv' /\ EditInv /\ ChapterOK(job) /\ HasFields
  BY NextEditInv, JobIsChapter, FieldsOf DEF FullInv
<1>2. CASE Paginate \/ UNCHANGED repaginationVars
  <2>1. /\ [PaginationNext]_paginationVars
        /\ UNCHANGED <<job, stage, previous, changed, reference, tail>>
        /\ stage = "incremental" => UNCHANGED compared
    <3>1. CASE Paginate
      BY <3>1, StepKinds DEF Paginate
    <3>2. CASE UNCHANGED repaginationVars
      BY <3>2 DEF repaginationVars, paginationVars
    <3> QED
      BY <1>2, <3>1, <3>2
  <2>2. OnTrack => OnTrack'
    BY <1>1, <2>1, NextOnTrack
  <2>3. /\ (LimitsNotLowered <=> LimitsNotLowered') /\ (PrefixCurrent <=> PrefixCurrent')
        /\ (PreviousThrough <=> PreviousThrough') /\ (TailCurrent <=> TailCurrent')
    <3>1. Dirty' = Dirty
      BY <2>1, SameEdit
    <3> QED
      BY <2>1, <3>1, SameConditions DEF TailCurrent
  <2>4. Ended(job, reference.pages, reference.outcome)
          => Ended(job', reference'.pages, reference'.outcome)
    BY <2>1
  <2>5. stage = "incremental" /\ tail > 0 => outcome' # "paging" /\ UNCHANGED pages
    <3> SUFFICES ASSUME stage = "incremental", tail > 0 PROVE outcome' # "paging" /\ UNCHANGED pages
      OBVIOUS
    <3>1. outcome # "paging"
      BY DEF FullInv
    <3> QED
      BY <2>1, <3>1, OnlyValidate DEF Validate, paginationVars
  <2> QED
    BY <1>1, <2>1, <2>2, <2>3, <2>4, <2>5 DEF FullInv
<1>3. CASE Edit
  <2>1. /\ stage = "previous" /\ stage' = "reference" /\ outcome = "complete" /\ tail' = tail
        /\ previous' = [job |-> job, pages |-> pages] /\ OnTrack /\ tail = 0
    BY <1>3 DEF Edit, FullInv
  <2>2. PICK new \in Editions :
          job' = new /\ outcome' = IF new.blocks = <<>> THEN "complete" ELSE "paging"
    BY <1>3 DEF Edit
  <2>3. PaginationInit'
    BY <1>3, <2>2, RepaginationAssumption DEF PaginationInit, Edit, Job, EmptyPage, Position
  <2>4. OnTrack'
    BY <2>3, InitOnTrack, PTL
  <2>5. Through(job, pages) /\ ~AnyBlank(pages)
    BY <1>1, <2>1, NotBoth DEF OnTrack, Ended
  <2>6. PreviousThrough'
    BY <2>1, <2>5 DEF PreviousThrough, FullInv, AnyBlank, Blank
  <2>7. job' \in Job
    BY <2>3 DEF PaginationInit
  <2> QED
    BY <1>1, <2>1, <2>4, <2>6, <2>7 DEF FullInv
<1>4. CASE Repaint \/ Repaginate
  <2>1. /\ stage = "reference" /\ stage' = "incremental" /\ outcome \in {"complete", "error"}
        /\ reference' = [outcome |-> outcome, pages |-> pages]
        /\ UNCHANGED <<job, previous, changed, tail>>
    BY <1>4 DEF Repaint, Repaginate, Start
  <2>2. PreviousThrough /\ PreviousOK /\ OnTrack /\ tail = 0 /\ job \in Job
    BY <2>1 DEF FullInv, EditInv
  <2>3. Ended(job', reference'.pages, reference'.outcome)
    BY <2>1, <2>2 DEF OnTrack
  <2>4. /\ (LimitsNotLowered <=> LimitsNotLowered') /\ (PrefixCurrent <=> PrefixCurrent')
        /\ PreviousThrough'
    BY <2>1, <2>2, SameConditions
  <2>5. LimitsNotLowered' /\ PrefixCurrent' => OnTrack'
    BY <1>4, <2>2, <2>4, RepaintOnTrack, RepaginateOnTrack
  <2> QED
    BY <1>1, <2>1, <2>2, <2>3, <2>4, <2>5 DEF FullInv
<1>5. CASE Compare
  <2>1. /\ stage = "incremental"
        /\ UNCHANGED <<job, pages, page, outcome, stage, previous, changed, reference, tail>>
        /\ compared < Len(pages)
    BY <1>5 DEF Compare, ToCompare
  <2>2. IsSeq(pages) /\ compared \in Nat
    BY <2>1 DEF FullInv, EditInv, IncrementalInv, BuilderOK, ComparedRebuilt
  <2>3. ~(tail > 0)
    BY <2>1, <2>2, SeqShape DEF FullInv
  <2>4. OnTrack => OnTrack'
    BY <2>1 DEF OnTrack
  <2>5. /\ (LimitsNotLowered <=> LimitsNotLowered') /\ (PrefixCurrent <=> PrefixCurrent')
        /\ (PreviousThrough <=> PreviousThrough')
    BY <2>1, SameConditions
  <2>6. TailCurrent
    BY <2>3 DEF TailCurrent
  <2> QED
    BY <1>1, <2>1, <2>3, <2>4, <2>5, <2>6 DEF FullInv
<1>6. CASE TakeTail
  <2>1. /\ stage = "incremental" /\ UNCHANGED <<job, stage, previous, changed, reference>>
        /\ outcome' = "built" /\ compared' = Len(pages') /\ compared < Len(pages)
    BY <1>6 DEF TakeTail, ToCompare
  <2>2. IsSeq(pages) /\ compared \in Nat /\ IncrementalInv
    BY <2>1 DEF FullInv, EditInv, IncrementalInv, BuilderOK, ComparedRebuilt
  <2>3. ~(tail > 0)
    BY <2>1, <2>2, SeqShape DEF FullInv
  <2>4. TailCurrent /\ PreviousThrough /\ job \in Job
    BY <2>1, <2>3 DEF TailCurrent, FullInv
  <2>5. /\ (LimitsNotLowered <=> LimitsNotLowered') /\ (PrefixCurrent <=> PrefixCurrent')
        /\ PreviousThrough'
    BY <2>1, <2>4, SameConditions
  <2>6. LimitsNotLowered' /\ PrefixCurrent' /\ TailCurrent' => OnTrack'
    BY <1>6, <2>1, <2>2, <2>4, <2>5, TailOnTrack DEF FullInv
  <2> QED
    BY <1>1, <2>1, <2>4, <2>5, <2>6 DEF FullInv
<1> QED
  BY <1>2, <1>3, <1>4, <1>5, <1>6 DEF RepaginationNext

(* Whatever the blocks, the height and the limits: incremental repagination *)
(* shows what full pagination shows, page by page, or fails as it fails,    *)
(* but for the edits IncrementalIsFull sets aside                           *)
(* (repaginate_incrementally).                                              *)
THEOREM RepaginationIsFull == RepaginationSpec => []IncrementalIsFull
<1>1. FullInv => IncrementalIsFull
  <2> SUFFICES ASSUME FullInv, Done, LimitsNotLowered, PrefixCurrent, TailCurrent PROVE AsReference
    BY DEF IncrementalIsFull
  <2>1. /\ Ended(job, reference.pages, reference.outcome) /\ Ended(job, pages, outcome)
        /\ ChapterOK(job)
    BY JobIsChapter DEF FullInv, Done, OnTrack
  <2> QED
    BY <2>1, EndedAlike DEF AsReference
<1> QED
  BY <1>1, InitFullInv, NextFullInv, PTL DEF RepaginationSpec
=============================================================================
