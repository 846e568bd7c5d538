---------------------------- MODULE Repagination ----------------------------
(***************************************************************************)
(* Incremental repagination (repaginate_incrementally in                    *)
(* crates/pagelet/src/layout.rs): after an edit, pages before the edit are  *)
(* kept, pages are built from there, and once two in a row equal those of   *)
(* the previous result the rest of that result is taken over.               *)
(*                                                                         *)
(* A behaviour paginates a chapter, edits it, paginates the edited chapter  *)
(* from scratch for reference, and then repaginates it incrementally.  All  *)
(* three build pages with the steps of Pagination.  A block is known by its *)
(* place in the chapter.                                                    *)
(***************************************************************************)
EXTENDS Pagination, FiniteSetsExt

CONSTANTS
  Editions,   \* the chapters, with their options, that are edited and that edits make
  MaxEdits    \* bound on what an edit changes at once

ASSUME RepaginationAssumption == Editions \subseteq Job /\ MaxEdits \in Nat

VARIABLES
  stage,      \* "previous", "reference", "incremental"
  previous,   \* the previous result: [job, pages]
  changed,    \* what else the edit changed
  reference,  \* what full pagination makes of the edited chapter: [outcome, pages]
  compared,   \* pages compared with the previous result, or taken from it
  streak,     \* how many of the last of them are equal
  tail        \* the first page of the tail taken over, or 0

repaginationVars ==
  <<job, pages, page, outcome, stage, previous, changed, reference, compared, streak,
    tail>>

Unset == [job |-> <<>>, pages |-> <<>>]

RepaginationInit ==
  /\ PaginationInit
  /\ stage = "previous"
  /\ previous = Unset /\ changed = {} /\ reference = [outcome |-> "paging", pages |-> <<>>]
  /\ compared = 0 /\ streak = 0 /\ tail = 0

-----------------------------------------------------------------------------
(* The edit *)

\* Engine versions; fonts or page width; inputs of the chapter that are not blocks.
Inputs == {"versions", "metrics", "chapter"}

\* The positions at which two chapters differ.
Differing(old, new) ==
  {i \in 1 .. Len(old) + Len(new) :
     /\ i <= Len(old) \/ i <= Len(new)
     /\ i <= Len(old) /\ i <= Len(new) => old[i] # new[i]}

\* How much an edit changes of the blocks and the options.
Size(new) ==
  Cardinality(Differing(job.blocks, new.blocks))
    + Cardinality({f \in {"height", "fragments", "limit"} : job[f] # new[f]})

Edit ==
  /\ stage = "previous" /\ outcome = "complete" /\ job \in Editions
  /\ \E new \in Editions :
       /\ Size(new) <= MaxEdits
       /\ \E inputs \in SUBSET Inputs :
            Size(new) + Cardinality(inputs) <= MaxEdits /\ changed' = inputs
       /\ job' = new
       /\ outcome' = IF new.blocks = <<>> THEN "complete" ELSE "paging"
  /\ previous' = [job |-> job, pages |-> pages]
  /\ pages' = <<>> /\ page' = EmptyPage(Position(1, 0))
  /\ stage' = "reference"
  /\ UNCHANGED <<reference, compared, streak, tail>>

-----------------------------------------------------------------------------
(* What is kept of the previous result *)

Dirty == Differing(previous.job.blocks, job.blocks)

SameLimits == job.fragments = previous.job.fragments /\ job.limit = previous.job.limit

\* classify_layout_impact: the cases that keep pages.
Reparse ==
  \/ "versions" \in changed \/ ~SameLimits
  \/ "metrics" \notin changed /\ (Dirty # {} \/ "chapter" \in changed)

PaintOnly ==
  changed = {} /\ SameLimits /\ Dirty = {} /\ job.height = previous.job.height

\* first_dirty_block
FirstDirty == IF Reparse /\ Dirty # {} THEN Min(Dirty) ELSE 1

Showing(block) ==
  {i \in DOMAIN previous.pages :
     \E k \in DOMAIN previous.pages[i].pieces : previous.pages[i].pieces[k].block = block}

\* The previous pages that end at or after the block.
Reaching(block) ==
  {i \in DOMAIN previous.pages :
     previous.pages[i].next = None \/ previous.pages[i].next.block >= block}

\* Mutant of Checkpoint: the page that shows the edited block is kept as well.
CheckpointAfter ==
  IF ~Reparse \/ previous.pages = <<>> THEN 0
  ELSE IF Showing(FirstDirty) # {} THEN Min(Showing(FirstDirty))
  ELSE Min(Reaching(FirstDirty)) - 1

\* checkpoint_for_dirty_block: how many pages are kept.
Checkpoint ==
  IF ~Reparse \/ previous.pages = <<>> THEN 0
  ELSE IF Showing(FirstDirty) # {} THEN Min(Showing(FirstDirty)) - 1
  ELSE LET end == Min(Reaching(FirstDirty)) IN
       IF previous.pages[end].next = Position(FirstDirty, 0) THEN end ELSE end - 1

SameBlock(b) == b \in DOMAIN previous.job.blocks /\ previous.job.blocks[b] = job.blocks[b]

\* checkpoint_token: where the first page to be built starts.
Resume ==
  IF Checkpoint = 0 THEN Position(1, 0)
  ELSE LET token == previous.pages[Checkpoint].next IN
       IF token = None \/ AtEnd(token) THEN Position(FirstDirty, 0)
       ELSE IF SameBlock(token.block) THEN token
       ELSE Position(token.block, 0)

Start ==
  /\ stage = "reference" /\ outcome \in {"complete", "error"}
  /\ reference' = [outcome |-> outcome, pages |-> pages]
  /\ stage' = "incremental"
  /\ UNCHANGED <<job, previous, changed, streak, tail>>

\* The previous result is taken over as it is.
Repaint ==
  /\ Start /\ PaintOnly
  /\ pages' = previous.pages /\ compared' = Len(previous.pages)
  /\ outcome' = "built"
  /\ UNCHANGED page

Repaginate ==
  /\ Start /\ ~PaintOnly
  /\ pages' = IF job.blocks = <<>> THEN <<>> ELSE SubSeq(previous.pages, 1, Checkpoint)
  /\ compared' = Len(pages')
  /\ page' = EmptyPage(Resume)
  /\ outcome' = IF job.blocks = <<>> THEN "complete"
                ELSE IF AtEnd(Resume) THEN "built" ELSE "paging"

-----------------------------------------------------------------------------
(* Comparing pages *)

\* Mutant of Matches: equal tokens are enough.
MatchesNext(i) ==
  /\ changed \cap {"versions", "metrics"} = {} /\ job.height = previous.job.height
  /\ i \in DOMAIN previous.pages
  /\ pages[i].next = previous.pages[i].next

\* page_matches_for_tail_reuse
Matches(i) ==
  /\ changed \cap {"versions", "metrics"} = {} /\ job.height = previous.job.height
  /\ i \in DOMAIN previous.pages
  /\ pages[i].pieces = previous.pages[i].pieces
  /\ pages[i].next = previous.pages[i].next

ToCompare == stage = "incremental" /\ compared < Len(pages) /\ outcome # "error"

Compare ==
  /\ ToCompare
  /\ ~Matches(compared + 1) \/ streak = 0
  /\ compared' = compared + 1
  /\ streak' = IF Matches(compared + 1) THEN 1 ELSE 0
  /\ UNCHANGED <<job, pages, page, outcome, stage, previous, changed, reference, tail>>

\* The second equal page in a row: both are dropped, and the previous result from the
\* first of them on is attached.
TakeTail ==
  /\ ToCompare
  /\ Matches(compared + 1) /\ streak = 1
  /\ pages' = SubSeq(pages, 1, compared - 1)
                \o SubSeq(previous.pages, compared, Len(previous.pages))
  /\ compared' = Len(pages') /\ tail' = compared
  /\ outcome' = "built"
  /\ UNCHANGED <<job, page, stage, previous, changed, reference, streak>>

\* The loop of full pagination, in any stage.
Paginate ==
  /\ PaginationNext /\ ~ToCompare
  /\ compared' = IF stage = "incremental" THEN compared ELSE 0
  /\ UNCHANGED <<stage, previous, changed, reference, streak, tail>>

RepaginationNext == Paginate \/ Edit \/ Repaint \/ Repaginate \/ Compare \/ TakeTail

RepaginationSpec == RepaginationInit /\ [][RepaginationNext]_repaginationVars

-----------------------------------------------------------------------------
(* Properties *)

FromScratch == stage # "incremental" /\ outcome # "paging"

\* When pagination from scratch ends, every line and box is on one page, in order.  Pages
\* kept from before an edit may be otherwise.
TextKept == FromScratch => NothingLostOrRepeated

\* No page holds more fragments than the limit (layout.rs:2580), but for the marker of the
\* list item it ends with.
FragmentsWithinLimit == \A i \in DOMAIN pages : WithinLimit(pages[i].pieces)

\* Content passes the bottom of a page only where it must or a negative padding draws the
\* page's content up; nothing overlaps where no margin or padding is negative; single lines
\* are left only where no more fit (PageBuilder::push_text_block); and the limit on
\* fragments holds but for the marker of the list item a page ends with.
PlacementSound ==
  FromScratch => OverflowExcused /\ NoOverlap /\ SingleLines /\ FragmentsWithinLimit

Done == stage = "incremental" /\ outcome \in {"complete", "error"}

Scenes(sheets) == [i \in DOMAIN sheets |-> [pieces |-> sheets[i].pieces, next |-> sheets[i].next]]

LimitsNotLowered ==
  job.fragments >= previous.job.fragments /\ job.limit >= previous.job.limit

\* Pages kept before the edit were laid out as the edited chapter is, and the edited block
\* was not the one whose size or breaks ended them.
PrefixCurrent ==
  Checkpoint > 0 =>
    /\ changed \cap {"versions", "metrics"} = {} /\ job.height = previous.job.height
    /\ Resume.block # FirstDirty

\* The tail was taken over where every edit is behind: the rest of the chapter is unchanged.
TailCurrent ==
  tail > 0 /\ previous.pages[tail].next # None =>
    \A block \in Dirty : block < previous.pages[tail].next.block

AsReference ==
  /\ outcome = reference.outcome
  /\ outcome = "complete" => Scenes(pages) = Scenes(reference.pages)

\* Incremental repagination shows what full pagination shows, or fails as it fails, unless
\* an edit was still ahead where a tail was taken over, the edited block was first on the
\* page that is rebuilt, the page height or an engine version changed together with a
\* block, or limits were lowered.
IncrementalIsFull ==
  Done /\ LimitsNotLowered /\ PrefixCurrent /\ TailCurrent => AsReference

\* Whatever else changed, the first edited block is never shown as it was: neither by a page
\* kept from before the edit nor by a tail.
FirstEditShown ==
  Done /\ outcome = "complete" /\ Dirty # {} =>
    \A i \in DOMAIN pages : \A k \in DOMAIN pages[i].pieces :
      LET p == pages[i].pieces[k]
      IN  p.block = Min(Dirty) =>
            p.block \in DOMAIN job.blocks /\ p.content = job.blocks[p.block].content

\* "a transient boundary match cannot attach an incompatible remainder" (layout.rs:1629):
\* a tail that is taken over is the rest of the chapter.
RemainderCompatible ==
  Done /\ LimitsNotLowered /\ PrefixCurrent /\ tail > 0 => AsReference
=============================================================================
