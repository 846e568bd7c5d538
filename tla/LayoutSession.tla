---------------------------- MODULE LayoutSession ----------------------------
(***************************************************************************)
(* One host-measured layout session: LayoutSession of                       *)
(* crates/pagelet/src/engine.rs over the progressive pagination             *)
(* (HostMeasuredPagination) of crates/pagelet/src/layout.rs.                *)
(*                                                                         *)
(* A chapter is a number of pages.  The page builder turns the break token  *)
(* of page k into page k and the token of page k + 1, so tokens and page    *)
(* scenes are page numbers here.  A page the builder cannot make (its       *)
(* fragments pass the limit) fails every time; a blank page, on which it     *)
(* found nothing to place, is built but fails the validation of the         *)
(* retained pages unless it is the last (module Pagination has when).       *)
(* Calls hold the session mutex, so they do not overlap; the loop of        *)
(* page_range is one step per page.                                         *)
(***************************************************************************)
EXTENDS Integers, Sequences

CONSTANTS
  MaxChapter,  \* bound on the pages of a chapter
  MaxLimit,    \* bound on LayoutOptions::max_pages
  MaxAsked     \* bound on the start and the length of the ranges asked for

ASSUME BoundsAssumption ==
  /\ MaxChapter \in Nat
  /\ MaxLimit \in Nat
  /\ MaxAsked \in Nat

VARIABLES
  chapter,    \* what the session was prepared for; it never changes
  at,         \* "idle", or the call whose page_range loop is running
  measured,   \* the session holds a pagination rather than a prepared layout
  token,      \* next_break_token: the next page to build, or None
  pages,      \* the page scenes of the retained document, in order
  complete,   \* PaginatedDocument::complete of the retained document
  request,    \* the PageRequest of the last layout call
  answer      \* what the last call returned

sessionVars == <<chapter, at, measured, token, pages, complete, request, answer>>

None == -1

\* A chapter's pages, those that cannot be built, the blank ones, and the page limit.
Chapter == [pages : 0 .. MaxChapter, failing : SUBSET (0 .. MaxChapter - 1),
            blank : SUBSET (0 .. MaxChapter - 1), limit : 0 .. MaxLimit]

PageRequest == [start : 0 .. MaxAsked, count : 0 .. MaxAsked]

RequestedEnd == request.start + request.count

Error == [state |-> "error", pages |-> <<>>, complete |-> FALSE]
NeedMeasurements == [state |-> "need_measurements", pages |-> <<>>, complete |-> FALSE]
Complete == [state |-> "complete", pages |-> <<>>, complete |-> TRUE]

SessionInit ==
  /\ chapter \in Chapter
  /\ at = "idle"
  /\ measured = FALSE
  /\ token = None
  /\ pages = <<>>
  /\ complete = FALSE
  /\ request = [start |-> 0, count |-> MaxAsked]
  /\ answer = NeedMeasurements

-----------------------------------------------------------------------------
(* The two calls *)

\* LayoutSession::layout: records the range, then asks for measurements,
\* reports the end of the chapter, or starts paginating the range.
Layout(req) ==
  /\ at = "idle"
  /\ request' = req
  /\ IF ~measured THEN answer' = NeedMeasurements /\ UNCHANGED at
     ELSE IF complete /\ req.start >= Len(pages) THEN answer' = Complete /\ UNCHANGED at
     ELSE at' = "layout" /\ UNCHANGED answer
  /\ UNCHANGED <<chapter, measured, token, pages, complete>>

\* The token of the page after this one, if the chapter goes on.
TokenAfter(page) == IF page + 1 < chapter.pages THEN page + 1 ELSE None

\* LayoutSession::submit_measurements: valid measurements make a pagination
\* that the session keeps only once its first range is paginated.
Submit(valid) ==
  /\ at = "idle"
  /\ IF measured THEN answer' = Complete /\ UNCHANGED <<at, token, complete>>
     ELSE IF ~valid THEN answer' = Error /\ UNCHANGED <<at, token, complete>>
     ELSE /\ at' = "submit"
          /\ token' = TokenAfter(None)
          /\ complete' = (TokenAfter(None) = None)
          /\ UNCHANGED answer
  /\ UNCHANGED <<chapter, measured, pages, request>>

-----------------------------------------------------------------------------
(* page_range *)

Wanting == at # "idle" /\ Len(pages) < RequestedEnd /\ token # None

\* Mutant of BuildPage: the limit is passed by one page.
BuildPagePastLimit ==
  /\ Wanting
  /\ Len(pages) <= chapter.limit
  /\ token \notin chapter.failing
  /\ pages' = Append(pages, token)
  /\ token' = TokenAfter(token)
  /\ UNCHANGED <<chapter, at, measured, complete, request, answer>>

\* One page more: paginate_page_from_blocks and the push of its scene.
BuildPage ==
  /\ Wanting
  /\ Len(pages) < chapter.limit
  /\ token \notin chapter.failing
  /\ pages' = Append(pages, token)
  /\ token' = TokenAfter(token)
  /\ UNCHANGED <<chapter, at, measured, complete, request, answer>>

\* Mutant of Fail: an error drops the retained document too.
FailAndDrop(kept) ==
  /\ answer' = Error
  /\ at' = "idle"
  /\ token' = None /\ pages' = <<>> /\ complete' = FALSE
  /\ UNCHANGED <<chapter, measured, request>>

\* An error drops the pagination of a submission, and otherwise keeps the
\* document as the loop left it, with its break token kept or taken.
Fail(kept) ==
  /\ answer' = Error
  /\ at' = "idle"
  /\ IF at = "submit" THEN token' = None /\ pages' = <<>> /\ complete' = FALSE
                      ELSE token' = kept /\ UNCHANGED <<pages, complete>>
  /\ UNCHANGED <<chapter, measured, request>>

\* Mutant of PageLimit: the token is not given back.
PageLimitTaken == Wanting /\ Len(pages) >= chapter.limit /\ Fail(None)

\* The page limit is reached with the chapter unfinished: the token goes back.
PageLimit == Wanting /\ Len(pages) >= chapter.limit /\ Fail(token)

\* The page cannot be built: the token was taken for it.
PageError ==
  Wanting /\ Len(pages) < chapter.limit /\ token \in chapter.failing /\ Fail(None)

\* Mutant of Slice: the last page of the range is left out.
SliceShort(from, to) ==
  LET end == IF to < Len(pages) THEN to ELSE Len(pages) IN SubSeq(pages, from + 1, end - 1)

\* The pages retained so far that a range covers.
Slice(from, to) ==
  LET end == IF to < Len(pages) THEN to ELSE Len(pages) IN SubSeq(pages, from + 1, end)

\* validate_layout_invariants refuses the retained pages.
Refused == \E i \in 1 .. Len(pages) : i < chapter.pages /\ i - 1 \in chapter.blank

\* The pages are built and refused: a submission drops its pagination, and a
\* layout call keeps it, marked complete or not.
Refuse ==
  /\ at # "idle" /\ ~Wanting /\ Refused
  /\ at' = "idle"
  /\ answer' = Error
  /\ IF at = "submit" THEN token' = None /\ pages' = <<>> /\ complete' = FALSE
                      ELSE complete' = (token = None) /\ UNCHANGED <<token, pages>>
  /\ UNCHANGED <<chapter, measured, request>>

\* Mutant of Finish: the retained document's completion is not updated.
FinishUnmarked ==
  /\ at # "idle" /\ ~Wanting /\ ~Refused
  /\ at' = "idle"
  /\ measured' = TRUE
  /\ answer' = [state |-> "pages", pages |-> Slice(request.start, RequestedEnd),
                complete |-> token = None]
  /\ UNCHANGED <<chapter, token, pages, complete, request>>

\* The range is covered, or the token is spent.
Finish ==
  /\ at # "idle" /\ ~Wanting /\ ~Refused
  /\ at' = "idle"
  /\ measured' = TRUE
  /\ complete' = (token = None)
  /\ answer' = [state |-> "pages", pages |-> Slice(request.start, RequestedEnd),
                complete |-> complete']
  /\ UNCHANGED <<chapter, token, pages, request>>

-----------------------------------------------------------------------------

Continue == BuildPage \/ PageLimit \/ PageError \/ Refuse \/ Finish

SessionNext ==
  \/ \E req \in PageRequest : Layout(req)
  \/ \E valid \in BOOLEAN : Submit(valid)
  \/ Continue

SessionSpec == SessionInit /\ [][SessionNext]_sessionVars

\* A reader that, once measured, keeps asking for the page after those it has.
ReadOn == measured /\ ~complete /\ Layout([start |-> Len(pages), count |-> 1])

\* Calls run to their end, and such a reader does not stop half way.
ReadingSpec ==
  SessionSpec /\ WF_sessionVars(Continue) /\ SF_sessionVars(ReadOn)

-----------------------------------------------------------------------------
(* Properties *)

SessionTypeOK ==
  /\ chapter \in Chapter
  /\ at \in {"idle", "layout", "submit"}
  /\ measured \in BOOLEAN
  /\ token \in {None} \cup 0 .. chapter.pages - 1
  /\ pages \in Seq(0 .. chapter.pages - 1)
  /\ complete \in BOOLEAN
  /\ request \in PageRequest
  /\ answer.state \in {"error", "need_measurements", "complete", "pages"}

(* However a host asked for its ranges, the retained document is a prefix   *)
(* of the chapter: page by page in order, none missing and none twice.      *)
PagesArePrefix ==
  /\ Len(pages) <= chapter.pages
  /\ Len(pages) <= chapter.limit
  /\ \A i \in 1 .. Len(pages) : pages[i] = i - 1

\* What a host has last been told is the end.
SaidComplete == complete \/ (answer.state = "pages" /\ answer.complete)

(* "True when pagination reached chapter end" (PaginatedDocument::complete).*)
CompleteMeansChapterEnd == SaidComplete => Len(pages) = chapter.pages

\* The break token was taken for a page that could not be built, and is lost.
TokenLost == token = None /\ Len(pages) \in chapter.failing

(* The chapter is reported complete only at its end or where a page failed. *)
CompleteUnlessLost == SaidComplete => Len(pages) = chapter.pages \/ TokenLost

(* A range is answered with exactly the pages full pagination of the        *)
(* chapter has in it, whatever was asked for or retained before, and even   *)
(* after errors that did not lose the token.                                *)
AnswerIsFullPagination ==
  at = "idle" /\ answer.state = "pages" /\ ~TokenLost =>
    LET end == IF RequestedEnd < chapter.pages THEN RequestedEnd ELSE chapter.pages
        full == [i \in 1 .. chapter.pages |-> i - 1]
    IN  answer.pages = SubSeq(full, request.start + 1, end)

(* Accepted page scenes stay owned by the session: no call, and no error,   *)
(* takes back or replaces a page it has handed out.                         *)
RetainedPagesStay ==
  [][measured => /\ measured'
                 /\ Len(pages') >= Len(pages)
                 /\ SubSeq(pages', 1, Len(pages)) = pages]_sessionVars

(* A host that keeps asking for the next page reaches the end of a chapter  *)
(* within the page limit whose pages can all be built.                      *)
ReaderReachesEnd ==
  measured /\ chapter.failing = {} /\ chapter.pages <= chapter.limit ~> complete
=============================================================================
