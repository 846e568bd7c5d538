---------------------------- MODULE ReaderLoads ----------------------------
(***************************************************************************)
(* The reader of packages/pagelet_flutter/example/lib/pagelet_reader.dart,  *)
(* a host of the Flutter package: it loads the first chapter anew whenever  *)
(* its book or its layout changes, keeps what it loaded until the next       *)
(* change, and finds the text under a tap.                                  *)
(*                                                                         *)
(* A change asks for a load; the load itself is one event of the loop, and   *)
(* loads run in the order they were asked for.  Between two events the       *)
(* reader may be changed again, tapped or closed.  A load calls the package  *)
(* step by step and may fail at any step.                                    *)
(***************************************************************************)
EXTENDS FlutterSessions, Sequences

CONSTANT MaxChanges   \* how often the reader is changed

VARIABLES
  mounted,      \* the reader is on the screen
  generation,   \* _generation: the last load asked for
  asked,        \* the loads that have not run, by generation
  loading,      \* the load that runs: its objects so far
  document,     \* _document, <<>> for none
  failed,       \* _error: the generation whose failure is shown, 0 for none
  painters,     \* the generations whose painters are not disposed
  tapped        \* the selection: the generation of the page and of the document

readerVars == <<mounted, generation, asked, loading, document, failed, painters, tapped>>
loadVars == <<registryVars, sessionVars, readerVars>>

NoLoad == [generation |-> 0, engine |-> 0, book |-> 0, chapter |-> 0, layout |-> 0, request |-> 0, at |-> "none"]
Started(g) == [NoLoad EXCEPT !.generation = g, !.at = "engine"]
Running == loading.at # "none"

\* initState asks for the first load; 0 is a reader that is never opened.
ReaderStarts(first) ==
  /\ SessionsInit
  /\ mounted = (first > 0) /\ generation = first /\ asked = IF first > 0 THEN <<first>> ELSE <<>>
  /\ loading = NoLoad /\ document = <<>> /\ failed = 0 /\ painters = {} /\ tapped = <<>>

ReaderInit == ReaderStarts(1)

Close(engine) == Dispose(engine, "Any") /\ open' = open \ Owned(engine) /\ UNCHANGED opener
\* _ReaderDocument.dispose, if there is one
Discards ==
  IF document = <<>> THEN UNCHANGED <<registryVars, sessionVars, painters>>
  ELSE Close(document[1].engine) /\ painters' = painters \ {document[1].generation}

\* didUpdateWidget: the book or the layout changed.
Change ==
  /\ mounted /\ ~Running /\ generation <= MaxChanges
  /\ generation' = generation + 1 /\ asked' = Append(asked, generation + 1)
  /\ document' = <<>> /\ failed' = 0
  /\ Discards
  /\ UNCHANGED <<mounted, loading, tapped>>

Unmount ==
  /\ mounted /\ ~Running
  /\ mounted' = FALSE /\ generation' = generation + 1
  /\ Discards
  /\ UNCHANGED <<asked, loading, document, failed, tapped>>

-----------------------------------------------------------------------------
(* _loadDocument *)

Begin ==
  /\ ~Running /\ asked # <<>>
  /\ loading' = Started(Head(asked)) /\ asked' = Tail(asked)
  /\ UNCHANGED <<registryVars, sessionVars, mounted, generation, document, failed, painters, tapped>>

ReaderRests == UNCHANGED <<mounted, generation, asked, document, failed, tapped>>
Step(at, next, field, token) ==
  /\ loading.at = at
  /\ loading' = [loading EXCEPT !.at = next, ![field] = token]
  /\ ReaderRests

LoadEngine == Step("engine", "book", "engine", NextToken("Engine")) /\ CreateEngine /\ UNCHANGED painters
LoadBook == Step("book", "chapter", "book", NextToken("Book")) /\ OpenBook(loading.engine) /\ UNCHANGED painters
LoadChapter == Step("chapter", "layout", "chapter", NextToken("Chapter")) /\ OpenChapter(loading.book) /\ UNCHANGED painters
LoadLayout == Step("layout", "request", "layout", NextToken("LayoutSession")) /\ CreateLayout(loading.chapter) /\ UNCHANGED painters
\* requestPages of a layout that has no pages yet always asks for measurements.
LoadRequest == Step("request", "measure", "request", NextToken("Request")) /\ RequestPages(loading.layout) /\ UNCHANGED painters
\* The batch is measured, keeps its painters, and is submitted.
Measure ==
  /\ Step("measure", "submit", "request", loading.request)
  /\ painters' = painters \cup {loading.generation}
  /\ UNCHANGED <<registryVars, sessionVars>>
SubmitMeasured ==
  Step("submit", "pages", "request", 0) /\ Retires(loading.layout, loading.request) /\ UNCHANGED painters

LoadFailed == IF mounted THEN failed' = loading.generation ELSE UNCHANGED failed
\* What is thrown disposes of the painters and of the engine, if there is one.
Fail ==
  /\ Running
  /\ loading' = NoLoad
  /\ painters' = painters \ {loading.generation}
  /\ IF loading.engine = 0 THEN UNCHANGED <<registryVars, sessionVars>> ELSE Close(loading.engine)
  /\ LoadFailed
  /\ UNCHANGED <<mounted, generation, asked, document, tapped>>

\* Mutant of Wanted: forgets that the reader may have been changed.
WantedMounted(g) == mounted
\* A document that comes too late is disposed of, any other one is shown.
Wanted(g) == mounted /\ g = generation
Show ==
  /\ loading.at = "pages" /\ Wanted(loading.generation)
  /\ document' = <<loading>> /\ loading' = NoLoad
  /\ UNCHANGED <<registryVars, sessionVars, mounted, generation, asked, failed, painters, tapped>>
DiscardLate ==
  /\ loading.at = "pages" /\ ~Wanted(loading.generation)
  /\ Close(loading.engine) /\ painters' = painters \ {loading.generation}
  /\ loading' = NoLoad
  /\ UNCHANGED <<mounted, generation, asked, document, failed, tapped>>

\* _handleTap on text: the layout of the document at hand is asked about a
\* page that was drawn before.
Tap ==
  /\ mounted /\ ~Running /\ document # <<>>
  /\ document[1].layout \in open
  /\ \E page \in 1..document[1].generation : tapped' = <<page, document[1].generation>>
  /\ UNCHANGED <<registryVars, sessionVars, mounted, generation, asked, loading, document, failed, painters>>

ReaderNext ==
  \/ Change \/ Unmount \/ Begin
  \/ LoadEngine \/ LoadBook \/ LoadChapter \/ LoadLayout \/ LoadRequest \/ Measure \/ SubmitMeasured
  \/ Fail \/ Show \/ DiscardLate \/ Tap

ReaderSpec == ReaderInit /\ [][ReaderNext]_loadVars

-----------------------------------------------------------------------------
(* Properties *)

(* The reader holds on to one document at most.  When no load runs, the       *)
(* engines and painters that are alive are those of the document that is     *)
(* shown, which answers to the last change, and a reader that was closed      *)
(* has none, whatever loads overlapped or failed ("generation != _generation" *)
(* and the disposals in pagelet_reader.dart).                                *)
ReaderKeepsOneDocument ==
  ~Running /\ generation > 0 =>
    LET shown == IF mounted THEN document ELSE <<>>
    IN  /\ LiveOf("Engine") = {d.engine : d \in {shown[i] : i \in DOMAIN shown}}
        /\ painters = {d.generation : d \in {shown[i] : i \in DOMAIN shown}}
        /\ shown # <<>> => shown[1].generation = generation /\ shown[1].layout \in open /\ RequestsOf(shown[1].layout) = {}
        /\ shown = <<>> => Live = {}
=============================================================================
