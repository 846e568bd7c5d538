--------------------------- MODULE FlutterSessions ---------------------------
(***************************************************************************)
(* The Dart objects that stand for native handles                           *)
(* (packages/pagelet_flutter/lib/src: engine.dart, book_session.dart,       *)
(* chapter_session.dart and layout_session.dart), over the handle registry. *)
(*                                                                         *)
(* Each object owns the ones opened under it, and disposing of it marks      *)
(* them all as disposed with one native call.  In Dart a layout belongs to  *)
(* its chapter; natively it belongs to the book.  Dart has one thread, so a  *)
(* call is one step.  An object is known by its handle, and handles are      *)
(* never used again.                                                        *)
(***************************************************************************)
EXTENDS HandleRegistry

VARIABLES
  open,    \* the handles whose objects are not disposed
  opener   \* handle -> the handle of the object that opened it

sessionVars == <<open, opener>>

SessionsInit == RegistryInit /\ open = {} /\ opener = [h \in {} |-> NoParent]

\* _requireHandle, and the object that keeps the new handle.
Keeps(kind, owner) ==
  /\ open' = open \cup {NextToken(kind)}
  /\ opener' = [h \in DOMAIN opener \cup {NextToken(kind)} |-> IF h = NextToken(kind) THEN owner ELSE opener[h]]

CreateEngine == InsertEngine /\ Keeps("Engine", NoParent)
OpenBook(engine) == engine \in open /\ InsertBook(engine) /\ Keeps("Book", engine)
OpenChapter(book) == book \in open /\ InsertChapter(book) /\ Keeps("Chapter", book)
CreateLayout(chapter) ==
  /\ chapter \in open /\ RequireKind(chapter, "Chapter")
  /\ InsertLayoutSession(entries[chapter].parent) /\ Keeps("LayoutSession", chapter)

\* A request has no object of its own: the host holds its handle.
RequestsOf(layout) == {r \in LiveOf("Request") : entries[r].parent = layout}
RequestPages(layout) ==
  layout \in open /\ RequestsOf(layout) = {} /\ InsertRequest(layout) /\ UNCHANGED sessionVars
\* Any open layout passes any request on; submitting and cancelling retire it.
Retires(layout, request) ==
  /\ layout \in open /\ RequireKind(layout, "LayoutSession")
  /\ Dispose(request, "Request") /\ UNCHANGED sessionVars

Below(h) == {k \in open : opener[k] = h}
\* Mutant of Owned: what its chapters opened stays open.
OwnedNearby(h) == {h} \cup Below(h) \cup UNION {Below(k) : k \in Below(h)}
\* _markDisposedByOwner: the object and all that was opened under it.
Owned(h) ==
  OwnedNearby(h) \cup UNION {UNION {Below(l) : l \in Below(k)} : k \in Below(h)}

\* dispose: one native call; the objects change once it has succeeded.
DisposeObject(h) ==
  /\ h \in open
  /\ Dispose(h, "Any")
  /\ open' = open \ Owned(h)
  /\ UNCHANGED opener

SessionsOpen ==
  \/ CreateEngine
  \/ \E h \in open : OpenBook(h) \/ OpenChapter(h) \/ CreateLayout(h) \/ RequestPages(h)
SessionsClose ==
  \E h \in open : DisposeObject(h) \/ \E r \in LiveOf("Request") : Retires(h, r)

SessionsNext == SessionsOpen \/ SessionsClose

SessionsSpec == SessionsInit /\ [][SessionsNext]_<<registryVars, sessionVars>>

-----------------------------------------------------------------------------
(* Properties *)

(* Objects and handles keep step: what an object that is not disposed stands *)
(* for is alive, and what is alive can be disposed of through an object that *)
(* is not, or goes with its book: a layout whose chapter was disposed of     *)
(* (chapter_session.dart marks it disposed, but natively the book owns it)   *)
(* or a request.                                                             *)
SessionsTrackHandles ==
  /\ \A h \in open : h \in Live /\ (entries[h].kind # "Engine" => opener[h] \in open)
  /\ \A t \in Live \ open :
       \/ entries[t].kind = "Request"
       \/ entries[t].kind = "LayoutSession" /\ opener[t] \notin open /\ entries[t].parent \in open
=============================================================================
