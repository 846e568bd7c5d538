---------------------------- MODULE ControlPlane ----------------------------
(***************************************************************************)
(* The typed control plane (crates/pagelet/src/ffi/control.rs) over the     *)
(* handle registry, with the layout sessions it shares                      *)
(* (crates/pagelet/src/engine.rs).                                          *)
(*                                                                         *)
(* Several host threads call at once.  The registry mutex is taken anew for *)
(* every resolution and every insertion, and each layout session has its    *)
(* own mutex, so a call is one step per critical section, and the steps of  *)
(* different calls interleave.  A handle that fails to resolve ends the     *)
(* call with an error and changes nothing; calls that only read are left    *)
(* out, their first resolution being all the state they touch.              *)
(***************************************************************************)
EXTENDS HandleRegistry

CONSTANTS
  Threads,       \* host threads
  Ranges,        \* page ranges a host asks for (PageRequest)
  DefaultRange   \* PageRequest::default

ASSUME DefaultRangeAssumption == DefaultRange \in Ranges

VARIABLES
  frame,    \* thread -> what its current call holds between critical sections
  session,  \* layout token -> the LayoutSession behind its Arc<Mutex<_>>
  rangeOf   \* history: request token -> the range it was created for

controlVars == <<registryVars, frame, session, rangeOf>>

Labels == {"idle", "book_insert", "chapter_insert",
           "layout_resolve", "layout_insert",
           "request_resolve", "request_layout", "request_insert",
           "submit_check", "submit_request", "submit_session", "submit_apply",
           "submit_retire", "cancel_set", "cancel_retire"}

Frame == [at : Labels,
          handle : Nat,        \* the handle the call was given
          owner : Nat,         \* a handle it resolved on the way
          range : Ranges,      \* the range it asks for
          result : {"none", "error", "complete", "pages"},
          late : BOOLEAN]      \* history: already cancelled when the call began

Idle == [at |-> "idle", handle |-> NoParent, owner |-> NoParent,
         range |-> DefaultRange, result |-> "none", late |-> FALSE]

\* A layout session: whether its pagination exists, and the range of the last
\* layout call.  History: the request whose submission brought the pages, and
\* the range they were made for.
Session == [phase : {"prepared", "paginated"}, range : Ranges,
            accepted : Nat, answered : Ranges]

Prepared == [phase |-> "prepared", range |-> DefaultRange,
             accepted |-> NoParent, answered |-> DefaultRange]

ControlInit ==
  /\ RegistryInit
  /\ frame = [t \in Threads |-> Idle]
  /\ session = [s \in {} |-> Prepared]
  /\ rangeOf = [r \in {} |-> DefaultRange]

At(t, label) == frame[t].at = label

Begin(t, label, handle) ==
  /\ At(t, "idle")
  /\ frame' = [frame EXCEPT ![t] = [Idle EXCEPT !.at = label, !.handle = handle]]

Goto(t, label) == frame' = [frame EXCEPT ![t].at = label]

Return(t) == frame' = [frame EXCEPT ![t] = Idle]

Extend(f, x, v) == [y \in DOMAIN f \cup {x} |-> IF y = x THEN v ELSE f[y]]

-----------------------------------------------------------------------------
(* Building the tree *)

EngineCreate(t) ==
  At(t, "idle") /\ InsertEngine /\ UNCHANGED <<frame, session, rangeOf>>

\* book_open_path and book_open_fd: resolve the engine, parse the EPUB with
\* no lock held, then insert under the engine if it is still live.
BookResolve(t, engine) ==
  /\ RequireKind(engine, "Engine")
  /\ Begin(t, "book_insert", engine)
  /\ UNCHANGED <<registryVars, session, rangeOf>>

BookInsert(t) ==
  /\ At(t, "book_insert")
  /\ InsertBook(frame[t].handle) \/ UNCHANGED registryVars \* or opening failed
  /\ Return(t)
  /\ UNCHANGED <<session, rangeOf>>

ChapterResolve(t, book) ==
  /\ RequireKind(book, "Book")
  /\ Begin(t, "chapter_insert", book)
  /\ UNCHANGED <<registryVars, session, rangeOf>>

ChapterInsert(t) ==
  /\ At(t, "chapter_insert")
  /\ InsertChapter(frame[t].handle) \/ UNCHANGED registryVars \* or parsing failed
  /\ Return(t)
  /\ UNCHANGED <<session, rangeOf>>

\* layout_session_create: the chapter names its book, then yields its IR;
\* the session is owned by the book.
LayoutFindBook(t, chapter) ==
  /\ RequireKind(chapter, "Chapter")
  /\ At(t, "idle")
  /\ frame' = [frame EXCEPT ![t] = [Idle EXCEPT !.at = "layout_resolve",
                 !.handle = chapter, !.owner = entries[chapter].parent]]
  /\ UNCHANGED <<registryVars, session, rangeOf>>

LayoutResolve(t) ==
  /\ At(t, "layout_resolve")
  /\ IF RequireKind(frame[t].handle, "Chapter") THEN Goto(t, "layout_insert")
                                               ELSE Return(t)
  /\ UNCHANGED <<registryVars, session, rangeOf>>

LayoutInsert(t) ==
  /\ At(t, "layout_insert")
  /\ \/ /\ InsertLayoutSession(frame[t].owner)
        /\ session' = Extend(session, NextToken("LayoutSession"), Prepared)
     \/ /\ ~RequireKind(frame[t].owner, "Book") \/ nextGeneration >= MaxGeneration
        /\ UNCHANGED <<registryVars, session>>
  /\ Return(t)
  /\ UNCHANGED rangeOf

-----------------------------------------------------------------------------
(* layout_request *)

InFlight(layout) == {r \in LiveOf("Request") : entries[r].parent = layout}

\* Mutant of RequestCheck: has_request_for_layout is not asked.
RequestUnchecked(t, layout, range) ==
  /\ RequireKind(layout, "LayoutSession")
  /\ At(t, "idle")
  /\ frame' = [frame EXCEPT ![t] = [Idle EXCEPT !.at = "request_resolve",
                                      !.handle = layout, !.range = range]]
  /\ UNCHANGED <<registryVars, session, rangeOf>>

\* has_request_for_layout: a session with a request in flight refuses another.
RequestCheck(t, layout, range) ==
  /\ RequireKind(layout, "LayoutSession")
  /\ InFlight(layout) = {}
  /\ At(t, "idle")
  /\ frame' = [frame EXCEPT ![t] = [Idle EXCEPT !.at = "request_resolve",
                                      !.handle = layout, !.range = range]]
  /\ UNCHANGED <<registryVars, session, rangeOf>>

RequestResolve(t) ==
  /\ At(t, "request_resolve")
  /\ IF RequireKind(frame[t].handle, "LayoutSession") THEN Goto(t, "request_layout")
                                                     ELSE Return(t)
  /\ UNCHANGED <<registryVars, session, rangeOf>>

\* LayoutSession::layout under the session mutex: the range is recorded; a
\* paginated session answers at once, a prepared one needs measurements.
RequestLayout(t) ==
  LET layout == frame[t].handle IN
  /\ At(t, "request_layout")
  /\ session' = [session EXCEPT ![layout].range = frame[t].range]
  /\ IF session[layout].phase = "paginated" THEN Return(t) ELSE Goto(t, "request_insert")
  /\ UNCHANGED <<registryVars, rangeOf>>

RequestInsert(t) ==
  LET layout == frame[t].handle IN
  /\ At(t, "request_insert")
  /\ \/ /\ InsertRequest(layout)
        /\ rangeOf' = Extend(rangeOf, NextToken("Request"), frame[t].range)
     \/ /\ ~RequireKind(layout, "LayoutSession") \/ nextGeneration >= MaxGeneration
        /\ UNCHANGED <<registryVars, rangeOf>>
  /\ Return(t)
  /\ UNCHANGED session

-----------------------------------------------------------------------------
(* layout_submit_measurements *)

\* request_cancellation: the call takes a clone of the request's token.
SubmitBegin(t, request) ==
  /\ RequireKind(request, "Request")
  /\ At(t, "idle")
  /\ frame' = [frame EXCEPT ![t] = [Idle EXCEPT !.at = "submit_check",
                 !.handle = request, !.late = request \in cancelled]]
  /\ UNCHANGED <<registryVars, session, rangeOf>>

Reject(t) ==
  frame' = [frame EXCEPT ![t].at = "submit_retire", ![t].result = "error"]

\* Mutant of SubmitCheck: the token is not looked at.
SubmitUnchecked(t) ==
  /\ At(t, "submit_check")
  /\ Goto(t, "submit_request")
  /\ UNCHANGED <<registryVars, session, rangeOf>>

SubmitCheck(t) ==
  /\ At(t, "submit_check")
  /\ IF frame[t].handle \in cancelled THEN Reject(t) ELSE Goto(t, "submit_request")
  /\ UNCHANGED <<registryVars, session, rangeOf>>

SubmitRequest(t) ==
  /\ At(t, "submit_request")
  /\ IF RequireKind(frame[t].handle, "Request")
     THEN frame' = [frame EXCEPT ![t].at = "submit_session",
                                 ![t].owner = entries[frame[t].handle].parent]
     ELSE Reject(t)
  /\ UNCHANGED <<registryVars, session, rangeOf>>

SubmitSession(t) ==
  /\ At(t, "submit_session")
  /\ IF RequireKind(frame[t].owner, "LayoutSession") THEN Goto(t, "submit_apply")
                                                    ELSE Reject(t)
  /\ UNCHANGED <<registryVars, session, rangeOf>>

\* Mutant of SubmitApply: a pagination does not keep later ones out.
SubmitAgain(t) ==
  LET layout == frame[t].owner IN
  /\ At(t, "submit_apply")
  /\ \/ Reject(t) /\ UNCHANGED session
     \/ /\ session' = [session EXCEPT ![layout].phase = "paginated",
                                      ![layout].accepted = frame[t].handle,
                                      ![layout].answered = session[layout].range]
        /\ frame' = [frame EXCEPT ![t].at = "submit_retire", ![t].result = "pages"]
  /\ UNCHANGED <<registryVars, rangeOf>>

\* Mutant of SubmitApply: the default range is paginated, not the recorded one.
SubmitDefault(t) ==
  LET layout == frame[t].owner IN
  /\ At(t, "submit_apply")
  /\ \/ /\ session[layout].phase = "paginated"
        /\ frame' = [frame EXCEPT ![t].at = "submit_retire", ![t].result = "complete"]
        /\ UNCHANGED session
     \/ /\ session[layout].phase = "prepared"
        /\ \/ Reject(t) /\ UNCHANGED session
           \/ /\ session' = [session EXCEPT ![layout].phase = "paginated",
                                            ![layout].accepted = frame[t].handle,
                                            ![layout].answered = DefaultRange]
              /\ frame' = [frame EXCEPT ![t].at = "submit_retire", ![t].result = "pages"]
  /\ UNCHANGED <<registryVars, rangeOf>>

\* LayoutSession::submit_measurements under the session mutex.  A paginated
\* session reports completion.  Otherwise the measurements are validated and
\* the last recorded range is paginated; an error in either leaves the
\* session prepared.
SubmitApply(t) ==
  LET layout == frame[t].owner IN
  /\ At(t, "submit_apply")
  /\ \/ /\ session[layout].phase = "paginated"
        /\ frame' = [frame EXCEPT ![t].at = "submit_retire", ![t].result = "complete"]
        /\ UNCHANGED session
     \/ /\ session[layout].phase = "prepared"
        /\ \/ Reject(t) /\ UNCHANGED session
           \/ /\ session' = [session EXCEPT ![layout].phase = "paginated",
                                            ![layout].accepted = frame[t].handle,
                                            ![layout].answered = session[layout].range]
              /\ frame' = [frame EXCEPT ![t].at = "submit_retire", ![t].result = "pages"]
  /\ UNCHANGED <<registryVars, rangeOf>>

\* dispose_request, whatever the outcome: no change if it is already gone.
DisposeRequest(request) ==
  IF RequireKind(request, "Request") THEN Dispose(request, "Request")
                                     ELSE UNCHANGED registryVars

\* Mutant of SubmitRetire: the request is left registered.
SubmitLeave(t) ==
  /\ At(t, "submit_retire")
  /\ Return(t)
  /\ UNCHANGED <<registryVars, session, rangeOf>>

SubmitRetire(t) ==
  /\ At(t, "submit_retire")
  /\ DisposeRequest(frame[t].handle)
  /\ Return(t)
  /\ UNCHANGED <<session, rangeOf>>

-----------------------------------------------------------------------------
(* request_cancel and handle_dispose *)

CancelBegin(t, request) ==
  /\ RequireKind(request, "Request")
  /\ Begin(t, "cancel_set", request)
  /\ UNCHANGED <<registryVars, session, rangeOf>>

CancelSet(t) ==
  /\ At(t, "cancel_set")
  /\ CancelToken(frame[t].handle)
  /\ Goto(t, "cancel_retire")
  /\ UNCHANGED <<session, rangeOf>>

CancelRetire(t) ==
  /\ At(t, "cancel_retire")
  /\ DisposeRequest(frame[t].handle)
  /\ Return(t)
  /\ UNCHANGED <<session, rangeOf>>

HandleDispose(t, raw) ==
  /\ At(t, "idle")
  /\ Dispose(raw, "Any")
  /\ UNCHANGED <<frame, session, rangeOf>>

-----------------------------------------------------------------------------

\* A new call by an idle thread.
Call(t) ==
  \/ EngineCreate(t)
  \/ \E h \in Live :
       \/ BookResolve(t, h)
       \/ ChapterResolve(t, h)
       \/ LayoutFindBook(t, h)
       \/ \E range \in Ranges : RequestCheck(t, h, range)
       \/ SubmitBegin(t, h)
       \/ CancelBegin(t, h)
       \/ HandleDispose(t, h)

\* The next critical section of a call under way.
Continue(t) ==
  \/ BookInsert(t) \/ ChapterInsert(t)
  \/ LayoutResolve(t) \/ LayoutInsert(t)
  \/ RequestResolve(t) \/ RequestLayout(t) \/ RequestInsert(t)
  \/ SubmitCheck(t) \/ SubmitRequest(t) \/ SubmitSession(t)
  \/ SubmitApply(t) \/ SubmitRetire(t)
  \/ CancelSet(t) \/ CancelRetire(t)

\* The control plane is dropped with its registry, once no call borrows it.
Drop ==
  /\ \A t \in Threads : At(t, "idle")
  /\ DropRegistry
  /\ UNCHANGED <<frame, session, rangeOf>>

ControlNext == Drop \/ \E t \in Threads : Call(t) \/ Continue(t)

ControlSpec == ControlInit /\ [][ControlNext]_controlVars

\* A call under way is never left unscheduled; nobody is obliged to call.
FairControlSpec == ControlSpec /\ \A t \in Threads : WF_controlVars(Continue(t))

-----------------------------------------------------------------------------
(* Properties *)

\* Types of the calls in progress and of the shared sessions.
ControlTypeOK ==
  /\ frame \in [Threads -> Frame]
  /\ session \in [DOMAIN session -> Session]
  /\ LiveOf("LayoutSession") \subseteq DOMAIN session
  /\ rangeOf \in [DOMAIN rangeOf -> Ranges]
  /\ LiveOf("Request") \subseteq DOMAIN rangeOf

(* A submission made after its request was cancelled is refused, even when  *)
(* the cancelling call has not yet retired the handle: its measurements     *)
(* never reach the session.                                                 *)
CancelledSubmitRefused ==
  \A t \in Threads : frame[t].late => frame[t].result \in {"none", "error"}

(* Pages are accepted once: whatever requests were in flight, a second      *)
(* submission to the same session leaves the accepted pages alone.          *)
PagesAcceptedOnce ==
  [][\A s \in DOMAIN session : session[s].phase = "paginated" =>
        /\ session'[s].phase = "paginated"
        /\ session'[s].accepted = session[s].accepted]_session

(* "Cancelling or submitting that request retires its handle"               *)
(* (docs/ffi-contract.md): whichever way the call goes, the handle is       *)
(* released in the end.                                                     *)
SubmitRetiresRequest ==
  \A t \in Threads, r \in {RawToken(g, "Request") : g \in 1 .. MaxGeneration} :
    (At(t, "submit_check") \/ At(t, "cancel_set")) /\ frame[t].handle = r ~> r \notin Live

(* "A layout session accepts one in-flight measurement request at a time"   *)
(* (docs/ffi-contract.md).                                                  *)
OneRequestInFlight ==
  \A l \in LiveOf("LayoutSession") : Cardinality(InFlight(l)) <= 1

-----------------------------------------------------------------------------
(* The contract a host that makes one call at a time can rely on *)

LayoutTokens == {RawToken(g, "LayoutSession") : g \in 1 .. MaxGeneration}

\* What such a host knows of one session.
HostView(l) ==
  IF l \notin DOMAIN session THEN [phase |-> "absent", range |-> "none"]
  ELSE IF l \notin Live THEN [phase |-> "gone", range |-> "none"]
  ELSE IF session[l].phase = "paginated"
       THEN [phase |-> "paginated", range |-> session[l].answered]
  ELSE IF InFlight(l) # {}
       THEN [phase |-> "measuring", range |-> rangeOf[CHOOSE r \in InFlight(l) : TRUE]]
  ELSE [phase |-> "ready", range |-> "none"]

Contract == INSTANCE LayoutLifecycle
              WITH Layouts <- LayoutTokens, contract <- [l \in LayoutTokens |-> HostView(l)]

(* A session is measured for one range at a time, and the pages it accepts  *)
(* are those of the range its request was created for, although the session *)
(* itself only remembers the range of the last layout call.                 *)
LayoutContract == Contract!LifecycleSpec
=============================================================================
