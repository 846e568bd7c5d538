--------------------------- MODULE NativeBoundary ---------------------------
(***************************************************************************)
(* The C entry points (crates/pagelet/src/ffi/native.rs) around the control *)
(* plane, with the pool of Rust-owned buffers they return results in        *)
(* (crates/pagelet/src/ffi/buffer.rs).                                      *)
(*                                                                         *)
(* The question here is ownership: what is live in the library after a call *)
(* that failed half way.  The host makes one call at a time, so a           *)
(* control-plane operation is one step (ControlPlane.tla interleaves them), *)
(* but encoding its result and allocating each buffer are steps that can    *)
(* fail after it took effect.                                               *)
(***************************************************************************)
EXTENDS HandleRegistry

CONSTANT MaxBufferId     \* u64::MAX: the buffer id never allocated

ASSUME MaxBufferIdAssumption == MaxBufferId \in Nat \ {0}

VARIABLES
  paginated,   \* layout sessions that have accepted measurements
  buffers,     \* live ids of the buffer pool
  nextBuffer,  \* NEXT_BUFFER_ID
  call,        \* the call under way, between its fallible steps
  host,        \* what the host was given: request handles, buffer descriptors
  submitted,   \* history: requests the host made a submit call for
  lost         \* history: requests whose batch could not be encoded

boundaryVars == <<registryVars, paginated, buffers, nextBuffer, call, host, submitted, lost>>

NoCall == [stage |-> "none", request |-> NoParent, held |-> {}]

BoundaryInit ==
  /\ RegistryInit
  /\ paginated = {}
  /\ buffers = {}
  /\ nextBuffer = 1
  /\ call = NoCall
  /\ host = [requests |-> {}, buffers |-> {}]
  /\ submitted = {}
  /\ lost = {}

InFlight(layout) == {r \in LiveOf("Request") : entries[r].parent = layout}

-----------------------------------------------------------------------------
(* The pool *)

CanAllocate == nextBuffer < MaxBufferId

\* The descriptor of a new allocation is kept by the call, or handed out.
Allocate ==
  /\ nextBuffer' = nextBuffer + 1
  /\ buffers' = buffers \cup {nextBuffer}

Release(ids) == buffers' = buffers \ ids /\ UNCHANGED nextBuffer

-----------------------------------------------------------------------------
(* Calls without a payload *)

Quiet == call.stage = "none" /\ UNCHANGED <<call, buffers, nextBuffer>>

\* engine_create, book_open_*, chapter_open, layout_session_create.
Open ==
  /\ Quiet
  /\ \/ InsertEngine
     \/ \E t \in Live : InsertBook(t) \/ InsertChapter(t)
     \/ \E t \in LiveOf("Chapter") : InsertLayoutSession(entries[t].parent)
  /\ UNCHANGED <<paginated, host, submitted, lost>>

\* pagelet_handle_dispose of anything live.
HandleDispose(t) ==
  /\ Quiet
  /\ Dispose(t, "Any")
  /\ UNCHANGED <<paginated, host, submitted, lost>>

\* pagelet_request_cancel: the token is cancelled, then the handle retired.
RequestCancel(r) ==
  /\ Quiet
  /\ r \in host.requests
  /\ Dispose(r, "Request")
  /\ UNCHANGED <<paginated, host, submitted, lost>>

\* pagelet_buffer_free; freeing again finds nothing to release.
BufferFree(b) ==
  /\ call.stage = "none"
  /\ b \in host.buffers
  /\ Release({b})
  /\ host' = [host EXCEPT !.buffers = @ \ {b}]
  /\ UNCHANGED <<registryVars, paginated, call, submitted, lost>>

-----------------------------------------------------------------------------
(* pagelet_layout_request *)

\* ControlPlane::layout_request succeeded: a paginated session has pages to
\* encode, a prepared one a batch to encode and a new request handle.  (A
\* session past its last page has nothing to encode: no step at all.)
LayoutRequest(layout) ==
  /\ call.stage = "none"
  /\ RequireKind(layout, "LayoutSession")
  /\ InFlight(layout) = {}
  /\ IF layout \in paginated
     THEN /\ call' = [NoCall EXCEPT !.stage = "encode"]
          /\ UNCHANGED registryVars
     ELSE /\ InsertRequest(layout)
          /\ call' = [NoCall EXCEPT !.stage = "encode", !.request = NextToken("Request")]
  /\ UNCHANGED <<paginated, buffers, nextBuffer, host, submitted, lost>>

\* Encoding the batch or the pages: a payload over the wire limits is an
\* error, which returns no handle and no buffer.
Encode ==
  /\ call.stage = "encode"
  /\ \/ call' = [call EXCEPT !.stage = "allocate"] /\ UNCHANGED lost
     \/ call' = NoCall /\ lost' = lost \cup ({call.request} \ {NoParent})
  /\ UNCHANGED <<registryVars, paginated, buffers, nextBuffer, host, submitted>>

\* Mutant of AllocateResult: a failed allocation leaves the request live.
AllocateOrLeave ==
  /\ call.stage = "allocate"
  /\ \/ /\ CanAllocate
        /\ Allocate
        /\ host' = [host EXCEPT !.buffers = @ \cup {nextBuffer},
                                !.requests = @ \cup ({call.request} \ {NoParent})]
     \/ ~CanAllocate /\ UNCHANGED <<buffers, nextBuffer, host>>
  /\ call' = NoCall
  /\ UNCHANGED <<registryVars, paginated, submitted, lost>>

\* The buffer for the encoded bytes.  When ids are spent the request behind
\* a batch is cancelled, since the host will never learn its handle.
AllocateResult ==
  /\ call.stage = "allocate"
  /\ \/ /\ CanAllocate
        /\ Allocate
        /\ host' = [host EXCEPT !.buffers = @ \cup {nextBuffer},
                                !.requests = @ \cup ({call.request} \ {NoParent})]
        /\ UNCHANGED registryVars
     \/ /\ ~CanAllocate
        /\ IF call.request \in Live THEN Dispose(call.request, "Request")
                                    ELSE UNCHANGED registryVars
        /\ UNCHANGED <<buffers, nextBuffer, host>>
  /\ call' = NoCall
  /\ UNCHANGED <<paginated, submitted, lost>>

-----------------------------------------------------------------------------
(* pagelet_layout_submit_measurements *)

\* The payload is decoded before the control plane sees the call; one that
\* does not decode ends it there.
SubmitUndecodable(r) ==
  /\ Quiet
  /\ r \in host.requests \cap Live
  /\ submitted' = submitted \cup {r}
  /\ UNCHANGED <<registryVars, paginated, host, lost>>

\* ControlPlane::layout_submit_measurements: refused, or accepted with pages
\* to encode; the request is retired either way.
Submit(r) ==
  LET layout == entries[r].parent IN
  /\ call.stage = "none"
  /\ r \in host.requests \cap Live
  /\ \/ call' = NoCall /\ UNCHANGED paginated
     \/ /\ layout \notin paginated
        /\ paginated' = paginated \cup {layout}
        /\ call' = [NoCall EXCEPT !.stage = "encode"]
  /\ Dispose(r, "Request")
  /\ submitted' = submitted \cup {r}
  /\ UNCHANGED <<buffers, nextBuffer, host, lost>>

-----------------------------------------------------------------------------
(* pagelet_resource_read, pagelet_book_summary, pagelet_book_navigation *)

\* The summary or the navigation of a book, as JSON, needs only its buffer.
BookText(book) ==
  /\ call.stage = "none"
  /\ RequireKind(book, "Book")
  /\ call' = [NoCall EXCEPT !.stage = "allocate"]
  /\ UNCHANGED <<registryVars, paginated, buffers, nextBuffer, host, submitted, lost>>

ResourceRead(book) ==
  /\ call.stage = "none"
  /\ RequireKind(book, "Book")
  /\ call' = [NoCall EXCEPT !.stage = "resource"]
  /\ UNCHANGED <<registryVars, paginated, buffers, nextBuffer, host, submitted, lost>>

\* Mutant of ResourceBuffer: no rollback.
ResourceBufferKept ==
  /\ call.stage = "resource"
  /\ IF CanAllocate
     THEN /\ Allocate
          /\ LET held == call.held \cup {nextBuffer} IN
             IF Cardinality(held) = 3
             THEN call' = NoCall /\ host' = [host EXCEPT !.buffers = @ \cup held]
             ELSE call' = [call EXCEPT !.held = held] /\ UNCHANGED host
     ELSE call' = NoCall /\ UNCHANGED <<buffers, nextBuffer, host>>
  /\ UNCHANGED <<registryVars, paginated, submitted, lost>>

\* Bytes, path and media type get a buffer each; when one fails, those before
\* it are released.
ResourceBuffer ==
  /\ call.stage = "resource"
  /\ IF CanAllocate
     THEN /\ Allocate
          /\ LET held == call.held \cup {nextBuffer} IN
             IF Cardinality(held) = 3
             THEN call' = NoCall /\ host' = [host EXCEPT !.buffers = @ \cup held]
             ELSE call' = [call EXCEPT !.held = held] /\ UNCHANGED host
     ELSE Release(call.held) /\ call' = NoCall /\ UNCHANGED host
  /\ UNCHANGED <<registryVars, paginated, submitted, lost>>

-----------------------------------------------------------------------------

BoundaryNext ==
  \/ Open
  \/ \E t \in Live : HandleDispose(t)
  \/ \E r \in LiveOf("Request") : RequestCancel(r) \/ SubmitUndecodable(r) \/ Submit(r)
  \/ \E b \in host.buffers : BufferFree(b)
  \/ \E l \in LiveOf("LayoutSession") : LayoutRequest(l)
  \/ \E b \in LiveOf("Book") : ResourceRead(b) \/ BookText(b)
  \/ Encode \/ AllocateResult \/ ResourceBuffer

BoundarySpec == BoundaryInit /\ [][BoundaryNext]_boundaryVars

-----------------------------------------------------------------------------
(* Properties *)

\* Types, and the bound on buffer ids.
BoundaryTypeOK ==
  /\ nextBuffer \in 1 .. MaxBufferId
  /\ buffers \subseteq 1 .. MaxBufferId
  /\ call.stage \in {"none", "encode", "allocate", "resource"}
  /\ paginated \subseteq Live \cup retired
  /\ host.requests \subseteq Live \cup retired

(* No buffer is ever lost or handed out twice: the pool holds exactly what  *)
(* the host was given and has not freed, plus what the call under way would *)
(* release on failure (the rollback of pagelet_resource_read).              *)
BuffersOwned ==
  /\ buffers = host.buffers \cup call.held
  /\ host.buffers \cap call.held = {}

(* A call that fails leaves no request behind that the host cannot name,    *)
(* even when buffer ids are spent: encoding the batch is the one step after *)
(* which a live request may be unknown to the host.                         *)
OnlyEncodingLosesARequest ==
  call.stage = "none" => LiveOf("Request") \subseteq host.requests \cup lost

(* "Cancelling or submitting that request retires its handle"               *)
(* (docs/ffi-contract.md).                                                  *)
SubmittedIsRetired == submitted \cap Live = {}
=============================================================================
