--------------------------- MODULE HandleRegistry ---------------------------
(***************************************************************************)
(* The ownership tree behind every opaque native handle                     *)
(* (crates/pagelet/src/ffi.rs).                                             *)
(*                                                                         *)
(* A handle is a 64-bit token: a process-wide generation shifted left by    *)
(* three bits, plus a tag for the kind of object.  The registry maps live   *)
(* tokens to entries; every entry but an engine names its parent.  Each     *)
(* public method holds the registry mutex for its whole body, so each is    *)
(* one action here.                                                         *)
(***************************************************************************)
EXTENDS Integers, FiniteSets

CONSTANT MaxGeneration   \* MAX_HANDLE_GENERATION: the generation never allocated

ASSUME MaxGenerationAssumption == MaxGeneration \in Nat \ {0}

VARIABLES
  entries,         \* live token -> [kind, parent]
  nextGeneration,  \* NEXT_HANDLE_GENERATION
  cancelled,       \* request tokens whose CancellationToken is set
  dropped,         \* the registry itself has been dropped
  retired          \* history: every token that was ever live and no longer is

registryVars == <<entries, nextGeneration, cancelled, dropped, retired>>

-----------------------------------------------------------------------------
(* Tokens *)

Tag == [Engine |-> 1, Book |-> 2, Chapter |-> 3, LayoutSession |-> 4, Request |-> 5]

Kinds == {"Engine", "Book", "Chapter", "LayoutSession", "Request"}

RawToken(generation, kind) == generation * 8 + Tag[kind]

Generation(raw) == raw \div 8

\* A host may wrap a raw token as a handle of this kind.
FromRaw(raw, kind) == Generation(raw) # 0 /\ raw % 8 = Tag[kind]

-----------------------------------------------------------------------------
(* The tree *)

NoParent == 0

Entry == [kind : Kinds, parent : Nat]

Live == DOMAIN entries

LiveOf(kind) == {t \in Live : entries[t].kind = kind}

RequireKind(raw, kind) == raw \in LiveOf(kind)

ChildClosed(S) == \A t \in Live : entries[t].parent \in S => t \in S

\* Mutant of Subtree: the walk stops after the children.
SubtreeChildrenOnly(raw) == {raw} \cup {t \in Live : entries[t].parent = raw}

(* The frontier walk of dispose_matching: the token and all it owns, that   *)
(* is, the least set holding it and closed under children.                  *)
Subtree(raw) ==
  {t \in Live : \A S \in SUBSET Live : (raw \in S /\ ChildClosed(S)) => t \in S}

-----------------------------------------------------------------------------
(* Operations *)

RegistryInit ==
  /\ entries = [t \in {} |-> NoParent]
  /\ nextGeneration = 1
  /\ cancelled = {}
  /\ dropped = FALSE
  /\ retired = {}

\* Mutant of NextToken: the lowest generation free at the moment.
FirstFreeToken(kind) ==
  LET free == {g \in 1 .. MaxGeneration : \A t \in Live : Generation(t) # g}
  IN  RawToken(CHOOSE g \in free : \A f \in free : g <= f, kind)

\* The token the next successful insertion of this kind returns.
NextToken(kind) == RawToken(nextGeneration, kind)

\* insert_locked with allocate_raw; a spent generation space is an error.
Insert(kind, parent) ==
  /\ nextGeneration < MaxGeneration
  /\ nextGeneration' = nextGeneration + 1
  /\ entries' = [t \in Live \cup {NextToken(kind)} |->
                   IF t = NextToken(kind) THEN [kind |-> kind, parent |-> parent]
                                          ELSE entries[t]]
  /\ UNCHANGED <<cancelled, dropped, retired>>

InsertEngine == ~dropped /\ Insert("Engine", NoParent)

InsertBook(engine) ==
  ~dropped /\ RequireKind(engine, "Engine") /\ Insert("Book", engine)

InsertChapter(book) ==
  ~dropped /\ RequireKind(book, "Book") /\ Insert("Chapter", book)

InsertLayoutSession(book) ==
  ~dropped /\ RequireKind(book, "Book") /\ Insert("LayoutSession", book)

InsertRequest(layout) ==
  ~dropped /\ RequireKind(layout, "LayoutSession") /\ Insert("Request", layout)

\* A holder of a clone of the request's token cancels it.
CancelToken(request) ==
  /\ cancelled' = cancelled \cup {request}
  /\ UNCHANGED <<entries, nextGeneration, dropped, retired>>

\* Mutant of Remove: requests go without being cancelled.
RemoveSilently(gone) ==
  /\ entries' = [t \in Live \ gone |-> entries[t]]
  /\ retired' = retired \cup gone
  /\ UNCHANGED <<nextGeneration, cancelled>>

Remove(gone) ==
  /\ entries' = [t \in Live \ gone |-> entries[t]]
  /\ cancelled' = cancelled \cup (gone \cap LiveOf("Request"))
  /\ retired' = retired \cup gone
  /\ UNCHANGED nextGeneration

(* dispose_matching: the token and its descendants go, and every request   *)
(* among them is cancelled.  "Any" stands for the untyped dispose.  An     *)
(* absent token, or one of another kind, is AlreadyDisposed: no change.    *)
Dispose(raw, expected) ==
  /\ ~dropped
  /\ raw \in Live
  /\ expected \in {"Any", entries[raw].kind}
  /\ Remove(Subtree(raw))
  /\ UNCHANGED dropped

\* Drop for HandleRegistry: every live request is cancelled, then all goes.
DropRegistry ==
  /\ ~dropped
  /\ Remove(Live)
  /\ dropped' = TRUE

RegistryNext ==
  \/ InsertEngine
  \/ \E t \in Live : InsertBook(t)
  \/ \E t \in Live : InsertChapter(t)
  \/ \E t \in Live : InsertLayoutSession(t)
  \/ \E t \in Live : InsertRequest(t)
  \/ \E t \in LiveOf("Request") : CancelToken(t)
  \/ \E t \in Live, expected \in Kinds \cup {"Any"} : Dispose(t, expected)
  \/ DropRegistry

RegistrySpec == RegistryInit /\ [][RegistryNext]_registryVars

-----------------------------------------------------------------------------
(* Properties *)

(* Types: live tokens are well-formed, their tag agrees with the entry they *)
(* name, and no token of a generation not yet allocated is live or retired. *)
RegistryTypeOK ==
  /\ nextGeneration \in 1 .. MaxGeneration
  /\ dropped \in BOOLEAN
  /\ cancelled \subseteq Nat
  /\ retired \subseteq Nat
  /\ Live \subseteq Nat
  /\ entries \in [Live -> Entry]
  /\ \A t \in Live : FromRaw(t, entries[t].kind)
  /\ \A t \in Live \cup retired : Generation(t) < nextGeneration

\* The kind of object that owns an object of each kind but an engine.
ParentKind == [Book |-> "Engine", Chapter |-> "Book",
               LayoutSession |-> "Book", Request |-> "LayoutSession"]

(* No orphans: whatever interleaving of insertions and disposals happened,  *)
(* every live object but an engine has a live owner of the right kind, so   *)
(* disposing engines always reaches everything ("Releasing an engine closes *)
(* its complete ownership tree", docs/ffi-contract.md).                     *)
NoOrphans ==
  \A t \in Live :
    IF entries[t].kind = "Engine"
    THEN entries[t].parent = NoParent
    ELSE RequireKind(entries[t].parent, ParentKind[entries[t].kind])

(* A released token never names an object again, so a stale handle cannot   *)
(* alias a newer object (doc comment of HandleRegistry).                    *)
TokensNeverReused == retired \cap Live = {}

(* Work is never left running after its handle is gone: a request that is   *)
(* no longer live, however it was released, has its token cancelled.        *)
RetiredRequestsCancelled ==
  \A t \in retired : t % 8 = Tag["Request"] => t \in cancelled

\* The owners of a token, found upwards: at most engine, book, layout.
Up(t) == IF t \in Live THEN entries[t].parent ELSE NoParent
Owners(t) == {Up(t), Up(Up(t)), Up(Up(Up(t)))}

(* One disposal releases exactly the objects owned, at any depth, by one    *)
(* root, that root included: nothing beneath it survives and nothing beside *)
(* it is lost.  Only dropping the registry releases more.                   *)
DisposeReleasesOneTree ==
  [][ \/ Live \subseteq Live'
      \/ dropped'
      \/ \E root \in Live :
           Live \ Live' = {t \in Live : t = root \/ root \in Owners(t)} ]_registryVars
=============================================================================
