----------------------------- MODULE HostsProofs -----------------------------
(***************************************************************************)
(* Proofs about the hosts of the library: the objects of the Flutter        *)
(* package, for any number of them opened and disposed of in any order; the *)
(* work of an engine's host threads, for any number of threads, requests,   *)
(* invalidations and chapters; and the C entry points a host calls, for any *)
(* number of handles, requests and buffers, wherever their ids run out.     *)
(*                                                                         *)
(* Every operation on the objects is one step of the registry, so what is   *)
(* proved of the registry holds under them.  The objects themselves keep    *)
(* step with their handles because each repeats, in opener, the ownership   *)
(* of its handle, except that a layout hangs under its chapter in Dart and  *)
(* under the book natively.                                                 *)
(*                                                                         *)
(* The reader of the package's example is a host of these objects: each of   *)
(* its steps is one of their operations or none, and what is alive at any    *)
(* moment is what one load, the one that runs or the one that is shown, has  *)
(* opened so far.                                                           *)
(*                                                                         *)
(* The limits on an engine's work are counted on the requests the scheduler *)
(* keeps; they bound the work that goes on because, of what is running, all *)
(* that nobody has stopped is kept.                                         *)
(*                                                                         *)
(* Of the C entry points the invariant says what the call under way still   *)
(* has to give back: the buffers it holds, and the request it has not told  *)
(* the host about.                                                          *)
(***************************************************************************)
EXTENDS Engine, ReaderLoads, NativeBoundary, HandleRegistryProofs, FiniteSetTheorems, SequenceTheorems

-----------------------------------------------------------------------------
(* The invariant *)

\* Objects stand for live handles; requests have none.
OpenAlive ==
  /\ open \subseteq Live \ LiveOf("Request")
  /\ open \subseteq DOMAIN opener

\* Who opened an object is open, and is the owner of the handle or, of a
\* layout, the chapter of the book that owns it.
OpenersOwn ==
  \A h \in open :
    /\ entries[h].kind = "Engine" => opener[h] = NoParent
    /\ entries[h].kind \in {"Book", "Chapter"} =>
         opener[h] = entries[h].parent /\ opener[h] \in open
    /\ entries[h].kind = "LayoutSession" =>
         /\ opener[h] \in open
         /\ entries[opener[h]].kind = "Chapter"
         /\ entries[h].parent = entries[opener[h]].parent

\* A live handle without an open object: a request, or a layout whose chapter
\* is closed and whose book is open.
Strays ==
  \A t \in Live \ open :
    \/ entries[t].kind = "Request"
    \/ /\ entries[t].kind = "LayoutSession"
       /\ t \in DOMAIN opener
       /\ opener[t] \notin open
       /\ entries[t].parent \in open

\* No object, open or not, was opened by a handle still to come.
OpenersOld ==
  \A h \in DOMAIN opener :
    opener[h] \in Nat /\ Generation(opener[h]) < nextGeneration

SessionsInv == IInv /\ OpenAlive /\ OpenersOwn /\ Strays /\ OpenersOld

-----------------------------------------------------------------------------
(* The operations are registry steps *)

LEMMA SessionsStepIsRegistryStep ==
  ASSUME [SessionsNext]_<<registryVars, sessionVars>>, OpenAlive
  PROVE  [RegistryNext]_registryVars
<1>1. CASE CreateEngine
  BY <1>1 DEF CreateEngine, RegistryNext
<1>2. ASSUME NEW h \in open, OpenBook(h) \/ OpenChapter(h) \/ CreateLayout(h) \/ RequestPages(h)
      PROVE  RegistryNext
  BY <1>2 DEF OpenBook, OpenChapter, CreateLayout, RequestPages, RegistryNext, InsertBook,
              InsertChapter, InsertLayoutSession, InsertRequest, RequireKind, LiveOf
<1>3. ASSUME NEW h \in open, DisposeObject(h)
      PROVE  RegistryNext
  BY <1>3 DEF DisposeObject, OpenAlive, RegistryNext
<1>4. ASSUME NEW h \in open, NEW r \in LiveOf("Request"), Retires(h, r)
      PROVE  RegistryNext
  BY <1>4 DEF Retires, RegistryNext, LiveOf, Kinds
<1> QED
  BY <1>1, <1>2, <1>3, <1>4 DEF SessionsNext, SessionsOpen, SessionsClose, registryVars

-----------------------------------------------------------------------------
(* Opening *)

\* An object is opened by an open object, or by none.
LEMMA OpeningPreserves ==
  ASSUME SessionsInv, NEW kind \in Kinds \ {"Request"}, NEW parent, NEW owner,
         Insert(kind, parent), Keeps(kind, owner),
         kind = "Engine" => owner = NoParent,
         kind # "Engine" => owner \in open,
         kind \in {"Book", "Chapter"} => owner = parent,
         kind = "LayoutSession" => entries[owner].kind = "Chapter" /\ parent = entries[owner].parent
  PROVE  /\ OpenAlive'
         /\ OpenersOwn'
         /\ Strays'
         /\ OpenersOld'
<1> DEFINE new == NextToken(kind)
<1>1. /\ new \in Nat \ Live /\ new # NoParent
      /\ Generation(new) = nextGeneration
      /\ nextGeneration \in Nat /\ nextGeneration' = nextGeneration + 1
      /\ Live' = Live \cup {new}
      /\ entries'[new] = [kind |-> kind, parent |-> parent]
      /\ \A t \in Live : entries'[t] = entries[t]
  BY Inserted DEF SessionsInv
<1> HIDE DEF new
<1>2. /\ open' = open \cup {new}
      /\ DOMAIN opener' = DOMAIN opener \cup {new}
      /\ opener'[new] = owner
      /\ \A h \in DOMAIN opener \ {new} : opener'[h] = opener[h]
  BY DEF Keeps, new
<1>3. open \subseteq Live /\ open \subseteq DOMAIN opener /\ Live \subseteq Nat
  BY DEF SessionsInv, OpenAlive, IInv, RegistryTypeOK
<1>4. \A h \in open : h # new /\ entries'[h] = entries[h] /\ opener'[h] = opener[h]
  BY <1>1, <1>2, <1>3
<1>5. OpenAlive'
  <2>1. new \notin LiveOf("Request")'
    BY <1>1 DEF LiveOf
  <2>2. \A h \in open : h \notin LiveOf("Request")'
    BY <1>1, <1>3, <1>4 DEF SessionsInv, OpenAlive, LiveOf
  <2> QED
    BY <1>1, <1>2, <1>3, <2>1, <2>2 DEF OpenAlive
<1>6. OpenersOwn'
  <2>1. ASSUME NEW h \in open
        PROVE  /\ entries'[h].kind = "Engine" => opener'[h] = NoParent
               /\ entries'[h].kind \in {"Book", "Chapter"} =>
                    opener'[h] = entries'[h].parent /\ opener'[h] \in open'
               /\ entries'[h].kind = "LayoutSession" =>
                    /\ opener'[h] \in open'
                    /\ entries'[opener'[h]].kind = "Chapter"
                    /\ entries'[h].parent = entries'[opener'[h]].parent
    BY <1>2, <1>4, <2>1 DEF SessionsInv, OpenersOwn
  <2>2. /\ kind \in {"Book", "Chapter"} => owner = parent /\ owner \in open'
        /\ kind = "LayoutSession" =>
             owner \in open' /\ entries'[owner].kind = "Chapter" /\ parent = entries'[owner].parent
    BY <1>2, <1>4
  <2> QED
    BY <1>1, <1>2, <2>1, <2>2 DEF OpenersOwn
<1>7. Strays'
  <2> SUFFICES ASSUME NEW t \in Live \ open, t # new
               PROVE  \/ entries'[t].kind = "Request"
                      \/ /\ entries'[t].kind = "LayoutSession"
                         /\ t \in DOMAIN opener'
                         /\ opener'[t] \notin open'
                         /\ entries'[t].parent \in open'
    BY <1>1, <1>2 DEF Strays
  <2>1. entries'[t] = entries[t]
    BY <1>1
  <2>2. t \in DOMAIN opener => opener'[t] = opener[t] /\ opener[t] # new
    BY <1>1, <1>2 DEF SessionsInv, OpenersOld
  <2> QED
    BY <1>2, <2>1, <2>2 DEF SessionsInv, Strays
<1>8. OpenersOld'
  <2>1. owner \in Nat /\ Generation(owner) < nextGeneration'
    <3>1. CASE kind = "Engine"
      BY <1>1, <3>1 DEF NoParent, Generation
    <3>2. CASE kind # "Engine"
      <4>1. owner \in Nat /\ Generation(owner) < nextGeneration
        BY <1>3, <3>2 DEF SessionsInv, IInv, RegistryTypeOK
      <4> QED
        BY <1>1, <4>1 DEF Generation
    <3> QED
      BY <3>1, <3>2
  <2>2. \A h \in DOMAIN opener : opener[h] \in Nat /\ Generation(opener[h]) < nextGeneration'
    BY <1>1 DEF SessionsInv, OpenersOld, Generation
  <2> QED
    BY <1>2, <2>1, <2>2 DEF OpenersOld
<1> QED
  BY <1>5, <1>6, <1>7, <1>8

\* A request adds a handle without an object.
LEMMA RequestPreserves ==
  ASSUME SessionsInv, NEW layout, Insert("Request", layout), UNCHANGED sessionVars
  PROVE  /\ OpenAlive'
         /\ OpenersOwn'
         /\ Strays'
         /\ OpenersOld'
<1> DEFINE new == NextToken("Request")
<1>1. /\ new \in Nat \ Live
      /\ nextGeneration \in Nat /\ nextGeneration' = nextGeneration + 1
      /\ Live' = Live \cup {new}
      /\ entries'[new] = [kind |-> "Request", parent |-> layout]
      /\ \A t \in Live : entries'[t] = entries[t]
  BY Inserted DEF SessionsInv, Kinds
<1> HIDE DEF new
<1>2. open' = open /\ opener' = opener
  BY DEF sessionVars
<1>3. \A h \in open : h \in Live /\ h # new /\ entries'[h] = entries[h]
  BY <1>1 DEF SessionsInv, OpenAlive
<1>4. OpenAlive'
  BY <1>1, <1>2, <1>3 DEF SessionsInv, OpenAlive, LiveOf
<1>5. OpenersOwn'
  BY <1>2, <1>3 DEF SessionsInv, OpenersOwn
<1>6. Strays'
  BY <1>1, <1>2 DEF SessionsInv, Strays
<1>7. OpenersOld'
  BY <1>1, <1>2 DEF SessionsInv, OpenersOld, Generation
<1> QED
  BY <1>4, <1>5, <1>6, <1>7

-----------------------------------------------------------------------------
(* Disposing *)

LEMMA RetirePreserves ==
  ASSUME SessionsInv, NEW r \in LiveOf("Request"), Dispose(r, "Request"), UNCHANGED sessionVars
  PROVE  /\ OpenAlive'
         /\ OpenersOwn'
         /\ Strays'
         /\ OpenersOld'
<1>1. r \in Live
  BY DEF LiveOf
<1>2. Subtree(r) = {r}
  BY RequestOwnsNothing DEF SessionsInv
<1>3. /\ Live' = Live \ {r}
      /\ \A t \in Live' : entries'[t] = entries[t]
      /\ nextGeneration' = nextGeneration
  BY <1>1, <1>2, Removed
<1>4. open' = open /\ opener' = opener
  BY DEF sessionVars
<1>5. \A h \in open : h \in Live' /\ entries'[h] = entries[h]
  BY <1>1, <1>3 DEF SessionsInv, OpenAlive, LiveOf
<1>6. OpenAlive'
  BY <1>3, <1>4, <1>5 DEF SessionsInv, OpenAlive, LiveOf
<1>7. OpenersOwn'
  BY <1>4, <1>5 DEF SessionsInv, OpenersOwn
<1>8. Strays'
  BY <1>3, <1>4 DEF SessionsInv, Strays
<1>9. OpenersOld'
  BY <1>3, <1>4 DEF SessionsInv, OpenersOld
<1> QED
  BY <1>6, <1>7, <1>8, <1>9

\* The objects that go with one are those it or they opened: it reaches as
\* deep as the tree is.
LEMMA OwnedClosed ==
  ASSUME SessionsInv, NEW h \in open
  PROVE  /\ h \in Owned(h)
         /\ Owned(h) \subseteq open
         /\ \A k \in open : opener[k] \in Owned(h) => k \in Owned(h)
         /\ \A k \in Owned(h) \ {h} : opener[k] \in Owned(h)
<1> DEFINE B == Below(h)
           C == UNION {Below(k) : k \in B}
           E == UNION {UNION {Below(l) : l \in Below(k)} : k \in B}
<1>1. Owned(h) = {h} \cup B \cup C \cup E
  BY DEF Owned, OwnedNearby
<1>2. \A k : k \in B <=> k \in open /\ opener[k] = h
  BY DEF Below
<1>3. \A k : k \in C <=> k \in open /\ opener[k] \in B
  BY DEF Below
<1>4. \A k : k \in E <=> k \in open /\ opener[k] \in C
  BY DEF Below
<1> HIDE DEF B, C, E
<1>5. ASSUME NEW k \in open, opener[k] \in E
      PROVE  FALSE
  <2>1. \A l \in open : entries[l].kind \in {"Engine", "Book", "Chapter", "LayoutSession"}
    BY DEF SessionsInv, IInv, OpenAlive, LiveOf, RegistryTypeOK, Entry, Kinds
  <2>2. \A l \in open : opener[l] \in open =>
          \/ entries[l].kind = "Book" /\ entries[opener[l]].kind = "Engine"
          \/ entries[l].kind = "Chapter" /\ entries[opener[l]].kind = "Book"
          \/ entries[l].kind = "LayoutSession" /\ entries[opener[l]].kind = "Chapter"
    <3>1. NoParent \notin open
      BY DEF SessionsInv, IInv, OpenAlive, RegistryTypeOK, FromRaw, Generation, NoParent
    <3> QED
      BY <2>1, <3>1 DEF SessionsInv, OpenersOwn, OpenAlive, IInv, NoOrphans, RequireKind, LiveOf, ParentKind
  <2>3. h \in open /\ opener[k] \in open
    BY <1>4, <1>5
  <2>4. PICK b \in B, c \in C : opener[opener[k]] = c /\ opener[c] = b /\ opener[b] = h
    BY <1>2, <1>3, <1>4, <1>5
  <2> QED
    BY <1>2, <1>3, <2>2, <2>3, <2>4
<1> QED
  BY <1>1, <1>2, <1>3, <1>4, <1>5

\* Of what goes with an object, the books and chapters go natively as well.
LEMMA OwnedBooksReleased ==
  ASSUME SessionsInv, NEW h \in open, NEW k \in Owned(h),
         entries[k].kind \in {"Book", "Chapter"}
  PROVE  k \in Subtree(h)
<1>1. /\ h \in Live /\ Owned(h) \subseteq open /\ open \subseteq Live
      /\ \A l \in Owned(h) \ {h} : opener[l] \in Owned(h)
  BY OwnedClosed DEF SessionsInv, OpenAlive
<1>2. h \in Subtree(h) /\ \A t \in Live : entries[t].parent \in Subtree(h) => t \in Subtree(h)
  BY <1>1, SubtreeClosed DEF ChildClosed
<1>3. NoParent \notin open
  BY DEF SessionsInv, IInv, OpenAlive, RegistryTypeOK, FromRaw, Generation, NoParent
<1>4. ASSUME NEW e \in Owned(h), entries[e].kind = "Engine"
      PROVE  e = h
  BY <1>1, <1>3, <1>4 DEF SessionsInv, OpenersOwn
<1>5. ASSUME NEW b \in Owned(h), entries[b].kind = "Book"
      PROVE  b \in Subtree(h)
  <2>1. opener[b] = entries[b].parent /\ entries[entries[b].parent].kind = "Engine"
    BY <1>1, <1>5 DEF SessionsInv, OpenersOwn, IInv, NoOrphans, RequireKind, LiveOf, ParentKind
  <2> QED
    BY <1>1, <1>2, <1>4, <2>1
<1>6. ASSUME NEW c \in Owned(h), entries[c].kind = "Chapter"
      PROVE  c \in Subtree(h)
  <2>1. opener[c] = entries[c].parent /\ entries[entries[c].parent].kind = "Book"
    BY <1>1, <1>6 DEF SessionsInv, OpenersOwn, IInv, NoOrphans, RequireKind, LiveOf, ParentKind
  <2> QED
    BY <1>1, <1>2, <1>5, <2>1
<1> QED
  BY <1>5, <1>6

\* What goes natively has no object left: the objects that stay, with the
\* handles under them, are apart from what is disposed of.
LEMMA SubtreeOwned ==
  ASSUME SessionsInv, NEW h \in open
  PROVE  Subtree(h) \cap open \subseteq Owned(h)
<1> DEFINE S == Owned(h) \cup (Live \ open)
<1>1. /\ h \in Owned(h) /\ Owned(h) \subseteq open /\ open \subseteq Live
      /\ \A k \in open : opener[k] \in Owned(h) => k \in Owned(h)
  BY OwnedClosed DEF SessionsInv, OpenAlive
<1>2. ASSUME NEW t \in open, entries[t].parent \in S
      PROVE  t \in Owned(h)
  <2>1. entries[t].kind \in {"Engine", "Book", "Chapter", "LayoutSession"}
    BY DEF SessionsInv, IInv, OpenAlive, LiveOf, RegistryTypeOK, Entry, Kinds
  <2>2. CASE entries[t].kind = "Engine"
    <3>1. entries[t].parent = NoParent /\ NoParent \notin Live
      BY <1>1, <2>2 DEF SessionsInv, IInv, NoOrphans, RegistryTypeOK, FromRaw, Generation, NoParent
    <3> QED
      BY <1>1, <1>2, <3>1
  <2>3. CASE entries[t].kind \in {"Book", "Chapter"}
    BY <1>1, <1>2, <2>3 DEF SessionsInv, OpenersOwn
  <2>4. CASE entries[t].kind = "LayoutSession"
    <3> DEFINE c == opener[t]
    <3>1. c \in open /\ entries[c].kind = "Chapter" /\ entries[t].parent = entries[c].parent
      BY <2>4 DEF SessionsInv, OpenersOwn
    <3>2. opener[c] = entries[t].parent /\ opener[c] \in open
      BY <3>1 DEF SessionsInv, OpenersOwn
    <3> QED
      BY <1>1, <1>2, <3>1, <3>2
  <2> QED
    BY <2>1, <2>2, <2>3, <2>4
<1>3. S \in SUBSET Live /\ h \in S /\ ChildClosed(S)
  BY <1>1, <1>2 DEF ChildClosed
<1> QED
  BY <1>3, SubtreeLeast

LEMMA DisposePreserves ==
  ASSUME SessionsInv, NEW h \in open, DisposeObject(h)
  PROVE  /\ OpenAlive'
         /\ OpenersOwn'
         /\ Strays'
         /\ OpenersOld'
<1>1. /\ h \in Live /\ open \subseteq Live /\ open \subseteq DOMAIN opener
      /\ open \cap LiveOf("Request") = {}
  BY DEF SessionsInv, OpenAlive
<1>2. /\ Live' = Live \ Subtree(h)
      /\ \A t \in Live' : entries'[t] = entries[t]
      /\ nextGeneration' = nextGeneration
      /\ open' = open \ Owned(h) /\ opener' = opener
  BY <1>1, Removed DEF DisposeObject
<1>3. /\ h \in Owned(h) /\ Owned(h) \subseteq open
      /\ \A k \in open : opener[k] \in Owned(h) => k \in Owned(h)
      /\ \A k \in Owned(h) \ {h} : opener[k] \in Owned(h)
  BY OwnedClosed
<1>4. open' \subseteq Live'
  BY <1>1, <1>2, SubtreeOwned
<1>5. h \in Subtree(h) /\ \A t \in Live : entries[t].parent \in Subtree(h) => t \in Subtree(h)
  BY <1>1, SubtreeClosed DEF ChildClosed
<1>6. \A t \in Live : entries[t].kind \in Kinds
  BY DEF SessionsInv, IInv, RegistryTypeOK, Entry
<1>7. OpenAlive'
  BY <1>1, <1>2, <1>4 DEF OpenAlive, LiveOf
<1>8. OpenersOwn'
  <2> SUFFICES ASSUME NEW k \in open'
               PROVE  /\ entries[k].kind = "Engine" => opener[k] = NoParent
                      /\ entries[k].kind \in {"Book", "Chapter"} =>
                           opener[k] = entries[k].parent /\ opener[k] \in open'
                      /\ entries[k].kind = "LayoutSession" =>
                           /\ opener[k] \in open'
                           /\ entries[opener[k]].kind = "Chapter"
                           /\ entries[k].parent = entries[opener[k]].parent
    BY <1>2, <1>4 DEF OpenersOwn
  <2>1. k \in open /\ opener[k] \notin Owned(h)
    BY <1>2, <1>3
  <2> QED
    BY <1>2, <2>1 DEF SessionsInv, OpenersOwn
<1>9. Strays'
  <2> SUFFICES ASSUME NEW t \in Live' \ open', entries[t].kind # "Request"
               PROVE  /\ entries[t].kind = "LayoutSession"
                      /\ t \in DOMAIN opener
                      /\ opener[t] \notin open'
                      /\ entries[t].parent \in open'
    BY <1>2 DEF Strays
  <2>1. t \in Live /\ t \notin Subtree(h) /\ entries[t].parent \notin Subtree(h) /\ t # h
    BY <1>2, <1>5
  <2>2. ASSUME entries[t].kind = "LayoutSession", entries[t].parent \in open
        PROVE  entries[t].parent \in open'
    <3>1. entries[entries[t].parent].kind = "Book"
      BY <2>1, <2>2 DEF SessionsInv, IInv, NoOrphans, RequireKind, LiveOf, ParentKind
    <3> QED
      BY <1>2, <2>1, <2>2, <3>1, OwnedBooksReleased
  <2>3. CASE t \notin open
    BY <1>2, <2>1, <2>2, <2>3 DEF SessionsInv, Strays
  <2>4. CASE t \in open
    <3>1. t \in Owned(h) /\ opener[t] \in Owned(h)
      BY <1>2, <1>3, <2>1, <2>4
    <3>2. entries[t].kind # "Engine"
      <4>1. NoParent \notin open
        BY DEF SessionsInv, IInv, OpenAlive, RegistryTypeOK, FromRaw, Generation, NoParent
      <4> QED
        BY <1>3, <2>4, <3>1, <4>1 DEF SessionsInv, OpenersOwn
    <3>3. entries[t].kind \notin {"Book", "Chapter"}
      BY <2>1, <3>1, OwnedBooksReleased
    <3>4. entries[t].kind = "LayoutSession"
      BY <1>6, <2>1, <3>2, <3>3 DEF Kinds
    <3>5. entries[t].parent \in open
      BY <2>4, <3>4 DEF SessionsInv, OpenersOwn
    <3> QED
      BY <1>1, <1>2, <2>2, <2>4, <3>1, <3>4, <3>5
  <2> QED
    BY <2>3, <2>4
<1>10. OpenersOld'
  BY <1>2 DEF SessionsInv, OpenersOld
<1> QED
  BY <1>7, <1>8, <1>9, <1>10

-----------------------------------------------------------------------------
(* The invariant holds *)

LEMMA SessionsInitEstablishes == SessionsInit => SessionsInv
<1> SUFFICES ASSUME SessionsInit PROVE SessionsInv
  OBVIOUS
<1>1. IInv
  BY InitEstablishes DEF SessionsInit
<1>2. Live = {} /\ open = {} /\ DOMAIN opener = {}
  BY DEF SessionsInit, RegistryInit, Live
<1> QED
  BY <1>1, <1>2 DEF SessionsInv, OpenAlive, OpenersOwn, Strays, OpenersOld

LEMMA SessionsNextPreserves ==
  ASSUME SessionsInv, [SessionsNext]_<<registryVars, sessionVars>>
  PROVE  SessionsInv'
<1>1. IInv'
  BY SessionsStepIsRegistryStep, NextPreserves DEF SessionsInv
<1> DEFINE Objects == OpenAlive /\ OpenersOwn /\ Strays /\ OpenersOld
<1>2. ASSUME CreateEngine PROVE Objects'
  <2>1. Insert("Engine", NoParent) /\ Keeps("Engine", NoParent)
    BY <1>2 DEF CreateEngine, InsertEngine
  <2>2. "Engine" \in Kinds \ {"Request"}
    BY DEF Kinds
  <2> QED
    BY <2>1, <2>2, OpeningPreserves
<1>3. ASSUME NEW h \in open, OpenBook(h) PROVE Objects'
  BY <1>3, OpeningPreserves DEF OpenBook, InsertBook, Kinds
<1>4. ASSUME NEW h \in open, OpenChapter(h) PROVE Objects'
  BY <1>4, OpeningPreserves DEF OpenChapter, InsertChapter, Kinds
<1>5. ASSUME NEW h \in open, CreateLayout(h) PROVE Objects'
  <2>1. /\ Insert("LayoutSession", entries[h].parent) /\ Keeps("LayoutSession", h)
        /\ entries[h].kind = "Chapter"
    BY <1>5 DEF CreateLayout, InsertLayoutSession, RequireKind, LiveOf
  <2>2. "LayoutSession" \in Kinds \ {"Request"}
    BY DEF Kinds
  <2> QED
    BY <2>1, <2>2, OpeningPreserves
<1>6. ASSUME NEW h \in open, RequestPages(h) PROVE Objects'
  BY <1>6, RequestPreserves DEF RequestPages, InsertRequest
<1>7. ASSUME NEW h \in open, NEW r \in LiveOf("Request"), Retires(h, r) PROVE Objects'
  BY <1>7, RetirePreserves DEF Retires
<1>8. ASSUME NEW h \in open, DisposeObject(h) PROVE Objects'
  BY <1>8, DisposePreserves
<1>9. ASSUME UNCHANGED <<registryVars, sessionVars>> PROVE Objects'
  BY <1>9 DEF registryVars, sessionVars, SessionsInv, OpenAlive, OpenersOwn, Strays, OpenersOld,
              Live, LiveOf
<1>10. Objects'
  BY <1>2, <1>3, <1>4, <1>5, <1>6, <1>7, <1>8, <1>9
     DEF SessionsNext, SessionsOpen, SessionsClose, SessionsInv
<1> QED
  BY <1>1, <1>10 DEF SessionsInv

LEMMA SessionsInvHolds == SessionsSpec => []SessionsInv
  BY SessionsInitEstablishes, SessionsNextPreserves, PTL DEF SessionsSpec

-----------------------------------------------------------------------------
(* Theorems *)

(* The package uses the registry as the registry is meant to be used: each   *)
(* of its operations is one native insertion, disposal or retirement, or     *)
(* none.                                                                    *)
THEOREM SessionsImplementRegistry == SessionsSpec => RegistrySpec
<1>1. SessionsInit => RegistryInit
  BY DEF SessionsInit
<1>2. ASSUME SessionsInv, [SessionsNext]_<<registryVars, sessionVars>>
      PROVE  [RegistryNext]_registryVars
  BY <1>2, SessionsStepIsRegistryStep DEF SessionsInv
<1> QED
  BY <1>1, <1>2, SessionsInvHolds, PTL DEF SessionsSpec, RegistrySpec

(* In whatever order objects are opened and disposed of, each object that is *)
(* not disposed stands for a live handle, and each live handle is in reach   *)
(* of one (dispose and _markDisposedByOwner of the four classes).            *)
THEOREM SessionsKeepStep == SessionsSpec => []SessionsTrackHandles
<1>1. ASSUME SessionsInv
      PROVE  SessionsTrackHandles
  <2>1. \A h \in open : entries[h].kind \in {"Engine", "Book", "Chapter", "LayoutSession"}
    BY <1>1 DEF SessionsInv, IInv, OpenAlive, LiveOf, RegistryTypeOK, Entry, Kinds
  <2> QED
    BY <1>1, <2>1 DEF SessionsTrackHandles, SessionsInv, OpenAlive, OpenersOwn, Strays
<1> QED
  BY <1>1, SessionsInvHolds, PTL

-----------------------------------------------------------------------------
(* The reader: the invariant *)

\* The load whose objects are alive: the one that runs, or the one that is shown.
Holding == IF Running THEN loading ELSE IF mounted /\ document # <<>> THEN document[1] ELSE NoLoad

Stages == {"none", "engine", "book", "chapter", "layout", "request", "measure", "submit", "pages"}
Loads == [generation : Nat, engine : Nat, book : Nat, chapter : Nat, layout : Nat,
          request : Nat, at : Stages]

\* What a load holds at each of its stages is all that is alive.
HoldsAlone(l) ==
  /\ l.at \in {"none", "engine"} => Live = {} /\ l.engine = 0
  /\ l.at \notin {"none", "engine"} =>
       /\ LiveOf("Engine") = {l.engine} /\ l.engine \in open /\ l.engine # 0
       /\ LiveOf("Request") = IF l.at \in {"measure", "submit"} THEN {l.request} ELSE {}
  /\ l.at \in {"request", "measure", "submit", "pages"} => l.layout \in open
  /\ painters = IF l.at \in {"submit", "pages"} THEN {l.generation} ELSE {}

\* Loads run in the order they were asked for.
AskedInOrder ==
  /\ generation \in Nat /\ asked \in Seq(Nat)
  /\ \A i \in 1..Len(asked) : loading.generation < asked[i] /\ asked[i] <= generation
  /\ \A i, j \in 1..Len(asked) : i < j => asked[i] < asked[j]

\* A document that is shown is of the last load asked for.
ShownIsLast ==
  mounted /\ document # <<>> =>
    /\ ~Running /\ asked = <<>>
    /\ document[1].at = "pages" /\ document[1].generation = generation

LoadTyped ==
  /\ loading \in Loads
  /\ ~Running => loading = NoLoad
  /\ document \in Seq(Loads) /\ Len(document) <= 1

ReaderInv == SessionsInv /\ LoadTyped /\ AskedInOrder /\ ShownIsLast /\ HoldsAlone(Holding)

\* Closing is disposing of the engine's object.
LEMMA CloseIsDispose ==
  ASSUME NEW e \in open, Close(e)
  PROVE  DisposeObject(e) /\ SessionsNext
BY DEF Close, DisposeObject, SessionsNext, SessionsClose

\* The engine that is alone takes everything with it.
LEMMA ClosesAll ==
  ASSUME SessionsInv, NEW e \in open, LiveOf("Engine") = {e}, Close(e)
  PROVE  Live' = {} /\ SessionsInv'
<1>1. SessionsInv'
  BY CloseIsDispose, SessionsNextPreserves
<1>2. /\ e \in Live
      /\ Live' = Live \ Subtree(e)
      /\ \A t \in Live' : entries'[t] = entries[t]
  BY Removed DEF Close, SessionsInv, OpenAlive
<1>3. LiveOf("Engine")' = {}
  BY <1>2, SubtreeClosed DEF LiveOf
<1>4. IInv' /\ (LiveOf("Engine") = {})'
  BY <1>1, <1>3 DEF SessionsInv
<1>5. (Live = {})'
  BY <1>4, NoEngineNothing, PTL
<1> QED
  BY <1>1, <1>5

\* A step of a load leaves everything but its own record alone.
LEMMA StepShape ==
  ASSUME LoadTyped, NEW at \in Stages \ {"none"}, NEW next \in Stages \ {"none"},
         NEW field \in {"engine", "book", "chapter", "layout", "request"}, NEW token \in Nat,
         Step(at, next, field, token)
  PROVE  /\ LoadTyped' /\ Running /\ Running'
         /\ loading.at = at /\ loading'.at = next /\ loading'[field] = token
         /\ loading'.generation = loading.generation
         /\ \A f \in {"engine", "book", "chapter", "layout", "request"} \ {field} : loading'[f] = loading[f]
         /\ mounted' = mounted /\ generation' = generation /\ asked' = asked /\ document' = document
BY DEF Step, ReaderRests, LoadTyped, Loads, Running, Stages

\* ... and keeps the order of the loads.
LEMMA StepKeepsOrder ==
  ASSUME AskedInOrder, ShownIsLast, Running, Running',
         loading'.generation = loading.generation,
         mounted' = mounted, generation' = generation, asked' = asked, document' = document
  PROVE  AskedInOrder' /\ ShownIsLast'
BY DEF AskedInOrder, ShownIsLast

-----------------------------------------------------------------------------
(* The reader's steps *)

LEMMA HoldingRuns ==
  ASSUME Running PROVE Holding = loading
BY DEF Holding

\* An engine is the first thing alive.
LEMMA LoadEnginePreserves ==
  ASSUME ReaderInv, LoadEngine
  PROVE  ReaderInv'
<1> DEFINE new == NextToken("Engine")
<1>1. SessionsNext /\ Insert("Engine", NoParent) /\ open' = open \cup {new} /\ painters' = painters
  BY DEF LoadEngine, CreateEngine, InsertEngine, Keeps, SessionsNext, SessionsOpen
<1>2. /\ LiveOf("Engine")' = LiveOf("Engine") \cup {new}
      /\ LiveOf("Request")' = LiveOf("Request")
      /\ new \in Nat \ {0}
  BY <1>1, InsertAdds DEF ReaderInv, SessionsInv, Kinds
<1> HIDE DEF new
<1>3. Step("engine", "book", "engine", new)
  BY DEF LoadEngine, new
<1>4. /\ LoadTyped' /\ Running /\ Running' /\ AskedInOrder' /\ ShownIsLast'
      /\ loading.at = "engine" /\ loading'.at = "book" /\ loading'.engine = new
  BY <1>2, <1>3, StepShape, StepKeepsOrder DEF ReaderInv, Stages
<1>5. LiveOf("Engine") = {} /\ LiveOf("Request") = {} /\ painters = {}
  BY <1>4 DEF ReaderInv, HoldsAlone, Holding, LiveOf
<1>6. HoldsAlone(loading)'
  BY <1>1, <1>2, <1>4, <1>5 DEF HoldsAlone
<1>7. HoldsAlone(Holding)'
  BY <1>4, <1>6 DEF Holding
<1> QED
  BY <1>1, <1>4, <1>7, SessionsNextPreserves DEF ReaderInv

\* A book, a chapter or a layout is opened.
LEMMA ObjectPreserves ==
  ASSUME ReaderInv, NEW kind \in {"Book", "Chapter", "LayoutSession"}, NEW parent, NEW owner,
         NEW at \in {"book", "chapter", "layout"}, NEW next \in {"chapter", "layout", "request"},
         NEW field \in {"book", "chapter", "layout"},
         at = "layout" <=> next = "request", next = "request" => field = "layout",
         SessionsNext, Insert(kind, parent), Keeps(kind, owner),
         Step(at, next, field, NextToken(kind)), UNCHANGED painters
  PROVE  ReaderInv'
<1> DEFINE new == NextToken(kind)
<1>1. open' = open \cup {new} /\ painters' = painters
  BY DEF Keeps
<1>2. /\ LiveOf("Engine")' = LiveOf("Engine")
      /\ LiveOf("Request")' = LiveOf("Request")
      /\ new \in Nat \ {0}
  BY InsertAdds DEF ReaderInv, SessionsInv, Kinds
<1>3. Step(at, next, field, new)
  OBVIOUS
<1> HIDE DEF new
<1>4. /\ LoadTyped' /\ Running /\ Running'
      /\ loading.at = at /\ loading'.at = next /\ loading'[field] = new
      /\ loading'.generation = loading.generation
      /\ loading'.engine = loading.engine
      /\ mounted' = mounted /\ generation' = generation /\ asked' = asked /\ document' = document
  BY <1>2, <1>3, StepShape DEF ReaderInv, Stages
<1>5. AskedInOrder' /\ ShownIsLast'
  BY <1>4, StepKeepsOrder DEF ReaderInv
<1>6. /\ LiveOf("Engine") = {loading.engine} /\ loading.engine \in open /\ loading.engine # 0
      /\ LiveOf("Request") = {} /\ painters = {}
  BY <1>4, HoldingRuns DEF ReaderInv, HoldsAlone
<1>7. HoldsAlone(loading)'
  BY <1>1, <1>2, <1>4, <1>6 DEF HoldsAlone
<1>8. HoldsAlone(Holding)'
  BY <1>4, <1>7 DEF Holding
<1> QED
  BY <1>4, <1>5, <1>8, SessionsNextPreserves DEF ReaderInv

LEMMA LoadObjectPreserves ==
  ASSUME ReaderInv, LoadBook \/ LoadChapter \/ LoadLayout
  PROVE  ReaderInv'
<1>1. CASE LoadBook
  <2>1. SessionsNext /\ Insert("Book", loading.engine) /\ Keeps("Book", loading.engine)
    BY <1>1 DEF LoadBook, OpenBook, InsertBook, SessionsNext, SessionsOpen
  <2>2. Step("book", "chapter", "book", NextToken("Book")) /\ UNCHANGED painters
    BY <1>1 DEF LoadBook
  <2> QED
    BY <2>1, <2>2, ObjectPreserves
<1>2. CASE LoadChapter
  <2>1. SessionsNext /\ Insert("Chapter", loading.book) /\ Keeps("Chapter", loading.book)
    BY <1>2 DEF LoadChapter, OpenChapter, InsertChapter, SessionsNext, SessionsOpen
  <2>2. Step("chapter", "layout", "chapter", NextToken("Chapter")) /\ UNCHANGED painters
    BY <1>2 DEF LoadChapter
  <2> QED
    BY <2>1, <2>2, ObjectPreserves
<1>3. CASE LoadLayout
  <2>1. /\ SessionsNext /\ Insert("LayoutSession", entries[loading.chapter].parent)
        /\ Keeps("LayoutSession", loading.chapter)
    BY <1>3 DEF LoadLayout, CreateLayout, InsertLayoutSession, SessionsNext, SessionsOpen
  <2>2. Step("layout", "request", "layout", NextToken("LayoutSession")) /\ UNCHANGED painters
    BY <1>3 DEF LoadLayout
  <2> QED
    BY <2>1, <2>2, ObjectPreserves
<1> QED
  BY <1>1, <1>2, <1>3

\* The request is the only one.
LEMMA LoadRequestPreserves ==
  ASSUME ReaderInv, LoadRequest
  PROVE  ReaderInv'
<1> DEFINE new == NextToken("Request")
<1>1. SessionsNext /\ Insert("Request", loading.layout) /\ open' = open /\ painters' = painters
  BY DEF LoadRequest, RequestPages, InsertRequest, sessionVars, SessionsNext, SessionsOpen
<1>2. /\ LiveOf("Request")' = LiveOf("Request") \cup {new}
      /\ LiveOf("Engine")' = LiveOf("Engine")
      /\ new \in Nat \ {0}
  BY <1>1, InsertAdds DEF ReaderInv, SessionsInv, Kinds
<1> HIDE DEF new
<1>3. Step("request", "measure", "request", new)
  BY DEF LoadRequest, new
<1>4. /\ LoadTyped' /\ Running /\ Running'
      /\ loading.at = "request" /\ loading'.at = "measure" /\ loading'.request = new
      /\ loading'.generation = loading.generation
      /\ loading'.engine = loading.engine /\ loading'.layout = loading.layout
      /\ mounted' = mounted /\ generation' = generation /\ asked' = asked /\ document' = document
  BY <1>2, <1>3, StepShape DEF ReaderInv, Stages
<1>5. AskedInOrder' /\ ShownIsLast'
  BY <1>4, StepKeepsOrder DEF ReaderInv
<1>6. /\ LiveOf("Engine") = {loading.engine} /\ loading.engine \in open /\ loading.engine # 0
      /\ LiveOf("Request") = {} /\ painters = {} /\ loading.layout \in open
  BY <1>4, HoldingRuns DEF ReaderInv, HoldsAlone
<1>7. HoldsAlone(loading)'
  BY <1>1, <1>2, <1>4, <1>6 DEF HoldsAlone
<1>8. HoldsAlone(Holding)'
  BY <1>4, <1>7 DEF Holding
<1> QED
  BY <1>1, <1>4, <1>5, <1>8, SessionsNextPreserves DEF ReaderInv

\* The painters are those of the load that runs.
LEMMA MeasurePreserves ==
  ASSUME ReaderInv, Measure
  PROVE  ReaderInv'
<1>1. /\ UNCHANGED <<registryVars, sessionVars>>
      /\ painters' = painters \cup {loading.generation}
      /\ Step("measure", "submit", "request", loading.request)
  BY DEF Measure
<1>2. loading.request \in Nat
  BY DEF ReaderInv, LoadTyped, Loads
<1>3. /\ LoadTyped' /\ Running /\ Running'
      /\ loading.at = "measure" /\ loading'.at = "submit" /\ loading'.request = loading.request
      /\ loading'.generation = loading.generation
      /\ loading'.engine = loading.engine /\ loading'.layout = loading.layout
      /\ mounted' = mounted /\ generation' = generation /\ asked' = asked /\ document' = document
  BY <1>1, <1>2, StepShape DEF ReaderInv, Stages
<1>4. AskedInOrder' /\ ShownIsLast'
  BY <1>3, StepKeepsOrder DEF ReaderInv
<1>5. HoldsAlone(loading) /\ LiveOf("Engine")' = LiveOf("Engine") /\ LiveOf("Request")' = LiveOf("Request")
      /\ open' = open
  BY <1>1, <1>3, HoldingRuns DEF ReaderInv, registryVars, sessionVars, LiveOf, Live
<1>6. HoldsAlone(loading)'
  BY <1>1, <1>3, <1>5 DEF HoldsAlone
<1>7. HoldsAlone(Holding)'
  BY <1>3, <1>6 DEF Holding
<1> QED
  BY <1>1, <1>3, <1>4, <1>7, SessionsNextPreserves DEF ReaderInv

\* A request that is retired takes nothing with it.
LEMMA RetiresOne ==
  ASSUME SessionsInv, NEW layout, NEW r, Retires(layout, r)
  PROVE  /\ SessionsNext /\ open' = open
         /\ LiveOf("Engine")' = LiveOf("Engine")
         /\ LiveOf("Request")' = LiveOf("Request") \ {r}
<1>1. layout \in open /\ r \in LiveOf("Request") /\ r \in Live /\ entries[r].kind = "Request"
  BY DEF Retires, Dispose, LiveOf
<1>2. Subtree(r) = {r}
  BY <1>1, RequestOwnsNothing DEF SessionsInv
<1>3. /\ Live' = Live \ {r}
      /\ \A t \in Live' : entries'[t] = entries[t]
  BY <1>1, <1>2, Removed DEF Retires
<1> QED
  BY <1>1, <1>3 DEF LiveOf, Retires, SessionsNext, SessionsClose, sessionVars

LEMMA SubmitPreserves ==
  ASSUME ReaderInv, SubmitMeasured
  PROVE  ReaderInv'
<1>1. /\ Retires(loading.layout, loading.request)
      /\ painters' = painters
      /\ Step("submit", "pages", "request", 0)
  BY DEF SubmitMeasured
<1>2. /\ SessionsNext /\ open' = open
      /\ LiveOf("Engine")' = LiveOf("Engine")
      /\ LiveOf("Request")' = LiveOf("Request") \ {loading.request}
  BY <1>1, RetiresOne DEF ReaderInv
<1>3. /\ LoadTyped' /\ Running /\ Running'
      /\ loading.at = "submit" /\ loading'.at = "pages"
      /\ loading'.generation = loading.generation
      /\ loading'.engine = loading.engine /\ loading'.layout = loading.layout
      /\ mounted' = mounted /\ generation' = generation /\ asked' = asked /\ document' = document
  BY <1>1, StepShape DEF ReaderInv, Stages
<1>4. AskedInOrder' /\ ShownIsLast'
  BY <1>3, StepKeepsOrder DEF ReaderInv
<1>5. HoldsAlone(loading)
  BY <1>3, HoldingRuns DEF ReaderInv
<1>6. HoldsAlone(loading)'
  BY <1>1, <1>2, <1>3, <1>5 DEF HoldsAlone
<1>7. HoldsAlone(Holding)'
  BY <1>3, <1>6 DEF Holding
<1> QED
  BY <1>2, <1>3, <1>4, <1>7, SessionsNextPreserves DEF ReaderInv

\* What is discarded is all that is alive, if anything is.
LEMMA DiscardsAll ==
  ASSUME ReaderInv, mounted, ~Running, Discards
  PROVE  SessionsInv' /\ Live' = {} /\ painters' = {}
<1>1. CASE document = <<>>
  <2>1. UNCHANGED <<registryVars, sessionVars, painters>> /\ Holding = NoLoad
    BY <1>1 DEF Discards, Holding
  <2>2. Live = {} /\ painters = {}
    BY <2>1 DEF ReaderInv, HoldsAlone, NoLoad
  <2>3. SessionsInv'
    BY <2>1, SessionsNextPreserves DEF ReaderInv
  <2> QED
    BY <2>1, <2>2, <2>3 DEF registryVars, Live
<1>2. CASE document # <<>>
  <2>1. Close(document[1].engine) /\ painters' = painters \ {document[1].generation}
        /\ Holding = document[1] /\ document[1].at = "pages"
    BY <1>2 DEF Discards, Holding, ReaderInv, ShownIsLast
  <2>2. /\ LiveOf("Engine") = {document[1].engine} /\ document[1].engine \in open
        /\ painters = {document[1].generation}
    BY <2>1 DEF ReaderInv, HoldsAlone
  <2> QED
    BY <2>1, <2>2, ClosesAll DEF ReaderInv
<1> QED
  BY <1>1, <1>2

\* With nothing alive there is nothing to hold.
LEMMA NothingHeld ==
  ASSUME Live = {}, painters = {}, NEW l, l.at \in {"none", "engine"}, l.engine = 0
  PROVE  HoldsAlone(l)
BY DEF HoldsAlone

LEMMA NoLoadHoldsNothing == NoLoad.at = "none" /\ NoLoad.engine = 0 /\ NoLoad.generation = 0 /\ NoLoad \in Loads
BY DEF NoLoad, Loads, Stages

\* A change and a close discard what is shown.
LEMMA ChangePreserves ==
  ASSUME ReaderInv, Change
  PROVE  ReaderInv'
<1>1. /\ mounted /\ ~Running /\ Discards
      /\ generation' = generation + 1 /\ asked' = Append(asked, generation + 1)
      /\ document' = <<>> /\ loading' = loading /\ ~Running'
  BY DEF Change, Running
<1>2. SessionsInv' /\ Live' = {} /\ painters' = {}
  BY <1>1, DiscardsAll
<1>3. LoadTyped'
  BY <1>1 DEF ReaderInv, LoadTyped
<1>4. AskedInOrder'
  <2>1. /\ generation \in Nat /\ asked \in Seq(Nat) /\ loading.generation = 0
        /\ \A i \in 1..Len(asked) : loading.generation < asked[i] /\ asked[i] <= generation
        /\ \A i, j \in 1..Len(asked) : i < j => asked[i] < asked[j]
    BY <1>1, NoLoadHoldsNothing DEF ReaderInv, AskedInOrder, LoadTyped
  <2>2. /\ asked' \in Seq(Nat) /\ Len(asked') = Len(asked) + 1
        /\ \A i \in 1..Len(asked) : asked'[i] = asked[i]
        /\ asked'[Len(asked) + 1] = generation + 1
    BY <1>1, <2>1
  <2> QED
    BY <1>1, <2>1, <2>2 DEF AskedInOrder
<1>5. ShownIsLast'
  BY <1>1 DEF ShownIsLast
<1>6. Holding' = NoLoad
  BY <1>1 DEF Holding
<1>7. HoldsAlone(Holding)'
  BY <1>2, <1>6, NoLoadHoldsNothing DEF HoldsAlone
<1> QED
  BY <1>2, <1>3, <1>4, <1>5, <1>7 DEF ReaderInv

LEMMA UnmountPreserves ==
  ASSUME ReaderInv, Unmount
  PROVE  ReaderInv'
<1>1. /\ mounted /\ ~mounted' /\ ~Running /\ Discards
      /\ generation' = generation + 1 /\ asked' = asked
      /\ document' = document /\ loading' = loading /\ ~Running'
  BY DEF Unmount, Running
<1>2. SessionsInv' /\ Live' = {} /\ painters' = {}
  BY <1>1, DiscardsAll
<1>3. LoadTyped' /\ AskedInOrder' /\ ShownIsLast'
  BY <1>1 DEF ReaderInv, LoadTyped, AskedInOrder, ShownIsLast
<1>4. Holding' = NoLoad
  BY <1>1 DEF Holding
<1>5. HoldsAlone(Holding)'
  BY <1>2, <1>4, NoLoadHoldsNothing DEF HoldsAlone
<1> QED
  BY <1>2, <1>3, <1>5 DEF ReaderInv

\* A load begins only when nothing is shown.
LEMMA BeginPreserves ==
  ASSUME ReaderInv, Begin
  PROVE  ReaderInv'
<1>1. /\ ~Running /\ asked # <<>>
      /\ loading' = Started(Head(asked)) /\ asked' = Tail(asked)
      /\ UNCHANGED <<registryVars, sessionVars, mounted, generation, document, painters>>
  BY DEF Begin
<1>2. /\ asked \in Seq(Nat) /\ generation \in Nat
      /\ \A i \in 1..Len(asked) : asked[i] <= generation
      /\ \A i, j \in 1..Len(asked) : i < j => asked[i] < asked[j]
  BY DEF ReaderInv, AskedInOrder
<1>3. /\ Head(asked) \in Nat /\ Head(asked) = asked[1] /\ Len(asked) > 0
      /\ asked' \in Seq(Nat) /\ Len(asked') = Len(asked) - 1
      /\ \A i \in 1..Len(asked') : asked'[i] = asked[i + 1]
  BY <1>1, <1>2
<1>4. /\ loading' \in Loads /\ loading'.at = "engine" /\ loading'.engine = 0
      /\ loading'.generation = asked[1] /\ Running'
  BY <1>1, <1>3 DEF Started, NoLoad, Loads, Stages, Running
<1>5. LoadTyped'
  BY <1>1, <1>4 DEF ReaderInv, LoadTyped
<1>6. AskedInOrder'
  BY <1>1, <1>2, <1>3, <1>4 DEF AskedInOrder
<1>7. ~(mounted /\ document # <<>>)
  BY <1>1 DEF ReaderInv, ShownIsLast
<1>8. ShownIsLast'
  BY <1>1, <1>7 DEF ShownIsLast
<1>9. Live = {} /\ painters = {}
  BY <1>1, <1>7, NoLoadHoldsNothing DEF ReaderInv, Holding, HoldsAlone
<1>10. SessionsInv' /\ Live' = {} /\ painters' = {}
  BY <1>1, <1>9, SessionsNextPreserves DEF ReaderInv, registryVars, Live
<1>11. HoldsAlone(Holding)'
  BY <1>4, <1>10 DEF HoldsAlone, Holding
<1> QED
  BY <1>5, <1>6, <1>8, <1>10, <1>11 DEF ReaderInv

\* A load that ends without a document leaves nothing behind.
LEMMA EndPreserves ==
  ASSUME ReaderInv, Running, SessionsInv', Live' = {}, painters' = {}, loading' = NoLoad,
         UNCHANGED <<mounted, generation, asked, document>>
  PROVE  ReaderInv'
<1>1. ~(mounted /\ document # <<>>) /\ ~Running'
  BY NoLoadHoldsNothing DEF ReaderInv, ShownIsLast, Running
<1>2. LoadTyped'
  BY NoLoadHoldsNothing DEF ReaderInv, LoadTyped
<1>3. AskedInOrder'
  <2>1. /\ generation \in Nat /\ asked \in Seq(Nat) /\ loading.generation \in Nat
        /\ \A i \in 1..Len(asked) : loading.generation < asked[i] /\ asked[i] <= generation
        /\ \A i, j \in 1..Len(asked) : i < j => asked[i] < asked[j]
    BY DEF ReaderInv, AskedInOrder, LoadTyped, Loads
  <2>2. \A i \in 1..Len(asked) : loading'.generation < asked[i]
    BY <2>1, NoLoadHoldsNothing
  <2> QED
    BY <2>1, <2>2 DEF AskedInOrder
<1>4. ShownIsLast' /\ Holding' = NoLoad
  BY <1>1 DEF ShownIsLast, Holding
<1>5. HoldsAlone(Holding)'
  BY <1>4, NoLoadHoldsNothing DEF HoldsAlone
<1> QED
  BY <1>2, <1>3, <1>4, <1>5 DEF ReaderInv

LEMMA FailPreserves ==
  ASSUME ReaderInv, Fail
  PROVE  ReaderInv'
<1>1. /\ Running /\ loading' = NoLoad
      /\ painters' = painters \ {loading.generation}
      /\ IF loading.engine = 0 THEN UNCHANGED <<registryVars, sessionVars>> ELSE Close(loading.engine)
      /\ UNCHANGED <<mounted, generation, asked, document>>
  BY DEF Fail
<1>2. HoldsAlone(loading) /\ loading.at \in Stages \ {"none"}
  BY <1>1, HoldingRuns DEF ReaderInv, LoadTyped, Loads, Running
<1>3. painters' = {}
  BY <1>1, <1>2 DEF HoldsAlone
<1>4. SessionsInv' /\ Live' = {}
  <2>1. CASE loading.at = "engine"
    <3>1. Live = {} /\ UNCHANGED <<registryVars, sessionVars>>
      BY <1>1, <1>2, <2>1 DEF HoldsAlone
    <3>2. SessionsInv'
      BY <3>1, SessionsNextPreserves DEF ReaderInv
    <3> QED
      BY <3>1, <3>2 DEF registryVars, Live
  <2>2. CASE loading.at # "engine"
    <3>1. LiveOf("Engine") = {loading.engine} /\ loading.engine \in open /\ Close(loading.engine)
      BY <1>1, <1>2, <2>2 DEF HoldsAlone
    <3> QED
      BY <3>1, ClosesAll DEF ReaderInv
  <2> QED
    BY <2>1, <2>2
<1> QED
  BY <1>1, <1>3, <1>4, EndPreserves

LEMMA DiscardLatePreserves ==
  ASSUME ReaderInv, DiscardLate
  PROVE  ReaderInv'
<1>1. /\ Running /\ loading.at = "pages" /\ loading' = NoLoad
      /\ painters' = painters \ {loading.generation}
      /\ Close(loading.engine)
      /\ UNCHANGED <<mounted, generation, asked, document>>
  BY DEF DiscardLate, Running
<1>2. /\ LiveOf("Engine") = {loading.engine} /\ loading.engine \in open
      /\ painters = {loading.generation}
  BY <1>1, HoldingRuns DEF ReaderInv, HoldsAlone
<1> QED
  BY <1>1, <1>2, ClosesAll, EndPreserves DEF ReaderInv

\* A document is shown only if no load was asked for after it.
LEMMA ShowPreserves ==
  ASSUME ReaderInv, Show
  PROVE  ReaderInv'
<1>1. /\ Running /\ loading.at = "pages" /\ mounted /\ loading.generation = generation
      /\ document' = <<loading>> /\ loading' = NoLoad
      /\ UNCHANGED <<registryVars, sessionVars, mounted, generation, asked, painters>>
  BY DEF Show, Running, Wanted
<1>2. ~Running' /\ document'[1] = loading /\ document' # <<>>
  BY <1>1, NoLoadHoldsNothing DEF Running
<1>3. LoadTyped'
  BY <1>1, NoLoadHoldsNothing DEF ReaderInv, LoadTyped
<1>4. asked = <<>>
  <2>1. /\ generation \in Nat /\ asked \in Seq(Nat)
        /\ \A i \in 1..Len(asked) : loading.generation < asked[i] /\ asked[i] <= generation
    BY DEF ReaderInv, AskedInOrder
  <2>2. ~ (1 \in 1..Len(asked))
    BY <1>1, <2>1
  <2> QED
    BY <2>1, <2>2
<1>5. AskedInOrder'
  BY <1>1, <1>4, NoLoadHoldsNothing DEF ReaderInv, AskedInOrder
<1>6. ShownIsLast' /\ Holding' = loading
  BY <1>1, <1>2, <1>4 DEF ShownIsLast, Holding
<1>7. HoldsAlone(loading)
  BY <1>1, HoldingRuns DEF ReaderInv
<1>8. HoldsAlone(Holding)'
  BY <1>1, <1>6, <1>7 DEF HoldsAlone, registryVars, sessionVars, LiveOf, Live
<1>9. SessionsInv'
  BY <1>1, SessionsNextPreserves DEF ReaderInv
<1> QED
  BY <1>3, <1>5, <1>6, <1>8, <1>9 DEF ReaderInv

\* What only the selection, or nothing, sees.
LEMMA RestPreserves ==
  ASSUME ReaderInv,
         UNCHANGED <<registryVars, sessionVars, mounted, generation, asked, loading, document, painters>>
  PROVE  ReaderInv'
<1>1. SessionsInv'
  BY SessionsNextPreserves DEF ReaderInv
<1>2. Holding' = Holding /\ LiveOf("Engine")' = LiveOf("Engine") /\ LiveOf("Request")' = LiveOf("Request")
      /\ Live' = Live /\ open' = open
  BY DEF Holding, Running, registryVars, sessionVars, LiveOf, Live
<1>3. HoldsAlone(Holding)'
  BY <1>2 DEF ReaderInv, HoldsAlone
<1> QED
  BY <1>1, <1>3 DEF ReaderInv, LoadTyped, AskedInOrder, ShownIsLast, Running

-----------------------------------------------------------------------------
(* The reader keeps one document *)

LEMMA ReaderInitEstablishes == ReaderInit => ReaderInv
<1> SUFFICES ASSUME ReaderInit PROVE ReaderInv
  OBVIOUS
<1>1. /\ SessionsInit /\ generation = 1 /\ asked = <<1>>
      /\ loading = NoLoad /\ document = <<>> /\ painters = {}
  BY DEF ReaderInit, ReaderStarts
<1>2. SessionsInv
  BY <1>1, SessionsInitEstablishes
<1>3. Live = {}
  BY <1>1 DEF SessionsInit, RegistryInit, Live
<1>4. LoadTyped /\ AskedInOrder /\ ShownIsLast
  BY <1>1, NoLoadHoldsNothing DEF LoadTyped, AskedInOrder, ShownIsLast
<1>5. Holding = NoLoad
  BY <1>1, NoLoadHoldsNothing DEF Holding, Running
<1>6. HoldsAlone(NoLoad)
  BY <1>1, <1>3, NoLoadHoldsNothing, NothingHeld
<1> QED
  BY <1>2, <1>4, <1>5, <1>6 DEF ReaderInv

LEMMA ReaderNextPreserves ==
  ASSUME ReaderInv, [ReaderNext]_loadVars
  PROVE  ReaderInv'
<1>1. CASE LoadEngine \/ LoadBook \/ LoadChapter \/ LoadLayout \/ LoadRequest
  BY <1>1, LoadEnginePreserves, LoadObjectPreserves, LoadRequestPreserves
<1>2. CASE Measure \/ SubmitMeasured
  BY <1>2, MeasurePreserves, SubmitPreserves
<1>3. CASE Change \/ Unmount \/ Begin
  BY <1>3, ChangePreserves, UnmountPreserves, BeginPreserves
<1>4. CASE Fail \/ Show \/ DiscardLate
  BY <1>4, FailPreserves, ShowPreserves, DiscardLatePreserves
<1>5. CASE Tap
  BY <1>5, RestPreserves DEF Tap
<1>6. CASE UNCHANGED loadVars
  BY <1>6, RestPreserves DEF loadVars, readerVars
<1> QED
  BY <1>1, <1>2, <1>3, <1>4, <1>5, <1>6 DEF ReaderNext

\* Every step of the reader is one operation on the package's objects, or none.
LEMMA ReaderStepIsSessionsStep ==
  ASSUME ReaderInv, [ReaderNext]_loadVars
  PROVE  [SessionsNext]_<<registryVars, sessionVars>>
<1> DEFINE Unchanged == UNCHANGED <<registryVars, sessionVars>>
<1>1. CASE LoadEngine \/ LoadBook \/ LoadChapter \/ LoadLayout \/ LoadRequest
  BY <1>1 DEF LoadEngine, LoadBook, LoadChapter, LoadLayout, LoadRequest, OpenBook, OpenChapter,
              CreateLayout, RequestPages, SessionsNext, SessionsOpen
<1>2. CASE SubmitMeasured
  BY <1>2, RetiresOne DEF SubmitMeasured, ReaderInv
<1>3. ASSUME Change \/ Unmount PROVE SessionsNext \/ Unchanged
  <2>1. Discards /\ mounted /\ ~Running
    BY <1>3 DEF Change, Unmount
  <2>2. CASE document = <<>>
    BY <2>1, <2>2 DEF Discards
  <2>3. CASE document # <<>>
    <3>1. Close(document[1].engine) /\ Holding = document[1] /\ document[1].at = "pages"
      BY <2>1, <2>3 DEF Discards, Holding, ReaderInv, ShownIsLast
    <3>2. document[1].engine \in open
      BY <3>1 DEF ReaderInv, HoldsAlone
    <3> QED
      BY <3>1, <3>2, CloseIsDispose
  <2> QED
    BY <2>2, <2>3
<1>4. ASSUME Fail \/ DiscardLate PROVE SessionsNext \/ Unchanged
  <2>1. Running /\ HoldsAlone(loading) /\ loading.at \in Stages \ {"none"}
    BY <1>4, HoldingRuns DEF Fail, DiscardLate, Running, ReaderInv, LoadTyped, Loads
  <2>2. Unchanged \/ (Close(loading.engine) /\ loading.engine # 0)
    BY <1>4, <2>1 DEF Fail, DiscardLate, HoldsAlone
  <2>3. loading.engine # 0 => loading.engine \in open
    BY <2>1 DEF HoldsAlone
  <2> QED
    BY <2>2, <2>3, CloseIsDispose
<1>5. ASSUME Measure \/ Begin \/ Show \/ Tap PROVE Unchanged
  BY <1>5 DEF Measure, Begin, Show, Tap
<1>6. ASSUME UNCHANGED loadVars PROVE Unchanged
  BY <1>6 DEF loadVars
<1> QED
  BY <1>1, <1>2, <1>3, <1>4, <1>5, <1>6 DEF ReaderNext

LEMMA ReaderInvHolds == ReaderSpec => []ReaderInv
  BY ReaderInitEstablishes, ReaderNextPreserves, PTL DEF ReaderSpec

(* The reader is one of the hosts the package is written for: whatever loads *)
(* fail or come too late, it opens, requests and disposes as SessionsSpec     *)
(* allows, so all that is proved of the objects holds under it               *)
(* (_loadDocument, _load and dispose of pagelet_reader.dart).                *)
THEOREM ReaderImplementsSessions == ReaderSpec => SessionsSpec
<1>1. ReaderInit => SessionsInit
  BY DEF ReaderInit, ReaderStarts
<1> QED
  BY <1>1, ReaderStepIsSessionsStep, ReaderInvHolds, PTL DEF ReaderSpec, SessionsSpec

(* However often the reader is changed, closed or reopened while loads are    *)
(* waiting or fail half-way, what is alive is what the document on the screen *)
(* holds, that document answers to the last change, and without one nothing   *)
(* is alive (_load and dispose of pagelet_reader.dart).                       *)
THEOREM ReaderHoldsOneDocument == ReaderSpec => []ReaderKeepsOneDocument
<1>1. ASSUME ReaderInv
      PROVE  ReaderKeepsOneDocument
  <2> SUFFICES ASSUME ~Running
               PROVE  LET shown == IF mounted THEN document ELSE <<>>
                      IN  /\ LiveOf("Engine") = {d.engine : d \in {shown[i] : i \in DOMAIN shown}}
                          /\ painters = {d.generation : d \in {shown[i] : i \in DOMAIN shown}}
                          /\ shown # <<>> => /\ shown[1].generation = generation
                                             /\ shown[1].layout \in open
                                             /\ RequestsOf(shown[1].layout) = {}
                          /\ shown = <<>> => Live = {}
    BY DEF ReaderKeepsOneDocument
  <2>1. CASE mounted /\ document # <<>>
    <3>1. DOMAIN document = {1}
      <4>1. document \in Seq(Loads) /\ Len(document) <= 1
        BY <1>1 DEF ReaderInv, LoadTyped
      <4>2. Len(document) \in Nat /\ document \in [1..Len(document) -> Loads]
        BY <4>1, LenProperties
      <4>3. Len(document) # 0
        BY <2>1, <4>1, EmptySeq
      <4>4. Len(document) = 1
        BY <4>1, <4>2, <4>3
      <4> QED
        BY <4>2, <4>4
    <3>2. Holding = document[1] /\ document[1].at = "pages" /\ document[1].generation = generation
      BY <1>1, <2>1 DEF ReaderInv, ShownIsLast, Holding
    <3>3. /\ LiveOf("Engine") = {document[1].engine} /\ LiveOf("Request") = {}
          /\ painters = {document[1].generation} /\ document[1].layout \in open
      BY <1>1, <3>2 DEF ReaderInv, HoldsAlone
    <3> QED
      BY <2>1, <3>1, <3>2, <3>3 DEF RequestsOf
  <2>2. CASE ~(mounted /\ document # <<>>)
    <3>1. Holding = NoLoad
      BY <2>2 DEF Holding
    <3>2. Live = {} /\ painters = {}
      BY <1>1, <3>1, NoLoadHoldsNothing DEF ReaderInv, HoldsAlone
    <3>3. LiveOf("Engine") = {} /\ (IF mounted THEN document ELSE <<>>) = <<>> /\ DOMAIN <<>> = {}
      BY <2>2, <3>2 DEF LiveOf
    <3> QED
      BY <3>2, <3>3
  <2> QED
    BY <2>1, <2>2
<1> QED
  BY <1>1, ReaderInvHolds, PTL

-----------------------------------------------------------------------------
(* An engine and its threads *)

USE WorkerAssumption

-----------------------------------------------------------------------------
(* The scheduler *)

Requests == [id : Nat, generation : Nat, priority : Priorities]

SchedulerTyped ==
  /\ current \in Nat /\ nextRequest \in Nat
  /\ running \subseteq Requests
  /\ IsFiniteSet(running)

\* What runs has an id of its own, given out and not yet again.
IdsUnique ==
  /\ \A r \in running : r.id < nextRequest
  /\ \A r, s \in running : r.id = s.id => r = s

\* The scheduler keeps all that runs and is wanted.
WantedKept == Kept = Working

\* What was scheduled before the last invalidation is of an older generation.
OutdatedOlder == \A r \in running : r.id \in outdated => r.generation # current

GenerationsPast == \A r \in running : r.generation <= current

SchedulerInv ==
  /\ SchedulerTyped /\ IdsUnique /\ WantedKept /\ OutdatedOlder /\ GenerationsPast
  /\ outdated \subseteq 0 .. nextRequest - 1
  /\ WorkersWithinLimits

LEMMA WorkingFinite ==
  ASSUME SchedulerTyped
  PROVE  /\ IsFiniteSet(Working)
         /\ \A priority : IsFiniteSet(Lane(Working, priority))
<1>1. Working \subseteq running /\ \A priority : Lane(Working, priority) \subseteq Working
  BY DEF Working, Lane
<1> QED
  BY <1>1, FS_Subset DEF SchedulerTyped

\* The limits hold of any smaller work.
LEMMA LimitsOfLess ==
  ASSUME SchedulerTyped, WorkersWithinLimits, Working' \subseteq Working
  PROVE  WorkersWithinLimits'
<1>1. Cardinality(Working') <= MaxInflight
  <2>1. Cardinality(Working') <= Cardinality(Working) /\ Cardinality(Working) \in Nat
    BY WorkingFinite, FS_Subset, FS_CardinalityType
  <2>2. Cardinality(Working') \in Nat
    BY WorkingFinite, FS_Subset, FS_CardinalityType
  <2> QED
    BY <2>1, <2>2 DEF WorkersWithinLimits
<1>2. ASSUME NEW priority \in Priorities
      PROVE  Cardinality(Lane(Working', priority)) <= LaneCapacity[priority]
  <2>1. Lane(Working', priority) \subseteq Lane(Working, priority)
    BY DEF Lane
  <2>2. /\ Cardinality(Lane(Working', priority)) <= Cardinality(Lane(Working, priority))
        /\ Cardinality(Lane(Working, priority)) \in Nat
        /\ Cardinality(Lane(Working', priority)) \in Nat
    BY <2>1, WorkingFinite, FS_Subset, FS_CardinalityType
  <2>3. LaneCapacity[priority] \in Nat
    BY DEF LaneCapacity, Priorities
  <2> QED
    BY <2>2, <2>3 DEF WorkersWithinLimits
<1> QED
  BY <1>1, <1>2 DEF WorkersWithinLimits

LEMMA AddsAtMostOne ==
  ASSUME NEW S, IsFiniteSet(S), NEW x
  PROVE  /\ Cardinality(S) \in Nat
         /\ Cardinality(S \cup {x}) \in Nat
         /\ Cardinality(S \cup {x}) <= Cardinality(S) + 1
<1>1. Cardinality(S) \in Nat
  BY FS_CardinalityType
<1>2. Cardinality(S \cup {x}) = IF x \in S THEN Cardinality(S) ELSE Cardinality(S) + 1
  BY FS_AddElement
<1> QED
  BY <1>1, <1>2

\* Work is added only below the limits.
LEMMA LimitsOfAdmitted ==
  ASSUME SchedulerInv, NEW priority \in Priorities, Admits(priority),
         NEW request, request.priority = priority, Working' = Working \cup {request}
  PROVE  WorkersWithinLimits'
<1>0. SchedulerTyped /\ WorkersWithinLimits /\ Kept = Working
  BY DEF SchedulerInv, WantedKept
<1>1. Cardinality(Working') <= MaxInflight
  <2>1. /\ Cardinality(Working) \in Nat
        /\ Cardinality(Working \cup {request}) \in Nat
        /\ Cardinality(Working \cup {request}) <= Cardinality(Working) + 1
    BY <1>0, WorkingFinite, AddsAtMostOne
  <2> QED
    BY <1>0, <2>1 DEF Admits
<1>2. ASSUME NEW p \in Priorities
      PROVE  Cardinality(Lane(Working', p)) <= LaneCapacity[p]
  <2>1. CASE p = priority
    <3>1. Lane(Working', p) = Lane(Working, p) \cup {request}
      BY <2>1 DEF Lane
    <3>2. /\ Cardinality(Lane(Working', p)) <= Cardinality(Lane(Working, p)) + 1
          /\ Cardinality(Lane(Working, p)) \in Nat
          /\ Cardinality(Lane(Working', p)) \in Nat
      BY <1>0, <3>1, WorkingFinite, AddsAtMostOne
    <3>3. LaneCapacity[p] \in Nat
      BY DEF LaneCapacity, Priorities
    <3> QED
      BY <1>0, <2>1, <3>2, <3>3 DEF Admits
  <2>2. CASE p # priority
    <3>1. Lane(Working', p) = Lane(Working, p)
      BY <2>2 DEF Lane
    <3> QED
      BY <1>0, <3>1 DEF WorkersWithinLimits
  <2> QED
    BY <2>1, <2>2
<1> QED
  BY <1>1, <1>2 DEF WorkersWithinLimits

LEMMA SchedulerInitEstablishes == SchedulerInit => SchedulerInv
<1> SUFFICES ASSUME SchedulerInit PROVE SchedulerInv
  OBVIOUS
<1>1. Working = {} /\ Kept = {} /\ \A p : Lane(Working, p) = {}
  BY DEF SchedulerInit, Working, Kept, Lane
<1>2. WorkersWithinLimits
  BY <1>1, FS_EmptySet DEF WorkersWithinLimits, LaneCapacity, Priorities
<1> QED
  BY <1>1, <1>2, FS_EmptySet
     DEF SchedulerInit, SchedulerInv, SchedulerTyped, IdsUnique, WantedKept, OutdatedOlder,
         GenerationsPast

LEMMA SchedulePreserves ==
  ASSUME SchedulerInv, NEW priority \in Priorities, Schedule(priority)
  PROVE  SchedulerInv'
<1> USE DEF SchedulerInv, SchedulerTyped
<1> DEFINE request == [id |-> nextRequest, generation |-> current, priority |-> priority]
<1>1. CASE ~Admits(priority)
  <2>1. /\ requests' = Kept /\ running' = running /\ nextRequest' = nextRequest
        /\ current' = current /\ stopped' = stopped /\ outdated' = outdated
    BY <1>1 DEF Schedule
  <2>2. Working' = Working /\ Kept' = Kept
    BY <2>1 DEF Working, Kept
  <2>3. WorkersWithinLimits'
    BY <2>2, LimitsOfLess
  <2> QED
    BY <2>1, <2>2, <2>3 DEF IdsUnique, WantedKept, OutdatedOlder, GenerationsPast
<1>2. CASE Admits(priority)
  <2>1. /\ requests' = Kept \cup {request} /\ running' = running \cup {request}
        /\ nextRequest' = nextRequest + 1
        /\ current' = current /\ stopped' = stopped /\ outdated' = outdated
    BY <1>2 DEF Schedule
  <2>2. request \in Requests /\ request.id = nextRequest /\ request.generation = current
        /\ request.priority = priority
    BY DEF Requests
  <2> HIDE DEF request
  <2>3. CASE nextRequest \in stopped
    <3>1. Working' = Working /\ Kept' = Kept
      BY <2>1, <2>2, <2>3 DEF Working, Kept
    <3>2. WorkersWithinLimits'
      BY <3>1, LimitsOfLess
    <3> QED
      BY <2>1, <2>2, <3>1, <3>2, FS_AddElement
         DEF IdsUnique, WantedKept, OutdatedOlder, GenerationsPast, Requests
  <2>4. CASE nextRequest \notin stopped
    <3>1. Working' = Working \cup {request} /\ Kept' = Kept \cup {request}
      BY <2>1, <2>2, <2>4 DEF Working, Kept
    <3>2. WorkersWithinLimits'
      BY <1>2, <2>2, <3>1, LimitsOfAdmitted
    <3> QED
      BY <2>1, <2>2, <3>1, <3>2, FS_AddElement
         DEF IdsUnique, WantedKept, OutdatedOlder, GenerationsPast, Requests
  <2> QED
    BY <2>3, <2>4
<1> QED
  BY <1>1, <1>2

LEMMA CancelPreserves ==
  ASSUME SchedulerInv, NEW r \in running, Cancel(r)
  PROVE  SchedulerInv'
<1> USE DEF SchedulerInv, SchedulerTyped
<1>1. UNCHANGED <<current, nextRequest, requests, running, outdated>> /\ stopped' = stopped \cup {r.id}
  BY DEF Cancel
<1>2. Working' \subseteq Working /\ Kept' = Working'
  BY <1>1 DEF Working, Kept, WantedKept
<1>3. WorkersWithinLimits'
  BY <1>2, LimitsOfLess
<1> QED
  BY <1>1, <1>2, <1>3 DEF IdsUnique, WantedKept, OutdatedOlder, GenerationsPast

LEMMA CompletePreserves ==
  ASSUME SchedulerInv, NEW r \in running, Complete(r)
  PROVE  SchedulerInv'
<1> USE DEF SchedulerInv, SchedulerTyped
<1>1. /\ running' = running \ {r} /\ requests' = {a \in requests : a.id # r.id}
      /\ UNCHANGED <<current, nextRequest, stopped, outdated>>
  BY DEF Complete
<1>2. Working' = Working \ {r}
  BY <1>1 DEF Working
<1>3. Kept' = {a \in Kept : a.id # r.id}
  BY <1>1 DEF Kept
<1>4. Kept' = Working'
  BY <1>2, <1>3 DEF WantedKept, IdsUnique, Working
<1>5. WorkersWithinLimits'
  BY <1>2, LimitsOfLess
<1>6. IsFiniteSet(running')
  BY <1>1, FS_Subset
<1> QED
  BY <1>1, <1>4, <1>5, <1>6 DEF IdsUnique, WantedKept, OutdatedOlder, GenerationsPast

LEMMA InvalidatePreserves ==
  ASSUME SchedulerInv, Invalidate
  PROVE  SchedulerInv'
<1> USE DEF SchedulerInv, SchedulerTyped
<1>1. /\ current' = current + 1 /\ requests' = {} /\ running' = running
      /\ stopped' = stopped \cup {r.id : r \in requests}
      /\ outdated' = 0 .. nextRequest - 1 /\ nextRequest' = nextRequest
  BY DEF Invalidate
<1>2. Working' = {} /\ Kept' = {}
  <2>1. \A r \in running : r.id \notin stopped => r \in requests
    BY DEF WantedKept, Working, Kept
  <2> QED
    BY <1>1, <2>1 DEF Working, Kept
<1>3. WorkersWithinLimits'
  BY <1>2, LimitsOfLess
<1>4. \A r \in running : r.generation \in Nat /\ r.generation <= current
  BY DEF GenerationsPast, Requests
<1> QED
  BY <1>1, <1>2, <1>3, <1>4 DEF IdsUnique, WantedKept, OutdatedOlder, GenerationsPast

LEMMA SchedulerNextPreserves ==
  ASSUME SchedulerInv, [SchedulerNext]_schedulerVars
  PROVE  SchedulerInv'
<1>1. CASE UNCHANGED schedulerVars
  BY <1>1 DEF schedulerVars, SchedulerInv, SchedulerTyped, IdsUnique, WantedKept, OutdatedOlder,
              GenerationsPast, WorkersWithinLimits, Working, Kept
<1> QED
  BY <1>1, SchedulePreserves, CancelPreserves, CompletePreserves, InvalidatePreserves
     DEF SchedulerNext

LEMMA SchedulerInvHolds == EngineSpec => []SchedulerInv
<1>1. EngineInit => SchedulerInv
  BY SchedulerInitEstablishes DEF EngineInit
<1>2. ASSUME SchedulerInv, [EngineNext]_engineVars
      PROVE  SchedulerInv'
  BY <1>2, SchedulerNextPreserves DEF EngineNext, engineVars
<1> QED
  BY <1>1, <1>2, PTL DEF EngineSpec

-----------------------------------------------------------------------------
(* Theorems *)

(* However many threads the host has and whatever it schedules, cancels and  *)
(* invalidates, wanted work stays within the worker limits, and they leave   *)
(* room for the page the reader looks at (Scheduler in engine.rs).           *)
THEOREM EngineKeepsLimits == EngineSpec => []LimitsKept
<1>1. ASSUME SchedulerInv PROVE LimitsKept
  <2>0. SchedulerTyped /\ WorkersWithinLimits /\ Kept = Working
    BY <1>1 DEF SchedulerInv, WantedKept
  <2>1. ASSUME BackgroundThreads < MaxInflight, Lane(Working, "Foreground") = {}
        PROVE  Admits("Foreground")
    <3>1. \A r \in Working : r.priority \in Priorities
      BY <2>0 DEF SchedulerTyped, Requests, Working
    <3>2. Working = Lane(Working, "Background")
      BY <2>1, <3>1 DEF Lane, Priorities
    <3>3. Cardinality(Working) <= BackgroundThreads /\ Cardinality(Working) \in Nat
      BY <2>0, <3>2, WorkingFinite, FS_CardinalityType
         DEF WorkersWithinLimits, Priorities, LaneCapacity
    <3>4. Cardinality(Lane(Working, "Foreground")) = 0
      BY <2>1, FS_EmptySet
    <3> QED
      BY <2>0, <2>1, <3>3, <3>4 DEF Admits, LaneCapacity
  <2> QED
    BY <2>0, <2>1 DEF LimitsKept, VisibleWorkAdmitted
<1> QED
  BY <1>1, SchedulerInvHolds, PTL

(* A result is reported current only if no invalidation came after its       *)
(* request was admitted (Scheduler::accepts).                                *)
THEOREM EngineRejectsStale == EngineSpec => StaleRejected
<1>1. ASSUME SchedulerInv, [EngineNext]_engineVars
      PROVE  [(accepted' \ accepted) \cap outdated = {}]_schedulerVars
  <2>1. ASSUME NEW r \in running, Complete(r)
        PROVE  (accepted' \ accepted) \cap outdated = {}
    BY <1>1, <2>1 DEF Complete, Accepts, SchedulerInv, OutdatedOlder
  <2>2. ASSUME \/ \E priority \in Priorities : Schedule(priority)
               \/ \E r \in running : Cancel(r)
               \/ Invalidate
        PROVE  accepted' = accepted
    BY <2>2 DEF Schedule, Cancel, Invalidate
  <2> QED
    BY <1>1, <2>1, <2>2 DEF EngineNext, SchedulerNext, engineVars
<1> QED
  BY <1>1, SchedulerInvHolds, PTL DEF EngineSpec, StaleRejected

(* Every open of a chapter returns the chapter that is cached, however the   *)
(* threads that open it are interleaved (open_spine_item).                   *)
THEOREM EngineOneIdentity == EngineSpec => []OneIdentity
<1>1. EngineInit => OneIdentity
  BY DEF EngineInit, CacheInit, OneIdentity
<1>2. ASSUME OneIdentity, [EngineNext]_engineVars
      PROVE  OneIdentity'
  <2>1. ASSUME NEW t \in Openers, NEW item \in Items, Lookup(t, item) PROVE OneIdentity'
    BY <1>2, <2>1 DEF Lookup, Cached, OneIdentity
  <2>2. ASSUME NEW t \in Openers, Parse(t) PROVE OneIdentity'
    BY <1>2, <2>2 DEF Parse, Cached, OneIdentity
  <2>3. ASSUME NEW t \in Openers, CacheInsert(t) PROVE OneIdentity'
    <3> DEFINE item == opening[t].item
    <3>1. /\ DOMAIN chapters' = DOMAIN chapters \cup {item}
          /\ \A i \in DOMAIN chapters : chapters'[i] = chapters[i]
          /\ opened' = opened \cup {<<item, chapters'[item]>>}
      BY <2>3 DEF CacheInsert, Keep, Cached
    <3> QED
      BY <1>2, <3>1 DEF Cached, OneIdentity
  <2>4. ASSUME UNCHANGED sessionCacheVars PROVE OneIdentity'
    BY <1>2, <2>4 DEF sessionCacheVars, Cached, OneIdentity
  <2> QED
    BY <1>2, <2>1, <2>2, <2>3, <2>4 DEF EngineNext, CacheNext, engineVars
<1> QED
  BY <1>1, <1>2, PTL DEF EngineSpec

-----------------------------------------------------------------------------
(* The C entry points *)

USE MaxBufferIdAssumption

Calls == [stage : {"none", "encode", "allocate", "resource"}, request : Nat, held : SUBSET Nat]
Given == [requests : SUBSET Nat, buffers : SUBSET Nat]

BoundaryTyped ==
  /\ call \in Calls
  /\ host \in Given
  /\ nextBuffer \in Nat

\* Ids are handed out once, and only the buffers of a resource are held.
BuffersHeld ==
  /\ \A b \in buffers : b < nextBuffer
  /\ call.stage # "resource" => call.held = {}

\* A request the host has not been told of is the one the call is about.
RequestsKnown ==
  /\ LiveOf("Request") \subseteq host.requests \cup lost \cup {call.request}
  /\ call.stage \in {"none", "resource"} => call.request = NoParent

BoundaryInv ==
  IInv /\ BoundaryTyped /\ BuffersHeld /\ BuffersOwned /\ RequestsKnown

-----------------------------------------------------------------------------
(* The registry under the calls *)

\* Only one insertion adds a request, and no other step does.
LEMMA RequestsAdded ==
  /\ \A kind, parent : Insert(kind, parent) =>
       LiveOf("Request")' \subseteq
         LiveOf("Request") \cup (IF kind = "Request" THEN {NextToken("Request")} ELSE {})
  /\ \A raw, expected : Dispose(raw, expected) =>
       LiveOf("Request")' \subseteq LiveOf("Request") \ {raw}
  /\ UNCHANGED registryVars => LiveOf("Request")' = LiveOf("Request")
<1>1. ASSUME NEW kind, NEW parent, Insert(kind, parent)
      PROVE  LiveOf("Request")' \subseteq
               LiveOf("Request") \cup (IF kind = "Request" THEN {NextToken("Request")} ELSE {})
  <2>1. Live' = Live \cup {NextToken(kind)}
    BY <1>1 DEF Insert, Live
  <2>2. \A t \in Live' : t # NextToken(kind) => entries'[t] = entries[t]
    BY <1>1, <2>1 DEF Insert
  <2>3. entries'[NextToken(kind)].kind = kind
    BY <1>1, <2>1 DEF Insert
  <2> QED
    BY <2>1, <2>2, <2>3 DEF LiveOf
<1>2. ASSUME NEW raw, NEW expected, Dispose(raw, expected)
      PROVE  LiveOf("Request")' \subseteq LiveOf("Request") \ {raw}
  <2>1. raw \in Subtree(raw)
    BY <1>2, SubtreeClosed DEF Dispose
  <2>2. Live' = Live \ Subtree(raw)
    BY <1>2 DEF Dispose, Remove, Live
  <2>3. \A t \in Live' : entries'[t] = entries[t]
    BY <1>2, <2>2 DEF Dispose, Remove
  <2> QED
    BY <2>1, <2>2, <2>3 DEF LiveOf
<1>3. UNCHANGED registryVars => LiveOf("Request")' = LiveOf("Request")
  BY DEF registryVars, LiveOf, Live
<1> QED
  BY <1>1, <1>2, <1>3

LEMMA BoundaryStepIsRegistryStep ==
  ASSUME [BoundaryNext]_boundaryVars
  PROVE  [RegistryNext]_registryVars
<1>1. CASE Open
  BY <1>1 DEF Open, RegistryNext, InsertLayoutSession, RequireKind, LiveOf
<1>2. ASSUME NEW t \in Live, HandleDispose(t) PROVE RegistryNext
  BY <1>2 DEF HandleDispose, RegistryNext
<1>3. ASSUME NEW r \in LiveOf("Request"), RequestCancel(r) \/ Submit(r) PROVE RegistryNext
  BY <1>3 DEF RequestCancel, Submit, RegistryNext, LiveOf, Kinds
<1>4. ASSUME NEW l \in LiveOf("LayoutSession"), LayoutRequest(l)
      PROVE  RegistryNext \/ UNCHANGED registryVars
  BY <1>4 DEF LayoutRequest, RegistryNext, LiveOf
<1>5. CASE AllocateResult
  BY <1>5 DEF AllocateResult, RegistryNext, Kinds
<1>6. ASSUME \/ \E r \in LiveOf("Request") : SubmitUndecodable(r)
             \/ \E b \in host.buffers : BufferFree(b)
             \/ \E b \in LiveOf("Book") : ResourceRead(b) \/ BookText(b)
             \/ Encode \/ ResourceBuffer
      PROVE  UNCHANGED registryVars
  BY <1>6 DEF SubmitUndecodable, BufferFree, ResourceRead, BookText, Encode, ResourceBuffer
<1> QED
  BY <1>1, <1>2, <1>3, <1>4, <1>5, <1>6 DEF BoundaryNext, boundaryVars

-----------------------------------------------------------------------------
(* The invariant holds *)

LEMMA BoundaryInitEstablishes == BoundaryInit => BoundaryInv
<1> SUFFICES ASSUME BoundaryInit PROVE BoundaryInv
  OBVIOUS
<1>1. IInv
  BY InitEstablishes DEF BoundaryInit
<1>2. LiveOf("Request") = {}
  BY DEF BoundaryInit, RegistryInit, LiveOf, Live
<1> QED
  BY <1>1, <1>2 DEF BoundaryInit, BoundaryInv, BoundaryTyped, Calls, Given, NoCall, NoParent,
                    BuffersHeld, BuffersOwned, RequestsKnown

LEMMA BoundaryNextPreserves ==
  ASSUME BoundaryInv, [BoundaryNext]_boundaryVars
  PROVE  BoundaryInv'
<1> DEFINE Holds == BoundaryTyped /\ BuffersHeld /\ BuffersOwned /\ RequestsKnown
<1> USE DEF BoundaryInv, BoundaryTyped, BuffersHeld, BuffersOwned, RequestsKnown
<1>1. IInv'
  BY BoundaryStepIsRegistryStep, NextPreserves
<1>2. ASSUME Open PROVE Holds'
  <2>1. LiveOf("Request")' \subseteq LiveOf("Request")
    BY <1>2, RequestsAdded DEF Open, InsertEngine, InsertBook, InsertChapter, InsertLayoutSession
  <2> QED
    BY <1>2, <2>1 DEF Open, Quiet
<1>3. ASSUME NEW t \in Live, HandleDispose(t) PROVE Holds'
  BY <1>3, RequestsAdded DEF HandleDispose, Quiet
<1>4. ASSUME NEW r \in LiveOf("Request"), RequestCancel(r) PROVE Holds'
  BY <1>4, RequestsAdded DEF RequestCancel, Quiet
<1>5. ASSUME NEW r \in LiveOf("Request"), SubmitUndecodable(r) PROVE Holds'
  BY <1>5, RequestsAdded DEF SubmitUndecodable, Quiet
<1>6. ASSUME NEW r \in LiveOf("Request"), Submit(r) PROVE Holds'
  <2>1. LiveOf("Request")' \subseteq LiveOf("Request")
    BY <1>6, RequestsAdded DEF Submit
  <2>2. call' \in Calls /\ call'.held = {} /\ call'.request = NoParent
    BY <1>6 DEF Submit, NoCall, Calls, NoParent
  <2> QED
    BY <1>6, <2>1, <2>2 DEF Submit
<1>7. ASSUME NEW b \in host.buffers, BufferFree(b) PROVE Holds'
  <2>1. /\ LiveOf("Request")' = LiveOf("Request")
        /\ call' = call /\ call.held = {} /\ nextBuffer' = nextBuffer
        /\ buffers' = buffers \ {b}
        /\ host'.buffers = host.buffers \ {b} /\ host'.requests = host.requests /\ host' \in Given
    BY <1>7, RequestsAdded DEF BufferFree, Release, Given
  <2> QED
    BY <1>7, <2>1 DEF BufferFree
<1>8. ASSUME NEW l \in LiveOf("LayoutSession"), LayoutRequest(l) PROVE Holds'
  <2>1. NextToken("Request") \in Nat
    BY RawTokenDecodes DEF NextToken, IInv, RegistryTypeOK, Kinds
  <2>2. LiveOf("Request")' \subseteq LiveOf("Request") \cup {call'.request}
    BY <1>8, RequestsAdded DEF LayoutRequest, InsertRequest, NoCall
  <2>3. call' \in Calls /\ call'.held = {} /\ call'.stage = "encode"
    BY <1>8, <2>1 DEF LayoutRequest, NoCall, Calls, NoParent
  <2>4. call.request = NoParent /\ NoParent \notin LiveOf("Request")
    BY <1>8 DEF LayoutRequest, IInv, RegistryTypeOK, LiveOf, FromRaw, Generation, NoParent
  <2> QED
    BY <1>8, <2>2, <2>3, <2>4 DEF LayoutRequest
<1>9. ASSUME NEW b \in LiveOf("Book"), ResourceRead(b) \/ BookText(b) PROVE Holds'
  BY <1>9, RequestsAdded DEF ResourceRead, BookText, NoCall, Calls, NoParent
<1>10. ASSUME Encode PROVE Holds'
  <2>1. LiveOf("Request")' = LiveOf("Request")
    BY <1>10, RequestsAdded DEF Encode
  <2>2. CASE call' = [call EXCEPT !.stage = "allocate"] /\ UNCHANGED lost
    BY <1>10, <2>1, <2>2 DEF Encode, Calls
  <2>3. CASE call' = NoCall /\ lost' = lost \cup ({call.request} \ {NoParent})
    <3>1. NoParent \notin LiveOf("Request")
      BY DEF IInv, RegistryTypeOK, LiveOf, FromRaw, Generation, NoParent
    <3> QED
      BY <1>10, <2>1, <2>3, <3>1 DEF Encode, NoCall, Calls, NoParent
  <2> QED
    BY <1>10, <2>2, <2>3 DEF Encode
<1>11. ASSUME AllocateResult PROVE Holds'
  <2>1. NoParent \notin LiveOf("Request") /\ LiveOf("Request") \subseteq Live
    BY DEF IInv, RegistryTypeOK, LiveOf, FromRaw, Generation, NoParent
  <2>2. call' = NoCall /\ call' \in Calls /\ call'.held = {} /\ call'.request = NoParent /\ call.held = {}
    BY <1>11 DEF AllocateResult, NoCall, Calls, NoParent
  <2>3. CASE CanAllocate
    <3>1. /\ LiveOf("Request")' = LiveOf("Request") /\ lost' = lost
          /\ nextBuffer' = nextBuffer + 1
          /\ buffers' = buffers \cup {nextBuffer}
          /\ host' = [host EXCEPT !.buffers = @ \cup {nextBuffer},
                                  !.requests = @ \cup ({call.request} \ {NoParent})]
      BY <1>11, <2>3, RequestsAdded DEF AllocateResult, Allocate
    <3>2. /\ host' \in Given /\ host'.buffers = host.buffers \cup {nextBuffer}
          /\ host'.requests = host.requests \cup ({call.request} \ {NoParent})
      BY <3>1 DEF Given, Calls
    <3>3. BoundaryTyped' /\ RequestsKnown'
      BY <2>1, <2>2, <3>1, <3>2
    <3>4. \A b \in buffers' : b < nextBuffer'
      BY <3>1 DEF Calls, Given
    <3>5. buffers' = host'.buffers \cup call'.held /\ host'.buffers \cap call'.held = {}
      BY <2>2, <3>1, <3>2
    <3> QED
      BY <2>2, <3>3, <3>4, <3>5
  <2>4. CASE ~CanAllocate
    <3>1. LiveOf("Request")' \subseteq LiveOf("Request") \ {call.request}
      BY <1>11, <2>1, <2>4, RequestsAdded DEF AllocateResult
    <3> QED
      BY <1>11, <2>2, <2>4, <3>1 DEF AllocateResult
  <2> QED
    BY <2>3, <2>4
<1>12. ASSUME ResourceBuffer PROVE Holds'
  <2>1. /\ LiveOf("Request")' = LiveOf("Request") /\ lost' = lost
        /\ call.stage = "resource" /\ call.request = NoParent
    BY <1>12, RequestsAdded DEF ResourceBuffer
  <2> DEFINE held == call.held \cup {nextBuffer}
  <2>2. nextBuffer \notin buffers /\ held \subseteq Nat
    BY DEF Calls
  <2>3. CASE CanAllocate
    <3>1. nextBuffer' = nextBuffer + 1 /\ buffers' = buffers \cup {nextBuffer}
      BY <1>12, <2>3 DEF ResourceBuffer, Allocate
    <3>2. \A b \in buffers' : b < nextBuffer'
      <4>1. buffers \subseteq Nat /\ nextBuffer \in Nat /\ \A b \in buffers : b < nextBuffer
        BY DEF Calls, Given
      <4> QED
        BY <3>1, <4>1
    <3>3. CASE call' = NoCall /\ host' = [host EXCEPT !.buffers = @ \cup held]
      <4>1. host' \in Given /\ host'.buffers = host.buffers \cup held /\ host'.requests = host.requests
        BY <2>2, <3>3 DEF Given
      <4>2. call' \in Calls /\ call'.held = {} /\ call'.request = NoParent
        BY <3>3 DEF NoCall, Calls, NoParent
      <4> QED
        BY <2>1, <3>1, <3>2, <4>1, <4>2
    <3>4. CASE call' = [call EXCEPT !.held = held] /\ UNCHANGED host
      <4>1. /\ call' \in Calls /\ call'.held = held /\ call'.stage = "resource"
            /\ call'.request = NoParent
        BY <2>1, <2>2, <3>4 DEF Calls
      <4> QED
        BY <2>1, <2>2, <3>1, <3>2, <3>4, <4>1
    <3> QED
      BY <1>12, <2>3, <3>3, <3>4 DEF ResourceBuffer
  <2>4. CASE ~CanAllocate
    BY <1>12, <2>1, <2>4 DEF ResourceBuffer, Release, NoCall, Calls, NoParent
  <2> QED
    BY <2>3, <2>4
<1>13. ASSUME UNCHANGED boundaryVars PROVE Holds'
  BY <1>13, RequestsAdded DEF boundaryVars
<1>14. Holds'
  BY <1>2, <1>3, <1>4, <1>5, <1>6, <1>7, <1>8, <1>9, <1>10, <1>11, <1>12, <1>13 DEF BoundaryNext
<1> QED
  BY <1>1, <1>14

LEMMA BoundaryInvHolds == BoundarySpec => []BoundaryInv
  BY BoundaryInitEstablishes, BoundaryNextPreserves, PTL DEF BoundarySpec

-----------------------------------------------------------------------------
(* Theorems *)

(* Every entry point makes one registry step or none, so what is proved of   *)
(* the registry holds behind the C boundary.                                *)
THEOREM BoundaryImplementsRegistry == BoundarySpec => RegistrySpec
<1>1. BoundaryInit => RegistryInit
  BY DEF BoundaryInit
<1> QED
  BY <1>1, BoundaryStepIsRegistryStep, PTL DEF BoundarySpec, RegistrySpec

(* Whatever allocation fails, a buffer is the host's, or held by the call    *)
(* that will give it back, and never both (pagelet_resource_read).          *)
THEOREM BoundaryBuffersOwned == BoundarySpec => []BuffersOwned
  BY BoundaryInvHolds, PTL DEF BoundaryInv

(* Between calls, every live request is known to the host, but for those     *)
(* whose batch could not be encoded (pagelet_layout_request).                *)
THEOREM BoundaryLosesByEncodingOnly == BoundarySpec => []OnlyEncodingLosesARequest
<1>1. ASSUME BoundaryInv PROVE OnlyEncodingLosesARequest
  <2>1. NoParent \notin LiveOf("Request")
    BY <1>1 DEF BoundaryInv, IInv, RegistryTypeOK, LiveOf, FromRaw, Generation, NoParent
  <2> QED
    BY <1>1, <2>1 DEF BoundaryInv, RequestsKnown, OnlyEncodingLosesARequest
<1> QED
  BY <1>1, BoundaryInvHolds, PTL
=============================================================================
