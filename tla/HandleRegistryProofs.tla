----------------------- MODULE HandleRegistryProofs -----------------------
(* Proofs about the handle registry, for every MaxGeneration and every      *)
(* number of handles.                                                       *)
EXTENDS HandleRegistry, TLAPS

USE MaxGenerationAssumption

-----------------------------------------------------------------------------
(* Tokens *)

(* A token made from a generation and a kind gives both back: the tag never *)
(* spills into the generation (allocate_raw and from_raw).                  *)
LEMMA RawTokenDecodes ==
  ASSUME NEW g \in Nat, NEW kind \in Kinds
  PROVE  /\ RawToken(g, kind) \in Nat
         /\ Generation(RawToken(g, kind)) = g
         /\ RawToken(g, kind) % 8 = Tag[kind]
  <1>1. Tag[kind] \in 1 .. 5
    BY DEF Kinds, Tag
  <1>2. RawToken(g, kind) = g * 8 + Tag[kind]
    BY DEF RawToken
  <1>3. /\ (g * 8 + Tag[kind]) \in Nat
        /\ (g * 8 + Tag[kind]) \div 8 = g
        /\ (g * 8 + Tag[kind]) % 8 = Tag[kind]
    BY <1>1
  <1> QED
    BY <1>2, <1>3 DEF Generation

-----------------------------------------------------------------------------
(* The frontier walk *)

(* What the walk collects is live, holds the root, and holds every child of *)
(* everything it holds (dispose_matching).                                  *)
LEMMA SubtreeClosed ==
  ASSUME NEW raw \in Live
  PROVE  /\ Subtree(raw) \subseteq Live
         /\ raw \in Subtree(raw)
         /\ ChildClosed(Subtree(raw))
  <1>1. Subtree(raw) \subseteq Live
    BY DEF Subtree
  <1>2. raw \in Subtree(raw)
    BY DEF Subtree
  <1>3. ChildClosed(Subtree(raw))
    <2> SUFFICES ASSUME NEW t \in Live, entries[t].parent \in Subtree(raw),
                        NEW S \in SUBSET Live, raw \in S, ChildClosed(S)
                 PROVE  t \in S
      BY DEF ChildClosed, Subtree
    <2>1. entries[t].parent \in S
      BY DEF Subtree
    <2> QED
      BY <2>1 DEF ChildClosed
  <1> QED
    BY <1>1, <1>2, <1>3

(* Nothing beyond what must go is collected: any closed set with the root   *)
(* in it contains the walk (dispose_matching).                              *)
LEMMA SubtreeLeast ==
  ASSUME NEW raw, NEW S \in SUBSET Live, raw \in S, ChildClosed(S)
  PROVE  Subtree(raw) \subseteq S
  BY DEF Subtree

-----------------------------------------------------------------------------
(* The inductive invariant *)

IInv == /\ RegistryTypeOK
        /\ NoOrphans
        /\ TokensNeverReused
        /\ RetiredRequestsCancelled

LEMMA InitEstablishes == RegistryInit => IInv
  <1> SUFFICES ASSUME RegistryInit
               PROVE  IInv
    OBVIOUS
  <1>1. Live = {}
    BY DEF RegistryInit, Live
  <1>2. entries \in [Live -> Entry]
    BY <1>1 DEF RegistryInit
  <1> QED
    <2>1. RegistryTypeOK
      <3>1. dropped \in BOOLEAN
        BY Zenon DEF RegistryInit
      <3>2. nextGeneration \in 1 .. MaxGeneration /\ cancelled = {} /\ retired = {}
        BY DEF RegistryInit
      <3> QED
        BY <1>1, <1>2, <3>1, <3>2 DEF RegistryTypeOK
    <2>2. NoOrphans
      BY <1>1 DEF NoOrphans
    <2>3. TokensNeverReused /\ RetiredRequestsCancelled
      BY DEF RegistryInit, TokensNeverReused, RetiredRequestsCancelled
    <2> QED
      BY <2>1, <2>2, <2>3 DEF IInv

(* Inserting an entry under NoParent or a live owner of its parent kind     *)
(* keeps the invariant (insert_locked after require_kind).                  *)
LEMMA InsertPreserves ==
  ASSUME IInv, NEW kind \in Kinds, NEW parent \in Nat, Insert(kind, parent),
         IF kind = "Engine" THEN parent = NoParent
                            ELSE RequireKind(parent, ParentKind[kind])
  PROVE  IInv'
  <1> DEFINE new == NextToken(kind)
  <1>1. /\ new \in Nat
        /\ Generation(new) = nextGeneration
        /\ new % 8 = Tag[kind]
    BY RawTokenDecodes DEF NextToken, IInv, RegistryTypeOK
  <1>2. new \notin Live \cup retired
    BY <1>1 DEF IInv, RegistryTypeOK
  <1>3. Live' = Live \cup {new}
    BY DEF Insert, Live
  <1>4. entries'[new] = [kind |-> kind, parent |-> parent]
    BY <1>3 DEF Insert
  <1>5. \A t \in Live : entries'[t] = entries[t]
    BY <1>2, <1>3 DEF Insert
  <1>6. RegistryTypeOK'
    <2>1. (nextGeneration \in 1 .. MaxGeneration)'
      BY DEF Insert, IInv, RegistryTypeOK
    <2>2. entries' \in [Live' -> Entry]
      BY <1>3, <1>4, <1>5 DEF Insert, IInv, RegistryTypeOK, Entry, Live
    <2>3. \A t \in Live' : FromRaw(t, entries'[t].kind)
      <3>1. FromRaw(new, kind)
        BY <1>1 DEF FromRaw, IInv, RegistryTypeOK
      <3>2. entries'[new].kind = kind
        BY <1>4
      <3> QED
        BY <1>3, <1>5, <3>1, <3>2 DEF IInv, RegistryTypeOK
    <2>4. \A t \in Live' \cup retired' : Generation(t) < nextGeneration'
      <3>1. \A t \in Live \cup retired : Generation(t) \in Int
        BY DEF Generation, IInv, RegistryTypeOK
      <3> QED
        BY <1>1, <1>3, <3>1 DEF Insert, IInv, RegistryTypeOK
    <2> QED
      BY <1>1, <1>3, <2>1, <2>2, <2>3, <2>4 DEF Insert, IInv, RegistryTypeOK, Generation
  <1>7. NoOrphans'
    BY <1>3, <1>4, <1>5 DEF IInv, NoOrphans, RequireKind, LiveOf
  <1>8. TokensNeverReused'
    BY <1>2, <1>3 DEF IInv, TokensNeverReused, Insert
  <1>9. RetiredRequestsCancelled'
    BY DEF IInv, RetiredRequestsCancelled, Insert
  <1> QED
    BY <1>6, <1>7, <1>8, <1>9 DEF IInv

(* Removing a set of live entries closed under children keeps the invariant *)
(* (the removal loops of dispose_matching, and Drop).                       *)
LEMMA RemovePreserves ==
  ASSUME IInv, NEW gone \in SUBSET Live, ChildClosed(gone), Remove(gone),
         dropped' \in BOOLEAN
  PROVE  IInv'
  <1>1. Live' = Live \ gone
    BY DEF Remove, Live
  <1>2. \A t \in Live' : entries'[t] = entries[t]
    BY <1>1 DEF Remove
  <1>3. RegistryTypeOK'
    <2>1. entries' \in [Live' -> Entry]
      BY <1>1, <1>2 DEF Remove, IInv, RegistryTypeOK, Live
    <2>2. (retired \subseteq Nat)' /\ (cancelled \subseteq Nat)' /\ (Live \subseteq Nat)'
      BY <1>1 DEF Remove, IInv, RegistryTypeOK
    <2>3. \A t \in Live' \cup retired' : Generation(t) < nextGeneration'
      BY <1>1 DEF Remove, IInv, RegistryTypeOK
    <2> QED
      BY <1>1, <1>2, <2>1, <2>2, <2>3 DEF Remove, IInv, RegistryTypeOK
  <1>4. NoOrphans'
    <2> SUFFICES ASSUME NEW t \in Live', entries'[t].kind # "Engine"
                 PROVE  RequireKind(entries[t].parent, ParentKind[entries[t].kind])'
      BY <1>1, <1>2 DEF IInv, NoOrphans
    <2>1. RequireKind(entries[t].parent, ParentKind[entries[t].kind])
      BY <1>1, <1>2 DEF IInv, NoOrphans
    <2>2. entries[t].parent \notin gone
      BY <1>1 DEF ChildClosed
    <2> QED
      BY <1>1, <1>2, <2>1, <2>2 DEF RequireKind, LiveOf, ParentKind
  <1>5. TokensNeverReused'
    BY <1>1 DEF IInv, TokensNeverReused, Remove
  <1>6. RetiredRequestsCancelled'
    <2> SUFFICES ASSUME NEW t \in gone, t % 8 = Tag["Request"]
                 PROVE  t \in LiveOf("Request")
      BY DEF IInv, RetiredRequestsCancelled, Remove
    <2>1. entries[t].kind \in Kinds /\ Tag[entries[t].kind] = Tag["Request"]
      BY DEF IInv, RegistryTypeOK, FromRaw, Entry
    <2>2. entries[t].kind = "Request"
      BY <2>1 DEF Kinds, Tag
    <2> QED
      BY <2>2 DEF LiveOf
  <1> QED
    BY <1>3, <1>4, <1>5, <1>6 DEF IInv

LEMMA CancelTokenPreserves ==
  ASSUME IInv, NEW t \in Nat, CancelToken(t)
  PROVE  IInv'
  BY DEF IInv, CancelToken, RegistryTypeOK, NoOrphans, TokensNeverReused,
         RetiredRequestsCancelled, Live, LiveOf, RequireKind

(* Every step of the registry keeps the invariant. *)
LEMMA NextPreserves ==
  ASSUME IInv, [RegistryNext]_registryVars
  PROVE  IInv'
  <1> USE DEF Kinds
  <1>0. Live \subseteq Nat
    BY DEF IInv, RegistryTypeOK
  <1>1. CASE InsertEngine
    BY <1>1, InsertPreserves DEF InsertEngine, NoParent
  <1>2. ASSUME NEW t \in Live, InsertBook(t) PROVE IInv'
    BY <1>0, <1>2, InsertPreserves DEF InsertBook, ParentKind
  <1>3. ASSUME NEW t \in Live, InsertChapter(t) PROVE IInv'
    BY <1>0, <1>3, InsertPreserves DEF InsertChapter, ParentKind
  <1>4. ASSUME NEW t \in Live, InsertLayoutSession(t) PROVE IInv'
    BY <1>0, <1>4, InsertPreserves DEF InsertLayoutSession, ParentKind
  <1>5. ASSUME NEW t \in Live, InsertRequest(t) PROVE IInv'
    BY <1>0, <1>5, InsertPreserves DEF InsertRequest, ParentKind
  <1>6. ASSUME NEW t \in LiveOf("Request"), CancelToken(t) PROVE IInv'
    BY <1>0, <1>6, CancelTokenPreserves DEF LiveOf
  <1>7. ASSUME NEW t \in Live, NEW expected \in Kinds \cup {"Any"}, Dispose(t, expected)
        PROVE IInv'
    <2>1. dropped' \in BOOLEAN
      BY <1>7 DEF Dispose, IInv, RegistryTypeOK
    <2> QED
      BY <1>7, <2>1, SubtreeClosed, RemovePreserves DEF Dispose
  <1>8. CASE DropRegistry
    <2>1. ChildClosed(Live)
      BY DEF ChildClosed
    <2> QED
      BY <1>8, <2>1, RemovePreserves DEF DropRegistry
  <1>9. CASE UNCHANGED registryVars
    BY <1>9 DEF registryVars, IInv, RegistryTypeOK, NoOrphans, TokensNeverReused,
                RetiredRequestsCancelled, Live, LiveOf, RequireKind
  <1> QED
    BY <1>1, <1>2, <1>3, <1>4, <1>5, <1>6, <1>7, <1>8, <1>9 DEF RegistryNext

LEMMA IInvHolds == RegistrySpec => []IInv
  BY InitEstablishes, NextPreserves, PTL DEF RegistrySpec

-----------------------------------------------------------------------------
(* What an insertion and a disposal change *)

\* What Insert does to the registry, for a handle of a generation so far unused.
LEMMA Inserted ==
  ASSUME IInv, NEW kind \in Kinds, NEW parent, Insert(kind, parent)
  PROVE  /\ NextToken(kind) \in Nat \ Live
         /\ NextToken(kind) # NoParent
         /\ Generation(NextToken(kind)) = nextGeneration
         /\ nextGeneration \in Nat /\ nextGeneration' = nextGeneration + 1
         /\ Live' = Live \cup {NextToken(kind)}
         /\ entries'[NextToken(kind)] = [kind |-> kind, parent |-> parent]
         /\ \A t \in Live : entries'[t] = entries[t]
<1>1. /\ NextToken(kind) \in Nat
      /\ Generation(NextToken(kind)) = nextGeneration
  BY RawTokenDecodes DEF NextToken, IInv, RegistryTypeOK
<1>2. NextToken(kind) \notin Live
  BY <1>1 DEF IInv, RegistryTypeOK
<1>3. NextToken(kind) # NoParent
  BY <1>1 DEF IInv, RegistryTypeOK, NoParent, Generation
<1>4. Live' = Live \cup {NextToken(kind)}
  BY DEF Insert, Live
<1> QED
  BY <1>1, <1>2, <1>3, <1>4 DEF Insert, IInv, RegistryTypeOK

\* What is alive of each kind after an insertion.
LEMMA InsertAdds ==
  ASSUME IInv, NEW kind \in Kinds, NEW parent, Insert(kind, parent)
  PROVE  /\ LiveOf(kind)' = LiveOf(kind) \cup {NextToken(kind)}
         /\ \A k \in Kinds \ {kind} : LiveOf(k)' = LiveOf(k)
         /\ NextToken(kind) \in Nat \ {0}
<1> DEFINE new == NextToken(kind)
<1>1. /\ new \in Nat \ Live /\ new # NoParent
      /\ Live' = Live \cup {new}
      /\ entries'[new] = [kind |-> kind, parent |-> parent]
      /\ \A t \in Live : entries'[t] = entries[t]
  BY Inserted
<1> HIDE DEF new
<1>2. LiveOf(kind)' = LiveOf(kind) \cup {new}
  BY <1>1 DEF LiveOf
<1>3. ASSUME NEW k \in Kinds \ {kind} PROVE LiveOf(k)' = LiveOf(k)
  BY <1>1 DEF LiveOf
<1> QED
  BY <1>1, <1>2, <1>3 DEF new, NoParent

\* What Dispose does to the registry.
LEMMA Removed ==
  ASSUME NEW raw \in Live, NEW expected, Dispose(raw, expected)
  PROVE  /\ Live' = Live \ Subtree(raw)
         /\ \A t \in Live' : entries'[t] = entries[t]
         /\ nextGeneration' = nextGeneration
<1>1. Live' = Live \ Subtree(raw)
  BY DEF Dispose, Remove, Live
<1> QED
  BY <1>1 DEF Dispose, Remove

\* A request owns nothing.
LEMMA RequestOwnsNothing ==
  ASSUME IInv, NEW r \in LiveOf("Request")
  PROVE  Subtree(r) = {r}
<1>1. r \in Live /\ entries[r].kind = "Request" /\ r # NoParent
  BY DEF LiveOf, IInv, RegistryTypeOK, FromRaw, Generation, NoParent
<1>2. ASSUME NEW t \in Live, entries[t].parent = r
      PROVE  FALSE
  <2>1. entries[t].kind \in Kinds
    BY DEF IInv, RegistryTypeOK, Entry
  <2> QED
    BY <1>1, <1>2, <2>1 DEF IInv, NoOrphans, RequireKind, LiveOf, ParentKind, Kinds
<1>3. ChildClosed({r})
  BY <1>2 DEF ChildClosed
<1> QED
  BY <1>1, <1>3, SubtreeClosed, SubtreeLeast

\* Everything hangs under an engine.
LEMMA NoEngineNothing ==
  ASSUME IInv, LiveOf("Engine") = {}
  PROVE  Live = {}
<1>1. \A t \in Live : entries[t].kind \in Kinds \ {"Engine"}
  BY DEF IInv, RegistryTypeOK, Entry, LiveOf
<1>2. \A t \in Live : entries[t].kind # "Book"
  BY DEF IInv, NoOrphans, RequireKind, LiveOf, ParentKind
<1>3. \A t \in Live : entries[t].kind \notin {"Chapter", "LayoutSession"}
  BY <1>2 DEF IInv, NoOrphans, RequireKind, LiveOf, ParentKind
<1>4. \A t \in Live : entries[t].kind # "Request"
  BY <1>3 DEF IInv, NoOrphans, RequireKind, LiveOf, ParentKind
<1> QED
  BY <1>1, <1>2, <1>3, <1>4 DEF Kinds

-----------------------------------------------------------------------------
(* What a disposal releases *)

(* The downward walk from a live token collects exactly the tokens that     *)
(* reach it upwards in at most three steps: the tree is four levels deep.   *)
LEMMA SubtreeIsOwned ==
  ASSUME IInv, NEW root \in Live
  PROVE  Subtree(root) = {t \in Live : t = root \/ root \in Owners(t)}
  <1> DEFINE Owned == {t \in Live : t = root \/ root \in Owners(t)}
  <1>0. root # NoParent
    BY DEF IInv, RegistryTypeOK, FromRaw, Generation, NoParent
  <1>1. \A t \in Live : entries[t].kind \in Kinds
    BY DEF IInv, RegistryTypeOK, Entry
  <1>2. NoParent \notin Live
    BY DEF IInv, RegistryTypeOK, FromRaw, Generation, NoParent
  <1>3. \A t \in Live : entries[t].kind = "Engine" => Up(t) = NoParent
    BY DEF IInv, NoOrphans, Up
  <1>4. \A t \in Live : entries[t].kind = "Book" =>
          Up(t) \in Live /\ entries[Up(t)].kind = "Engine"
    BY DEF IInv, NoOrphans, Up, RequireKind, LiveOf, ParentKind
  <1>5. \A t \in Live : entries[t].kind \in {"Chapter", "LayoutSession"} =>
          Up(t) \in Live /\ entries[Up(t)].kind = "Book"
    BY DEF IInv, NoOrphans, Up, RequireKind, LiveOf, ParentKind
  <1>6. \A t \in Live : entries[t].kind = "Request" =>
          Up(t) \in Live /\ entries[Up(t)].kind = "LayoutSession"
    BY DEF IInv, NoOrphans, Up, RequireKind, LiveOf, ParentKind
  <1>7. \A t \in Live : Up(Up(Up(Up(t)))) = NoParent
    <2>1. Up(NoParent) = NoParent
      BY <1>2 DEF Up
    <2> QED
      BY <1>1, <1>3, <1>4, <1>5, <1>6, <2>1 DEF Kinds
  <1>8. Owned \subseteq Subtree(root)
    <2>1. \A t \in Live : Up(t) \in Subtree(root) => t \in Subtree(root)
      BY SubtreeClosed DEF ChildClosed, Up
    <2>2. \A t \in Live : Up(t) \in Live \/ Up(t) = NoParent
      BY <1>1, <1>3, <1>4, <1>5, <1>6 DEF Kinds
    <2>3. Up(NoParent) = NoParent
      BY <1>2 DEF Up
    <2>4. root \in Subtree(root)
      BY SubtreeClosed
    <2> QED
      BY <1>0, <2>1, <2>2, <2>3, <2>4 DEF Owners
  <1>9. root \in Owned /\ ChildClosed(Owned)
    <2> SUFFICES ASSUME NEW t \in Live, Up(t) \in Owned
                 PROVE  t \in Owned
      BY DEF ChildClosed, Up
    <2> QED
      BY <1>0, <1>7 DEF Owners
  <1> QED
    BY <1>8, <1>9, SubtreeLeast

-----------------------------------------------------------------------------
(* Theorems *)

(* Live tokens are always well-formed, tagged with the kind of the object   *)
(* they name, and of a generation already allocated.                        *)
THEOREM RegistryTypeCorrect == RegistrySpec => []RegistryTypeOK
  BY IInvHolds, PTL DEF IInv

(* No object outlives its owner: the tree under each engine is complete.    *)
THEOREM RegistryNoOrphans == RegistrySpec => []NoOrphans
  BY IInvHolds, PTL DEF IInv

(* A released token is never live again.                                    *)
THEOREM RegistryTokensNeverReused == RegistrySpec => []TokensNeverReused
  BY IInvHolds, PTL DEF IInv

(* However a request was released, its cancellation token is set.           *)
THEOREM RegistryRetiredRequestsCancelled == RegistrySpec => []RetiredRequestsCancelled
  BY IInvHolds, PTL DEF IInv

(* A disposal releases one object with all it owns, at any depth, and       *)
(* nothing else.                                                            *)
THEOREM RegistryDisposeReleasesOneTree == RegistrySpec => DisposeReleasesOneTree
  <1> DEFINE OneTree ==
        \/ Live \subseteq Live'
        \/ dropped'
        \/ \E root \in Live :
             Live \ Live' = {t \in Live : t = root \/ root \in Owners(t)}
  <1>1. ASSUME IInv, [RegistryNext]_registryVars
        PROVE  OneTree
    <2>1. ASSUME NEW kind, NEW parent, Insert(kind, parent) PROVE OneTree
      BY <2>1 DEF Insert, Live
    <2>2. CASE RegistryNext
      <3>1. ASSUME NEW t \in Live, NEW expected \in Kinds \cup {"Any"}, Dispose(t, expected)
            PROVE  OneTree
        <4>1. Live' = Live \ Subtree(t)
          BY <3>1 DEF Dispose, Remove, Live
        <4>2. Live \ Live' = Subtree(t)
          BY <4>1, SubtreeClosed
        <4> QED
          BY <1>1, <4>2, SubtreeIsOwned
      <3>2. CASE DropRegistry
        BY <3>2 DEF DropRegistry
      <3>3. ASSUME NEW t, CancelToken(t) PROVE OneTree
        BY <3>3 DEF CancelToken, Live
      <3> QED
        BY <2>1, <2>2, <3>1, <3>2, <3>3
           DEF RegistryNext, InsertEngine, InsertBook, InsertChapter,
               InsertLayoutSession, InsertRequest
    <2>3. CASE UNCHANGED registryVars
      BY <2>3 DEF registryVars, Live
    <2> QED
      BY <1>1, <2>2, <2>3
  <1> QED
    BY <1>1, IInvHolds, PTL DEF RegistrySpec, DisposeReleasesOneTree
=============================================================================
