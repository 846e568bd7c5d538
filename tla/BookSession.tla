---------------------------- MODULE BookSession ----------------------------
(***************************************************************************)
(* The chapter cache of a book session (BookSession::open_spine_item of     *)
(* crates/pagelet/src/engine.rs).                                           *)
(*                                                                         *)
(* Clones of a book session share the cache.  Its mutex is held for the     *)
(* lookup and again for the insertion, and not while the chapter is parsed  *)
(* in between, so several threads may parse one chapter at once.            *)
(***************************************************************************)
EXTENDS Integers

CONSTANTS
  Openers,    \* threads that open chapters
  Items,      \* spine items
  MaxParses   \* bound on the chapters ever parsed

VARIABLES
  chapters,   \* spine item -> the cached Arc<ChapterIr>, by identity
  misses,     \* chapter_cache_misses
  opening,    \* thread -> the open it is in the middle of
  parses,     \* history: chapters parsed so far, each a new identity
  opened      \* history: every <<item, identity>> returned

sessionCacheVars == <<chapters, misses, opening, parses, opened>>

NotOpening == [at |-> "idle", item |-> "none", parsed |-> 0]

CacheInit ==
  /\ chapters = [i \in {} |-> 0]
  /\ misses = 0
  /\ opening = [t \in Openers |-> NotOpening]
  /\ parses = 0
  /\ opened = {}

Cached(item) == item \in DOMAIN chapters

\* The lookup: a hit returns the cached chapter, a miss is counted.
Lookup(t, item) ==
  /\ opening[t].at = "idle"
  /\ IF Cached(item)
     THEN /\ opened' = opened \cup {<<item, chapters[item]>>}
          /\ UNCHANGED <<misses, opening>>
     ELSE /\ misses < MaxParses
          /\ misses' = misses + 1
          /\ opening' = [opening EXCEPT ![t] = [NotOpening EXCEPT !.at = "parse", !.item = item]]
          /\ UNCHANGED opened
  /\ UNCHANGED <<chapters, parses>>

\* Parsing, with no lock held; an error ends the call and caches nothing.
Parse(t) ==
  /\ opening[t].at = "parse"
  /\ \/ /\ parses' = parses + 1
        /\ opening' = [opening EXCEPT ![t].at = "insert", ![t].parsed = parses']
     \/ /\ opening' = [opening EXCEPT ![t] = NotOpening]
        /\ UNCHANGED parses
  /\ UNCHANGED <<chapters, misses, opened>>

\* Mutant of Keep: the chapter parsed last replaces the cached one.
KeepLast(item, parsed) ==
  chapters' = [i \in DOMAIN chapters \cup {item} |-> IF i = item THEN parsed ELSE chapters[i]]

\* entry(..).or_insert(..): the first chapter inserted stays.
Keep(item, parsed) ==
  chapters' = [i \in DOMAIN chapters \cup {item} |-> IF Cached(i) THEN chapters[i] ELSE parsed]

\* The insertion returns what the cache then holds.
CacheInsert(t) ==
  LET item == opening[t].item IN
  /\ opening[t].at = "insert"
  /\ Keep(item, opening[t].parsed)
  /\ opened' = opened \cup {<<item, chapters'[item]>>}
  /\ opening' = [opening EXCEPT ![t] = NotOpening]
  /\ UNCHANGED <<misses, parses>>

CacheNext ==
  \E t \in Openers :
    (\E item \in Items : Lookup(t, item)) \/ Parse(t) \/ CacheInsert(t)

CacheSpec == CacheInit /\ [][CacheNext]_sessionCacheVars

-----------------------------------------------------------------------------
(* Properties *)

(* A chapter has one identity for the life of its book session: every open  *)
(* of a spine item, racing or not, returns the same shared chapter, and it  *)
(* is the one cached (book_session_reuses_chapter_identity_and_exposes_     *)
(* metadata asks it of two opens in a row).                                 *)
OneIdentity == \A p \in opened : Cached(p[1]) /\ p[2] = chapters[p[1]]
=============================================================================
