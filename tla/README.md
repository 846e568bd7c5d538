# pagelet in TLA+

A verification project for [pagelet](../src/README.md), an embeddable EPUB
parsing and pagination engine in Rust with a C boundary and Flutter bindings.
The modules here are translated from `src/`; TLC checks them on small instances
and TLAPS proves the most important properties for every value of their
constants. Paths below are relative to `src/`.

## 1. The system

| Part | State it keeps | Operations | Who talks to it |
| --- | --- | --- | --- |
| Handle registry, `crates/pagelet/src/ffi.rs` | live tokens with kind, owner and object; the process-wide generation | insert and resolve per kind, dispose a subtree, cancel, drop | control plane |
| Control plane, `ffi/control.rs` | none of its own: a registry, and sessions shared as `Arc<Mutex<LayoutSession>>` | open books and chapters, create layouts, request, submit, cancel, dispose, look up | C entry points, any host thread |
| Native boundary and buffer pool, `ffi/native.rs`, `ffi/buffer.rs` | Rust-owned buffers by id | the `pagelet_*` functions: check, call the control plane, encode, allocate | C and Dart hosts |
| Layout session, `engine.rs` over `HostMeasuredPagination` in `layout.rs` | prepared layout or pagination: retained pages, break token, completion | `layout`, `submit_measurements` | control plane |
| Page builder, `layout.rs` | the page under construction | place text, boxes, images and breaks; split, widow and orphan rules | pagination, full and progressive |
| Incremental repagination, `layout.rs` | pages of the previous run | classify an edit, reuse prefix and tail | hosts in Rust |
| Scheduler, `engine.rs` | admitted requests, generation | schedule, cancel, complete, invalidate | hosts in Rust |
| Book session caches, `engine.rs` | parsed chapters and resources, counters | open a spine item, read a resource | control plane, threads that share a book |
| EPUB reader, `epub.rs` | the open archive; builders while a chapter is read | archive, package, navigation, style sheets, XHTML to IR | book sessions |
| Document IR, `document.rs`; core values, `core.rs` | arenas; layout units, limits, cancellation tokens | builders, validation, arithmetic | everything above |
| Measurement, `text.rs`, Dart `text_measure_bridge.dart` | a batch, painters and the host's answer | measure, validate, look up metrics | layout sessions, Flutter |
| Wire codec, `wire.rs`, Dart `page_scene_decoder.dart` | none | write and read within limits | native boundary, Flutter |
| Flutter bindings, `packages/pagelet_flutter/lib` | objects with their own disposed flags and child lists | open, lay out, dispose | applications |
| Reader example, `example/lib/pagelet_reader.dart` | a document, an error, the generation of its loads | load, change, tap, close | the Flutter framework |

Interactions. A host thread calls a `pagelet_*` function, which calls the
control plane; that resolves handles under the registry mutex, works on the
object without it, and takes the mutex again to insert or retire a handle.
Opening a chapter goes through the book session's cache to the EPUB reader,
which hands back a finished `ChapterIR`. Text is measured by the host:
`layout_request` returns a batch and a request handle, the host measures,
`layout_submit_measurements` resumes the session, and later range requests
paginate further from the retained break token. Batches, measurements and pages
cross between Rust and Dart as payloads that each side writes and reads for
itself. The Flutter package mirrors the tree of handles in Dart objects.

What is hard:

* *Interleaving.* Between two critical sections of one call, another thread may
  dispose, cancel, submit, or ask for another range. The reader's loads overlap.
* *Partial failure.* A page may fail in the middle of a range, an encoder or an
  allocation after a handle exists, a submission at any of its steps, a note in
  another document after the chapter is built, one paragraph of a batch.
* *Staleness.* A result may arrive after an invalidation or a newer load; lengths
  may be resolved twice; an image is classified before notes are fetched.
* *Order.* Archive entries, style sheets, notes and the links to them, markup
  closed in the wrong order, fields listed by hand in three places.
* *Boundaries.* Ids that run out, page, fragment and worker limits, a block
  higher than its page, the one line a widow rule takes back, text counted in
  bytes by one side and in UTF-16 units by the other.
* *Protocol sequences.* Any order of ranges, disposals and submissions.

`PROJECT.json` lists each hazard at its line with the properties that cover it.

## 2. Modules

Sessions and layout:

| Module | Models | Correspondence |
| --- | --- | --- |
| `HandleRegistry` | `ffi.rs` | one action per public method, since each holds the mutex throughout; tokens are numbers `generation * 8 + tag` as in the code |
| `ControlPlane` (extends `HandleRegistry`) | `ffi/control.rs`, `LayoutSession` at the level of phases | one action per critical section; `frame[t]` is what thread `t`'s call holds between two of them; `session[l]` is the object behind the session's own mutex |
| `LayoutLifecycle` | `docs/ffi-contract.md` as behaviour | abstract: absent, ready, measuring for a range, paginated, gone |
| `NativeBoundary` (extends `HandleRegistry`) | `ffi/native.rs`, `ffi/buffer.rs` | one host thread; control-plane operations are atomic, encoding and each buffer allocation are steps that may fail |
| `LayoutSession` | `engine.rs` `LayoutSession`, `layout.rs` `HostMeasuredPagination` | a chapter is a number of pages, with pages that fail and pages that come out blank; the `page_range` loop is one step per page |
| `Pagination` | `layout.rs` `paginate_prepared_blocks`, `paginate_page_from_blocks`, `PageBuilder` | one step per round of the loop over blocks; a block is text of so many lines, with or without a list marker, a box, an image, a centred cover or a break, with margins, padding and break flags |
| `Repagination` (extends `Pagination`) | `layout.rs` `repaginate_incrementally` | a chapter is paginated, edited, paginated again for reference, and repaginated incrementally; keeping a prefix, comparing a page and taking the tail are steps between those of `Pagination` |

Hosts:

| Module | Models | Correspondence |
| --- | --- | --- |
| `Scheduler`, `BookSession`, `Engine` | `engine.rs` | one action per `&mut self` method; lookup, parse and insertion of the chapter cache are separate, because the mutex is released between them; `Engine` puts the two side by side |
| `FlutterSessions` (extends `HandleRegistry`) | `engine.dart`, `book_session.dart`, `chapter_session.dart`, `layout_session.dart` | one action per method; `open` and `opener` are the disposed flags and child lists, over the native registry |
| `ReaderLoads` (extends `FlutterSessions`) | `pagelet_reader.dart` | a load is asked for, begins, and calls the package step by step; any step may throw; changes, taps and closing come between loads |
| `Hosts` | | a behaviour follows threads on an engine, an application that uses the package's objects, or the reader |

Formats:

| Module | Models | Correspondence |
| --- | --- | --- |
| `Publication` | `epub.rs`: archive index, container, package, navigation, sampling of resources, finding chapters | one step per stage of opening, each a function of archive, mode and what was made so far, for each compatibility mode, all three on one archive |
| `Places` | | the places in a list at which something stands, in order |
| `CssCascade` (extends `Places`) | `epub.rs`: style sheets with imports, selectors, cascade | one step per sheet read; the recursion of imports is a stack |
| `ComputedStyle` (extends `CssCascade`) | `epub.rs`: `style_for_node` | a function along a chain of elements |
| `XhtmlTree` | `epub.rs`: tokenizer, tree builder, compatible repair, salvage | one step per token |
| `InlineText` | `epub.rs`: `InlineAccumulator` | one action per method |
| `ChapterNotes` (extends `InlineText`) | `epub.rs`: the end of `ChapterBuilder::build` (notes, the lone image) | a step per link to a note; the converted chapter comes from outside |
| `ChapterBuilder` (extends `XhtmlTree`, `ChapterNotes`) | `epub.rs` `ChapterBuilder` and the arenas of `document.rs` | the walk over the tree is recursive operators in one step |
| `TextSpans` | `wire.rs`, `text_measure_bridge.dart`: byte ranges of a text | |
| `WireCodec`, `SceneWire` (extend `TextSpans`) | `wire.rs`, `page_scene_decoder.dart`, and the codec in `text_measure_bridge.dart` | a message's fields are a table; Rust's writer, Rust's reader and Dart's each have their own |
| `Measurement` (extends `TextSpans`, `Places`) | `text.rs`, the measuring in `text_measure_bridge.dart` | one step per paragraph; what Flutter's painter finds is any choice of lines and boxes |
| `Formats` | | a behaviour follows one of publication, styles, chapter, inline text, wire, measurement |

`MC...` modules give constants for TLC, `...Proofs` modules hold the theorems
about the module of that name (`CascadeProofs` about `CssCascade` and
`ComputedStyle`, `FormatsProofs` about `InlineText`, `Publication`,
`Measurement` and `ChapterNotes`, `HostsProofs`
about the engine, the Flutter package and `NativeBoundary`).

How they fit. `ControlPlane` uses the registry's operations for its own steps,
and its session is a one-word summary of `LayoutSession` (prepared or
paginated, and for which range). `LayoutSession` takes from `Pagination` that
pages follow each other by break token, that a page may fail, and that it may
be blank. `Repagination` runs `Pagination` three times over, and mixes its pages
with those of an earlier run. `NativeBoundary` puts what may fail around the
control plane's operations, and `FlutterSessions` puts Dart's objects around the
registry; both are shown to implement it. `ChapterBuilder` reads the tree
that `XhtmlTree` built and collects text with `InlineText`; what it made,
`ChapterNotes` completes. The `valid = FALSE`
of a submission in `LayoutSession` is the refusal in `Measurement`. The parts of
`Formats` hand each other finished values and share no state, so they are
checked side by side rather than interleaved.

Definitions commented "Mutant of X" are not part of the model. They are
plausible mistakes in X, kept beside it to show that the properties notice.

What each model leaves out:

* `ControlPlane`: calls that only read (`book_summary`, `hit_test`, ...). Reading
  a resource fills a cache of the book session and touches nothing else.
* `NativeBoundary`: argument validation, except the measurement payload, whose
  decoding failure matters to ownership; concurrent hosts, which `ControlPlane`
  has.
* `LayoutSession`: content of pages; why measurements do not fit the batch.
* `Pagination`: horizontal geometry; links, anchors, selections and semantics
  derived from a finished page. Lines have one height, so that
  `should_keep_with_next` compares with two lines.
* `Repagination`: the refusal of a stale generation, which changes nothing;
  replayed measurements, which equal new ones; node ids, for which a block's
  place stands. Blocks of equal content have equal lines. The previous result is
  always that of a full pagination.
* `Scheduler`: request ids and generations are bounded instead of wrapping
  at 2^64.
* `FlutterSessions`: calls that only read; the copying of buffers.
* `ReaderLoads`: changes that only repaint; what is drawn. Futures made by the
  reader run in the order they were made, each with its continuation.
* `Publication`: the bytes of ZIP records, inflation, percent-decoding and image
  headers: an entry says whether each of these works out, and how large it is.
  Stored entries, like the code's, are not held to their declared size.
* `CssCascade`, `ComputedStyle`: the characters of a sheet; values whose products
  are not whole; properties that no other property depends on.
* `XhtmlTree`, `ChapterBuilder`, `ChapterNotes`: character references, the formatting of
  diagnostics, elements that differ from a modelled one only in the name of the
  node they give.
* `WireCodec`, `SceneWire`: a value is a field of some width, and a field that is
  read at another width fails; `MAX_PAYLOAD_BYTES` counts fields. The checksum is
  injective. Of decoding text, what differs between the sides is modelled: a
  U+FEFF that a string begins with. Fragment ids saturate at `u32::MAX` in the
  code (`wire.rs:1572`) and go on in the model. A version number changed to that of another supported version,
  which the checksum does not cover, is not among the damages. Dart's numbers
  are wide enough, and its division by the layout scale is left out.
* `Measurement`: glyph shapes. Flutter breaks lines wherever a line may be
  broken and may give a character no box; its lines have equal metrics. Its
  offsets count characters, not UTF-16 units, which differ for characters of
  four bytes. A
  fingerprint stands for the whole request.

## 3. Runs

| Run | Question | Instance |
| --- | --- | --- |
| `ControlPlane` | What may two racing host threads do to one session, and what not? | two symmetric threads, six tokens, one range |
| `ControlPlaneSerial` | Does a host that makes one call at a time get the contract of the documentation? Is the ownership tree whole under every order of operations, up to exhausted ids? | one thread, six tokens, two ranges, `LayoutLifecycle` as a property |
| `ControlPlaneTwoInFlight` | *violation:* two requests in flight | as `ControlPlane` |
| `NativeBoundary` | Does a failing call leak a buffer or a request? | six tokens, four buffer ids, so that ids run out in every call |
| `NativeBoundarySubmit` | *violation:* a submission that leaves its request | six tokens, two buffer ids |
| `LayoutSession` | Does progressive pagination give what full pagination gives, whatever ranges are asked for and whatever fails, and does a reader get to the end? | chapters of up to three pages, every set of failing and of blank pages, every page limit up to three, ranges up to 3 + 3 |
| `LayoutSessionLostToken` | *violation:* completion reported before the end | the same |
| `PaginationBlankPage` | *violation:* a blank page in the middle | chapters of up to two blocks |
| `Repagination` | Is every line on exactly one page, does every page move on, does content stay on the page and apart? Does an incremental run show what a full run shows? | chapters of up to three blocks of seventeen shapes, lines two high, page heights 5 and 8, tight and loose limits, paginated; those of five shapes edited in up to two respects |
| `RepaginationTail` | *violation:* a tail laid out for the chapter before the edit | chapters of up to two blocks, one change |
| `Hosts` | Are stale results rejected and limits kept, does a chapter have one identity, do Dart's objects and native handles keep step, does the reader hold on to one document? | one worker per lane, three requests, one invalidation; two threads, two chapters, three parses; six handles for an application; a reader changed twice |
| `Formats` | Do the modes make one book of an archive, is loading finite, do styles cascade, is text kept and are links good, do both sides of the wire agree, are measurements accepted? | see below |

Bounds, and why they suffice.

* `MaxGeneration = 7` leaves six tokens: an engine, a book, a chapter, a layout
  and two requests, or two trees beside each other. All interactions of the
  registry are between an object, its ancestors and one neighbour. The bound is
  also the code's own: the last generation is refused, and the runs reach it.
* Two threads reach every pairing of critical sections of two calls. Every
  property of the control plane relates at most two calls; the theorems cover
  any number.
* Three pages give a first, a middle and a last page, with a failure at, before
  or after a requested range.
* Three blocks of `Pagination` give a block with one before and one behind.
  Lines are two high, the least height of an image is one. Three lines split on
  pages five high, which take two; seven lines split three times. The shapes
  include negative and collapsing margins, padding, negative padding below text
  and below a cover, a list item with its marker, both break flags, a heading
  kept with the next block, empty text, a box that fits and images that do not,
  one of them of unknown size. A limit of two fragments or four pages is passed
  in the middle of such chapters, the former also by the marker of a list item
  that a page ends with.
* Seven lines on pages that take two fill three pages and leave room on a fourth:
  `Repagination` needs two matching pages and something behind them. Two changes
  at once give one before and one behind the match, or a block together with the
  page height, the limit, the fonts or a version.
* Three scheduled requests with two slots reach refusal, cancellation and reuse
  of a slot.
* `HostGenerations = 6` lets an application have a full tree of objects and one
  neighbour at any level. `MaxChanges = 2` gives three loads, so that one is
  late, one waits and one is current; `MaxGeneration = 24` is enough for all of
  them.
* An archive of `Formats` has seven entries and is sound or has something
  changed: its package or container (eleven and five forms), one of thirteen
  faults in any one entry, its navigation, an entry left out or added or spelled
  in another case; and where one document falls back on another, two at once.
  The limits are such that faults reach each of them.
* Four style sheets of which three may import others give chains, diamonds and
  cycles of imports, past the depth of two, with sheets that are missing, broken
  or have too many selectors. Chains of four elements have two ancestors that fit
  one part of a selector. Specificity ties, importance and inline styles meet, and
  one sheet has several imports.
* Documents: sequences of up to four pieces from six, which is every way to
  mismatch two kinds of element, and twenty-three longer ones for notes, links,
  images beside breaks and other blanks, lists, tables and limits. Text of three characters has a first, a
  middle and a last, with white space pending at each.
* Messages: for each kind a plain one and each that differs from it in one field,
  in every version, from each writer, and from one that checks nothing. The plain
  ones also arrive cut, short of a field, with another magic, version, kind or
  length, or with any one field changed, on the way or by a writer that seals it.
  Texts have characters of one and of two bytes and U+FEFF, at the start and
  behind it; `MaxItems = 2` and
  `MaxString = 4` are passed by one.
* Batches of up to two requests with texts of up to four characters, with every
  sequence of line breaks of that length that matters (LF, CR, CR LF, LF CR), and
  fifteen odd requests.

Deadlock is checked for `LayoutSession`, where a host can always call. It is
switched off where the model ends: spent ids, a dropped registry, finished
pagination, spent requests, a part that has come to its end.

### Disagreements with the code's own statements

* `ControlPlaneTwoInFlight`: `layout_request` looks for a request in flight and
  inserts the new one in two critical sections (`control.rs:131`), so two
  threads can get two requests in flight on one session. The contract speaks of
  one at a time.
* `NativeBoundarySubmit`: a submission whose payload does not decode returns
  before the control plane is called (`native.rs:360`); its request stays in
  flight, and the session answers further requests with an error until the host
  cancels it. The contract says that submitting retires the handle.
* `LayoutSessionLostToken`: `page_range` takes the break token before it builds
  the page (`layout.rs:1485`) and does not put it back when the page fails. The
  next request reports the chapter complete.
* `PaginationBlankPage`: an empty paragraph with `page-break-after: always` at
  the top of a page closes that page empty (`layout.rs:2662`), and the
  validation at the end refuses the whole chapter (`layout.rs:2354`).
* `RepaginationTail`: two matching pages do not show that the edit is behind
  them (`layout.rs:1805`). A paragraph that runs over three pages loses a change
  of the break after it, because its first two pages match.

`CompleteUnlessLost`, `OnlyEncodingLosesARequest` and `IncrementalIsFull` say
what still holds in spite of these. The last names every
way in which an incremental result differs from a full one: a tail taken over
while an edited block is still ahead (`TailCurrent`); pages kept although the
first block behind them was edited and might now fit on them, or although the
page height, fonts or versions changed together with a block (`PrefixCurrent`);
and limits that were lowered, which kept pages and tails are not held to.

Other properties are stated around behaviour that the models show and that a
team may want to look at; no run is spent on it:

* Sheets with several imports (`epub.rs:2512`): imports draw from the counter of
  the sheet's rules but do not move the base of the next sheet, so a sheet with
  two imports outranks a later one. `LaterSheetWins` excepts such books;
  `StrongestWins` has no exception for them, since only declarations of equal
  importance and specificity can go to the wrong sheet.
* An inline style overrides an `!important` rule of a sheet (`epub.rs:1741`),
  where CSS lets the rule win. `StrongestWins` says what the code does.
* The limit on fragments is asked for before a round (`layout.rs:2580`), and a
  list item's first piece pushes its marker as a fragment of its own (2966)
  beside its text (3012): a page can end one past the limit, if that piece ends
  it (by a split, a break after it, or the end of the chapter). `FragmentsWithinLimit` allows that marker and no more.
* A container with padding adds its last child's margin below, which may be
  negative, to the child's padding (`layout.rs:3633`). Text is then broken as if
  the last line needed less room (2926), and that line passes the bottom of the
  page by up to as much. `OverflowExcused` allows what such a padding makes up
  for (`DrawnUp`), of text less than one line.
* A string that begins with U+FEFF loses it in Dart: `utf8.decode` takes it for
  a byte order mark (`page_scene_decoder.dart:802`,
  `text_measure_bridge.dart:1237`), `str::from_utf8` keeps it (`wire.rs:675`).
  Ranges count its three bytes, so a page or a request with such a paragraph
  may be refused. `WireAgrees` and `ReadersAgree` say of such strings that Dart
  refuses them or differs in nothing but that character (`DartReads`).
* Notes: a note in another document is looked up by its fragment alone, so of two
  notes with one fragment in two documents the second is not fetched
  (`NotesOnce` speaks of notes, not of links); a note whose document is missing
  fails the chapter.
* Images: with no cover declared, an image whose path does not resolve has the
  cover's role, since both paths are absent.
* Text: `x <a> y</a>` comes out with two spaces, one on each side of the link's
  start. `InlineSound` therefore says only that no *line* begins with white
  space.
* Broken markup: an end tag `</#document>` closes the root (`epub.rs:2320` looks
  for a name, not for an element), and an element opened behind it and never
  closed is taken for the root at the end (`epub.rs:2253` skips the first of the
  stack), so that its range stays that of its start tag. Ranges nest in every
  other document (`TakenForRoot`).
* Fonts: what stands in a heading of default size is given 16 px, not the size
  of the heading (`FontsInherited` excepts it).
* Modes: a navigation document that is not UTF-8 fails opening in every mode,
  one that cannot be read at all is a warning; a mode that tolerates more may
  find another navigation document by case and fail on it (`ModesAgree` speaks
  of books that strict opens without a diagnostic).
* `SessionsTrackHandles` allows one kind of stray: a layout whose chapter was
  disposed of is marked disposed in Dart and lives on natively until its book
  goes (`chapter_session.dart:35`).
* The reader: the failure of an older load is shown although a newer load is
  under way, and stays when the newer document arrives
  (`pagelet_reader.dart:74`); the selection of an older page is kept over a
  change.
* The bridge refuses a language tag that is not well-formed
  (`text_measure_bridge.dart:414`), and with it the whole batch.

### Fairness

Safety runs assume none. `FairControlSpec` (`SubmitRetiresRequest`) has weak
fairness of each thread's `Continue`: a call under way runs on, since it waits
only for mutexes that every holder releases; nobody has to call. `ReadingSpec`
(`ReaderReachesEnd`) has weak fairness of the `page_range` loop for the same
reason, and strong fairness of a reader that asks for the page after those it
has. The second is an assumption about the host, not about the code: it is what
"keeps reading" means, and it is strong because other calls on the session come
between. `FormatsSpec` (`LoadingEnds`) has weak fairness of `StylesStep`: loading
the sheets of a chapter is one call that waits for nothing, so it runs until it
returns; that it does is what the check of imports against the stack and the
depth is for.

## 4. Proofs

All for every value of the constants, under the named assumptions of the
modules (bounds are natural numbers, the default range is a range, blocks are
well-typed, the page height is positive, worker counts are natural numbers,
white space is no letter, lines have a height and the byte order mark three bytes, margins
and paddings are any integers, an archive's lists are sequences, and so are a style
sheet's, whose values are numbers with a unit or words; what can be read is in
the book; a character has one to four bytes; a fingerprint stands for one
request).

* `HandleRegistryProofs`. `RegistryTypeOK`, `NoOrphans`, `TokensNeverReused` and
  `RetiredRequestsCancelled` are inductive only together: that a new token is
  fresh needs the bound on generations of live *and* retired tokens, and that a
  disposal leaves no orphan needs that a subtree is closed under children.
  `DisposeReleasesOneTree` follows from the least closed set being the set of
  objects that have the root among their owners.
* `ControlPlaneProofs`. Every critical section is a registry operation or leaves
  the registry alone, so `ControlSpec => RegistrySpec`, and the registry's
  theorems carry over to any number of threads. The step of `request_cancel`
  that sets a token after its handle was resolved needs a fact about frames:
  the request held there is live or cancelled already (`CancelHeld`).
  `CancelledSubmitRefused` needs that a submission past its check is not late;
  `PagesAcceptedOnce` holds step by step. With one thread the control plane is
  the pages host its C header describes (`SerialHostSeesContract`): a request is
  opened only by a thread that has none (`Alone`), so at most one is in flight
  (`SerialOneRequest`). That the two-thread run refutes the same refinement is
  the finding of section 3.
* `HostsProofs`, about `FlutterSessions`, `ReaderLoads`, `Scheduler`,
  `BookSession`, `Engine` and `NativeBoundary`. Every method of the Flutter package is one registry
  step or none. Objects keep step with handles because `opener` repeats the ownership of handles,
  except that a layout hangs under its chapter in Dart and under the book
  natively (`OpenersOwn`); what disposal marks (`Owned`) is then the native
  subtree but for such layouts, which is what `Strays` says. That a new object
  opens nothing needs that no opener is a handle still to come (`OpenersOld`).
  The reader example is a client of these sessions (`ReaderImplementsSessions`),
  and between loads it holds one document, whatever the order in which its loads
  finish (`ReaderHoldsOneDocument`). The invariant says that loads were asked for
  in order, that what is shown is what the newest finished load set
  (`ShownIsLast`), and which sessions exist beside it (`HoldsAlone`).
  The scheduler counts the requests it keeps, `LimitsKept` speaks
  of work that goes on and is wanted; the two are the same set (`WantedKept`),
  because ids are unique (`IdsUnique`). `StaleRejected` needs that what was
  scheduled before an invalidation is of an older generation
  (`OutdatedOlder`). `OneIdentity` holds for any number of threads.
  Every C entry point is one registry step or none, wherever it fails
  (`BoundarySpec => RegistrySpec`). The invariant says what the call under way
  still owes: the buffers it holds (`BuffersHeld`), and the request it has not
  told the host about (`RequestsKnown`). `BuffersOwned` and
  `OnlyEncodingLosesARequest` follow, the latter because between calls nothing
  is owed.
* `LayoutSessionProofs`. The invariant ties the break token to the retained
  pages: a token that is there names the page after the last one, a token that
  is gone means the end or a failed page. From it come `PagesArePrefix`,
  `CompleteUnlessLost`, `AnswerIsFullPagination` and `RetainedPagesStay` for
  chapters of any length and any requests.
* `PaginationProofs`. A page that has been started has left the position it
  started at; a refusal needs a started page; at least one line is taken
  otherwise. So every page moves the break token forward
  (`PaginationProgresses`), for any blocks, tokens and pieces stay in bounds, and
  a page holds no more fragments than the limit, but for the marker of the list
  item that it ends with (`PaginationTypeCorrect`): a round may add two, and a
  round behind a marker that passed the limit is refused. `NothingLostOrRepeated` counts, so it is proved of
  something that does not: what is shown lies behind the position the loop has
  reached (`ShownBehind`), each piece behind those before it (`ShownInOrder`),
  nothing behind that position is missing (`AllShown`), and only text is split
  (`SplitText`). A step either shows what was shown and passes over nothing
  visible (`StillShown`) or adds one piece behind all others (`MoreShown`).
  `PagesKeepText` says it of one pagination, `ScratchKeepsText` (`TextKept`) of
  those before and after an edit.
  `EditIsShown` (`FirstEditShown`) is the theorem about incremental
  repagination. It needs what the previous result is (`Result`: its pages show
  the blocks in order, all but the last show something, each piece says what its
  block said) and that the pages kept end before the first that shows the edited
  block (`CheckpointBounds`). Then a tail is sound (`TailIsRight`): a page behind
  two that matched shows the edited block only if the second of them does, and
  that one was rebuilt.
  `PlacementIsSound`: the boxes of a page lie one below the other, where no
  spacing is negative, and inside the page, but for a box that alone is too tall
  and for what ends a block with a negative padding, which draws what follows up
  again (`DrawnUp`); the invariant follows the builder's
  cursor through a page that may still be refused (`PlacementInv`).
  `RepaginationIsFull` (`IncrementalIsFull`): an incremental repagination ends
  with the pages, or the failure, of full pagination, for any chapter, edit and
  limits that the property admits. A round is a function of block, height and
  page (`RoundIs`), so the page that starts at a token grows in one way and
  closes in one way (`Reached`, `EndsAlike`); pages that start where the one
  before ended (`Chain`) agree as far as both go (`ChainsAlike`), so a chapter
  ends in one way (`EndedAlike`). The invariant `FullInv` says that both builders
  are on that way (`OnTrack`). The pages kept are on it because each only looked
  at blocks before the first edited one, which are the same in both editions
  (`KeptIsCurrent`, by `MadeElsewhere`); the tail because its pages look at
  blocks behind the last edited one (`TailIsCurrent`).
* `CascadeProofs`, about `CssCascade` and `ComputedStyle`. The code walks lists,
  and what a walk comes to is proved by counting: the smallest place at which a
  claim fails is found (`MinOf`), so a claim that holds at 0 and goes on from
  each place to the next holds everywhere (`UpTo`). So is it proved that there
  is a function satisfying the equation of such a walk (`PlacesExist`,
  `FlatExists`, `WinnersExist`, `StylesExist`).
  `CascadeIsSound` (`CascadeSound`) has three parts. Matching takes the nearest
  ancestor for each part of a selector and never goes back; whatever ancestors
  another match takes, the nearest ones lie no further out, so nothing is lost.
  The winner carried along is one that no declaration met before is stronger
  than, whatever source orders say, so none of the sheets' is (`StrongestWins`,
  for any imports), and what the style attribute sets replaces it. And loading
  keeps the merged rules in the order that they count: the invariant
  (`CssInv`) says so of the rules merged so far, as long as no sheet merged has
  several imports, and of every order in them that it is at most their number, so
  that a sheet merged later counts after all of them. So of two declarations that are equal otherwise the one met later has the larger
  source order, and the winner carried along beats all that were met.
  `StylesComputedOnce` (`ComputedOnce`): a length that was resolved is settled
  (`FixedLength`), and resolving it again with another font leaves it alone, so
  what an element hands down is what its descendants inherit, at any depth.
* `FormatsProofs`, about `InlineText`, `Publication`, `Measurement` and `ChapterNotes`. Each operation keeps a
  sound accumulator sound (`Sound`), whatever was collected before: one lemma
  for each, of any accumulator, and `InlineSound` follows for any markup.
  An opening is a chain of steps, each a function of the archive, the mode and
  what was made so far. The invariant (`OpeningInv`) says that a mode has made
  what the chain makes (`SoFar`), so two modes are compared step by step,
  whichever of them was first (`ModesOpenAlike`). What strict reads the others
  read alike, since an exact entry comes first; what it makes without a
  diagnostic they make, as they lose no document that it found. Compatible and
  salvage resolve alike and differ only in a container that is no good, which
  compatible refuses. `OpeningReadsLittle` bounds the readings of a chain
  (`Lean`): one at most for each step before the last, each of an entry of an
  indexed archive. `NamesFindOneThing` reverses the archive by a bijection of
  its places: it keeps the entries that fit a path and how many they are, and
  where a path fits exactly, or one entry alone, the first is the last. The
  theorems assume of an archive only that its lists are sequences, its sizes
  numbers and its items there.
  `MeasurementIsAccepted` (`MeasurementsAccepted`): what measures a text walks
  it, so a claim is carried along. The deterministic backend carries a pen: the
  lines ended so far cover the text up to where the line at hand began, each
  cluster lies in the line it was counted to, no line is wider than the limit
  (`PenGoes`). Of the bridge only Flutter's lines are given, for any choice of
  soft breaks: they follow each other, and each but the last is followed by
  nothing or by one line break that it does not hold (`PaintedWell`); from where
  it has come to the bridge finds the next of them again (`FoundWell`), and each
  character that is no line break is on just one (`PaintedOnIs`). So a result
  fits its request (`Measured`). The invariant of a batch (`MeasureInv`) says
  that of every result, in the order of the requests, and that a response
  accepted has the requests of the batch: a valid result has its request's
  fingerprint, and no two requests share one (`BatchAssumption`, which idealises
  the hash). A host measures only a batch whose ids differ, so acceptance loses
  no request either (`AcceptedIsSame`).
  Of notes (`NotesComeOnce`), the induction is over the links resolved: those
  still asked for are links of the chapter (`Asking`), so a backlink is one, and
  a note is fetched only when the chapter has none of its name. It starts from any
  chapter whose notes have a place in the source and lead nowhere (`Fresh`, in
  `Converted`): that the walk over the tree gives such a one is what `NotesOnce`
  says of the moment before the first link, and the run checks.
* `XhtmlTreeProofs`, about the tree of any document, in strict mode or repaired.
  `RangesNest` says nothing while elements are open, as their range is still
  that of their start tag. What holds then is `TreeFits`: the stack has the open
  elements from the outside in, only the last child of a node is open, and only
  under an open parent or the root, and what is closed holds its children
  (`Nested`). An end tag closes from the inside out, and so does the end of the
  document, so each range finds its children's done (`ClosedFits`). A node that is
  pushed goes under the top, behind which nothing is open, so its elder siblings
  are closed (`PushFits`). `TreeRangesNest` adds that every node but the root has
  one parent, so that a walk over the tree comes to each once (`OneParent`).
  `TextsAreInTree` (`TextsInTree`): each text is a node with what it says, and nodes are in the
  order of the document, however it was repaired. Assumed of a document: that it
  is a sequence.

Only model-checked: `LayoutContract` for more than one thread (where it does not
hold), and what the runs check of `ChapterBuilder` and `SceneWire`, but for the
parts of `PlacesSound` and `TextPreserved` that are about the tree and for notes. Those are about walks
over trees and tables of fields, written with recursive operators, which the
prover cannot read; walks over lists, which it can, are proved about by counting
places, as in `CascadeProofs` and `FormatsProofs`.
Liveness under fairness (`SubmitRetiresRequest`, `ReaderReachesEnd`,
`LoadingEnds`) is beyond the prover.

## 5. Not modelled, and what is left

* Block flattening and styling (`layout.rs`) turns chapter IR into flow blocks:
  data without state. `Pagination` takes its result as given, and so leaves out
  links, anchors, selections and semantics of the finished page.
* `read_resource`'s cache in `BookSession` has the shape of the chapter cache,
  but hands out copies, so that no caller can tell which one it holds.
* `LayoutUnit`'s saturating arithmetic: the models count in small units.
* The panic boundary: a panic is one more way a modelled call fails.
* The command line, debug JSON and SVG, the test kit, fuzz drivers, benchmarks
  and workspace tools keep no state of the program. The libraries for ZIP, XML,
  fonts and hashing are third parties'.

Next: the derived parts of a finished page; `LayoutUnit`.
