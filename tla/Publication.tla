---------------------------- MODULE Publication ----------------------------
(***************************************************************************)
(* Opening an EPUB (crates/pagelet/src/epub.rs): the archive is indexed and *)
(* checked, then container, package and navigation are read from it, the    *)
(* headers of images and fonts are sampled, and chapters can be found       *)
(* through the spine.  One archive is opened in each compatibility mode in   *)
(* turn, so that what the modes make of it can be compared.                 *)
(*                                                                         *)
(* Sizes count units of bytes.  A path is a string, Lower gives its lower   *)
(* case; a text is a record of what its parser finds in it.                 *)
(***************************************************************************)
EXTENDS Integers, Sequences, SequencesExt, FiniteSetsExt

CONSTANTS
  Archives,        \* the archives that may be opened
  Lower,           \* path -> its ASCII lower case
  Unsafe,          \* entry paths that leave or alias the container
  Encoded,         \* entry paths with a percent sign
  Outside,         \* a reference that is remote or leaves the container
  Absent,          \* an attribute, fallback or item that is not there
  MaxEntries, MaxSingle, MaxTotal, MaxRatio, MaxDiagnostics,   \* ResourceLimits
  HeaderPrefix     \* IMAGE_HEADER_PREFIX_BYTES

\* Lists are sequences, sizes are numbers, and what is not there is no item.
ASSUME PublicationAssumption ==
  /\ HeaderPrefix \in Nat
  /\ \A a \in Archives :
       /\ a.entries \in Seq(Range(a.entries))
       /\ \A e \in Range(a.entries) :
            /\ {e.declared, e.compressed, e.actual} \subseteq Nat
            /\ e.content.kind = "package" =>
                 /\ e.content.manifest \in Seq(Range(e.content.manifest))
                 /\ Absent \notin Range(e.content.manifest)

VARIABLES
  archive,  \* [entries, count]: the central directory and the count it declares
  opening   \* what each mode has made of it

publicationVars == <<archive, opening>>

CompatibilityModes == <<"Strict", "Compatible", "Salvage">>

Unlimited == -1

Unopened ==
  [phase |-> "index", rootfiles |-> <<>>, package |-> Absent, navigation |-> Absent,
   diagnostics |-> <<>>, reads |-> <<>>, samples |-> <<>>]

PublicationInit ==
  /\ archive \in Archives
  /\ opening = [m \in Range(CompatibilityModes) |-> Unopened]

Settled(m) == opening[m].phase \in {"open", "refused"}

\* The mode whose opening is under way.
Turn(m, phase) ==
  /\ opening[m].phase = phase
  /\ \A i, j \in DOMAIN CompatibilityModes :
       i < j /\ CompatibilityModes[j] = m => Settled(CompatibilityModes[i])

\* A step of the opening, which makes something more of what was made so far.
Does(m, phase, next) ==
  Turn(m, phase) /\ opening' = [opening EXCEPT ![m] = next] /\ UNCHANGED archive

GivenUp(made) == [made EXCEPT !.phase = "refused"]

-----------------------------------------------------------------------------
(* ZipPublicationStore *)

Entries == archive.entries

\* Directories are not files.
FilesOf(entries) == {i \in DOMAIN entries : ~entries[i].directory}

Files == FilesOf(Entries)

Sum(numbers) == FoldFunction(LAMBDA n, sum : n + sum, 0, numbers)

\* How often the declared size holds the compressed one, rounded up.
TooDense(e) ==
  IF e.compressed = 0 THEN e.declared > 0
  ELSE (e.declared + e.compressed - 1) \div e.compressed > MaxRatio

\* index_zip_entries and from_bytes
Indexed(m) ==
  /\ \A i \in DOMAIN Entries : Entries[i].sound
  /\ m = "Strict" => archive.count = Len(Entries)
  /\ Cardinality(Files) <= MaxEntries
  /\ \A i \in Files : LET e == Entries[i] IN
       /\ e.path \notin Unsafe
       /\ m = "Strict" => e.path \notin Encoded
       /\ e.declared <= MaxSingle
       /\ ~TooDense(e)
  /\ Sum([i \in Files |-> Entries[i].declared]) <= MaxTotal
  /\ \A i, j \in Files : i # j => Entries[i].path # Entries[j].path

Spelled(entries, path) == {i \in FilesOf(entries) : entries[i].path = path}
Folded(entries, path) == {i \in FilesOf(entries) : Lower[entries[i].path] = Lower[path]}

\* Mutant of Resolve: of several entries that differ in case the last one counts.
ResolveLast(entries, path, m) ==
  LET exact == Spelled(entries, path) folded == Folded(entries, path) IN
  IF exact # {} THEN entries[Max(exact)].path
  ELSE IF m # "Strict" /\ folded # {} THEN entries[Max(folded)].path ELSE Absent

\* Mutant of Resolve: but for strict an exact entry is not looked for first.
ResolveFolded(entries, path, m) ==
  LET fits == IF m = "Strict" THEN Spelled(entries, path) ELSE Folded(entries, path) IN
  IF Cardinality(fits) = 1 THEN entries[Max(fits)].path ELSE Absent

\* resolve_path: the exact entry, or but for strict the only one of another case.
Resolve(entries, path, m) ==
  LET exact == Spelled(entries, path) folded == Folded(entries, path) IN
  IF exact # {} THEN entries[Max(exact)].path
  ELSE IF m # "Strict" /\ Cardinality(folded) = 1 THEN entries[Max(folded)].path ELSE Absent

EntryAt(path) == CHOOSE e \in {Entries[i] : i \in Files} : e.path = path

\* read_with_limit: a stored entry is not held to its declared size.
CanRead(e, limit) ==
  /\ e.within
  /\ \/ e.method = 0
     \/ e.method = 8 /\ e.deflates /\ (limit = Unlimited => e.actual = e.declared)

SizeRead(e, limit) ==
  LET size == IF e.method = 0 THEN e.compressed ELSE e.actual IN
  IF limit = Unlimited \/ size < limit THEN size ELSE limit

Reading(e, limit) == [path |-> e.path, size |-> SizeRead(e, limit), method |-> e.method]

\* read_path of a whole resource, as text or as bytes.
CanReadPath(m, path) ==
  LET found == Resolve(Entries, path, m) IN found # Absent /\ CanRead(EntryAt(found), Unlimited)

Content(m, path) == EntryAt(Resolve(Entries, path, m)).content

Textual(m, path) == Content(m, path).kind # "binary"

NotedRead(m, made, path) ==
  Append(made.reads, Reading(EntryAt(Resolve(Entries, path, m)), Unlimited))

\* The whole archive is indexed, and its mimetype entry read.
AfterIndex(m, made) ==
  IF /\ Indexed(m)
     /\ CanReadPath("Strict", "mimetype")
     /\ Content("Strict", "mimetype").kind = "mimetype"
  THEN [made EXCEPT !.phase = "container", !.reads = NotedRead("Strict", made, "mimetype")]
  ELSE GivenUp(made)

-----------------------------------------------------------------------------
(* DiagnosticCollector *)

Full(made) == Len(made.diagnostics) + 1 > MaxDiagnostics

-----------------------------------------------------------------------------
(* parse_container *)

ContainerPath == "META-INF/container.xml"

\* parse_container_xml
ContainerParses(text) ==
  /\ text.kind = "container"
  /\ text.rootfiles # <<>>
  /\ \A i \in DOMAIN text.rootfiles : text.rootfiles[i].path # Absent

CanParseContainer(m) ==
  CanReadPath(m, ContainerPath) /\ ContainerParses(Content(m, ContainerPath))

\* A container that is no good is an error among the diagnostics in salvage mode.
AfterContainer(m, made) ==
  IF CanParseContainer(m)
  THEN LET rootfiles == Content(m, ContainerPath).rootfiles several == Len(rootfiles) > 1 IN
       IF several /\ Full(made) THEN GivenUp(made)
       ELSE [made EXCEPT !.phase = "package", !.rootfiles = rootfiles,
                         !.reads = NotedRead(m, made, ContainerPath),
                         !.diagnostics = IF several THEN Append(@, "rootfiles") ELSE @]
  ELSE IF m = "Salvage" /\ ~Full(made)
  THEN [made EXCEPT !.phase = "package", !.diagnostics = Append(@, "container")]
  ELSE GivenUp(made)

\* choose_rootfile
Rootfile(m, rootfiles) ==
  LET packages == {i \in DOMAIN rootfiles : rootfiles[i].package} IN
  IF packages # {} THEN rootfiles[Min(packages)].path
  ELSE IF m = "Strict" \/ rootfiles = <<>> THEN Absent ELSE rootfiles[1].path

-----------------------------------------------------------------------------
(* parse_opf *)

\* The href of an item is the path it resolves to, or one that does not.
PackageParses(text) ==
  /\ text.kind = "package"
  /\ \A i \in DOMAIN text.manifest : text.manifest[i].id # Absent /\ text.manifest[i].path \notin {Absent, Outside}
  /\ \A i \in DOMAIN text.spine : text.spine[i] # Absent
  /\ \A i \in DOMAIN text.guide : text.guide[i].path # Outside

FirstItem(package, Fits(_)) ==
  LET places == {i \in DOMAIN package.manifest : Fits(package.manifest[i])} IN
  IF places = {} THEN Absent ELSE package.manifest[Min(places)]

\* The first item with the property, or the one the older meta element names.
CoverOf(text) ==
  LET item == FirstItem(text, LAMBDA i : "cover-image" \in i.properties \/ i.id = text.cover) IN
  IF item = Absent THEN Absent ELSE item.path

Package(text) ==
  [manifest |-> text.manifest, spine |-> text.spine, toc |-> text.toc,
   guide |-> SelectSeq(text.guide, LAMBDA reference : reference.path # Absent),
   cover |-> CoverOf(text)]

AfterPackage(m, made) ==
  LET path == Rootfile(m, made.rootfiles) IN
  IF path # Absent /\ CanReadPath(m, path) /\ PackageParses(Content(m, path))
  THEN [made EXCEPT !.phase = "navigation", !.package = Package(Content(m, path)),
                    !.reads = NotedRead(m, made, path)]
  ELSE GivenUp(made)

-----------------------------------------------------------------------------
(* parse_navigation *)

\* parse_epub3_nav: a nav of no known type is a table of contents; the last one
\* counts, and all links of the document when there is none.
NavOf(text) ==
  LET Section(types) == SelectSeq(text.navs, LAMBDA nav : nav.type \in types)
      LinksOf(sections) == IF sections = <<>> THEN <<>> ELSE Last(sections).links
      toc == LinksOf(SelectSeq(text.navs, LAMBDA nav : nav.type \notin {"page-list", "landmarks"}))
  IN  [source |-> "Epub3Nav", toc |-> IF toc = <<>> THEN text.links ELSE toc,
       pages |-> LinksOf(Section({"page-list"})), landmarks |-> LinksOf(Section({"landmarks"}))]

\* parse_ncx: a point without a target is left out.
NcxOf(text) ==
  [source |-> "Ncx", toc |-> SelectSeq(text.links, LAMBDA link : link.path # Absent),
   pages |-> <<>>, landmarks |-> <<>>]

GuideOf(package) ==
  [source |-> "Guide", toc |-> package.guide, pages |-> <<>>, landmarks |-> package.guide]

ItemNamed(package, id) == FirstItem(package, LAMBDA i : i.id = id)

\* spine_navigation: an entry has the number of its place in the spine, and a
\* place that names no item has none.
SpineOf(package) ==
  LET named == {i \in DOMAIN package.spine : ItemNamed(package, package.spine[i]) # Absent} IN
  [source |-> "Spine",
   toc |-> [i \in named |->
             [label |-> package.spine[i], path |-> ItemNamed(package, package.spine[i]).path]],
   pages |-> <<>>, landmarks |-> <<>>]

NavItem(package) == FirstItem(package, LAMBDA i : "nav" \in i.properties \/ i.nav)

NcxItem(package) ==
  IF package.toc # Absent /\ ItemNamed(package, package.toc) # Absent
  THEN ItemNamed(package, package.toc) ELSE FirstItem(package, LAMBDA i : i.ncx)

Fallback(package) == IF package.guide # <<>> THEN GuideOf(package) ELSE SpineOf(package)

\* A document that can be read but is not text is an error, in every mode.
Found(m, made, item, navigation, warnings) ==
  IF ~Textual(m, item.path) THEN GivenUp(made)
  ELSE [made EXCEPT !.phase = "resources", !.navigation = navigation,
                    !.reads = NotedRead(m, made, item.path), !.diagnostics = @ \o warnings]

\* Each document of the two that cannot be read is a warning.
AfterNavigation(m, made) ==
  LET package == made.package
      nav == NavItem(package)
      ncx == NcxItem(package)
      lost == IF nav = Absent \/ CanReadPath(m, nav.path) THEN <<>> ELSE <<"nav">>
      both == lost \o IF ncx = Absent \/ CanReadPath(m, ncx.path) THEN <<>> ELSE <<"ncx">>
      Overflows(warnings) == warnings # <<>> /\ Len(made.diagnostics) + Len(warnings) > MaxDiagnostics
  IN  IF Overflows(lost) THEN GivenUp(made)
      ELSE IF nav # Absent /\ lost = <<>> THEN Found(m, made, nav, NavOf(Content(m, nav.path)), <<>>)
      ELSE IF Overflows(both) THEN GivenUp(made)
      ELSE IF ncx # Absent /\ both = lost THEN Found(m, made, ncx, NcxOf(Content(m, ncx.path)), lost)
      ELSE [made EXCEPT !.phase = "resources", !.navigation = Fallback(package), !.diagnostics = @ \o both]

-----------------------------------------------------------------------------
(* book_ir_from_opened: the first bytes of every image and font are sampled. *)

Sampled == {i \in Files : Entries[i].sampled}

\* Mutant of AfterResources: a sampled resource is read to its end.
AfterWholeResources(m, made) ==
  IF \A i \in Sampled : CanRead(Entries[i], Unlimited)
  THEN [made EXCEPT !.phase = "open", !.samples = [i \in Sampled |-> Reading(Entries[i], Unlimited)]]
  ELSE GivenUp(made)

AfterResources(m, made) ==
  IF \A i \in Sampled : CanRead(Entries[i], HeaderPrefix)
  THEN [made EXCEPT !.phase = "open", !.samples = [i \in Sampled |-> Reading(Entries[i], HeaderPrefix)]]
  ELSE GivenUp(made)

-----------------------------------------------------------------------------

Index(m) == Does(m, "index", AfterIndex(m, opening[m]))
Container(m) == Does(m, "container", AfterContainer(m, opening[m]))
OpenPackage(m) == Does(m, "package", AfterPackage(m, opening[m]))
OpenNavigation(m) == Does(m, "navigation", AfterNavigation(m, opening[m]))
Enrich(m) == Does(m, "resources", AfterResources(m, opening[m]))

PublicationNext ==
  \E m \in Range(CompatibilityModes) :
    Index(m) \/ Container(m) \/ OpenPackage(m) \/ OpenNavigation(m) \/ Enrich(m)

PublicationSpec == PublicationInit /\ [][PublicationNext]_publicationVars

-----------------------------------------------------------------------------
(* Finding chapters *)

\* spine_manifest_item, by which a chapter is opening.
ChapterPath(package, i) ==
  LET item == ItemNamed(package, package.spine[i]) IN IF item = Absent THEN Absent ELSE item.path

\* The href that book_ir_from_summary gives the spine item: by manifest index.
SpineHref(package, i) ==
  LET places == {k \in DOMAIN package.manifest : package.manifest[k].id = package.spine[i]} IN
  IF places = {} THEN Absent ELSE package.manifest[Min(places)].path

-----------------------------------------------------------------------------
(* Properties *)

Opened(m) == opening[m].phase = "open"

\* What a reader is told of a book.
Told(m) == <<opening[m].package, opening[m].navigation>>

(* The modes differ in what they take, not in what they make of it: a book   *)
(* that strict opens without a diagnostic is the same book in the others,    *)
(* and what compatible opens salvage opens the same.                         *)
ModesAgree ==
  /\ Opened("Strict") /\ opening["Strict"].diagnostics = <<>> /\ Settled("Compatible") =>
       Opened("Compatible") /\ Told("Compatible") = Told("Strict")
         /\ opening["Compatible"].diagnostics = <<>>
  /\ Opened("Compatible") /\ Settled("Salvage") => opening["Salvage"] = opening["Compatible"]

\* What a path names does not hang on the order of the archive's entries,
\* exactly spelled or not.
OrderIrrelevant ==
  \A m \in Range(CompatibilityModes) : opening[m].phase # "index" /\ opening[m].phase # "refused" =>
    \A path \in DOMAIN Lower : Resolve(Entries, path, m) = Resolve(Reverse(Entries), path, m)

(* A book opens lazily: whatever it holds, no more is read whole than        *)
(* mimetype, container, package and one navigation document, none of them    *)
(* inflates beyond the limit, and of an image or font no more is read than a *)
(* header.                                                                   *)
OpeningIsLazy ==
  \A m \in Range(CompatibilityModes) : LET reads == opening[m].reads samples == opening[m].samples IN
    /\ Len(reads) <= 4
    /\ \A i \in DOMAIN reads : reads[i].method = 8 => reads[i].size <= MaxSingle
    /\ \A i \in DOMAIN samples : samples[i].size <= HeaderPrefix

\* The chapter that opens for a place in the spine is the one that the book
\* shows there, in manifests with doubled, missing and dangling ids.
SpineAgrees ==
  \A m \in Range(CompatibilityModes) : Opened(m) =>
    /\ \A i \in DOMAIN opening[m].package.spine :
         ChapterPath(opening[m].package, i) = SpineHref(opening[m].package, i)
    /\ opening[m].navigation.source = "Spine" =>
         LET package == opening[m].package toc == opening[m].navigation.toc IN
         /\ DOMAIN toc = {i \in DOMAIN package.spine : SpineHref(package, i) # Absent}
         /\ \A i \in DOMAIN toc : toc[i].path = SpineHref(package, i)

(* A name finds one thing, whoever asks: a path the same entry in whatever   *)
(* order the archive lists its entries, and a place in the spine the same    *)
(* chapter for the reader that opens it and in the book that is shown, in    *)
(* manifests with doubled, missing and dangling ids.                         *)
NamesAgree == OrderIrrelevant /\ SpineAgrees
=============================================================================
