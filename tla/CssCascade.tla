----------------------------- MODULE CssCascade -----------------------------
(***************************************************************************)
(* The style sheets of a chapter and their cascade                          *)
(* (crates/pagelet/src/epub.rs): linked sheets with what they import, then  *)
(* the style elements, are merged into one list of rules; a declaration     *)
(* wins for an element by importance, specificity and source order.         *)
(*                                                                         *)
(* A sheet is a sequence of items: an import, a rule, something that is     *)
(* skipped, or something unterminated.  Each sheet that is read is a step,  *)
(* and every step may be the one that fails the chapter.                    *)
(***************************************************************************)
EXTENDS Places, Sequences, SequencesExt, FiniteSetsExt

CONSTANTS
  Sheets,          \* the books to load from: path -> items of that sheet
  Readable,        \* the paths that can be read
  Linked,          \* the sequences of hrefs that link elements may give
  Embedded,        \* the sequences of style elements, each a sheet
  Elements,        \* what selectors may meet: chains of elements, outermost first
  MaxImportDepth,  \* ResourceLimits::max_css_import_depth
  MaxSelectors,    \* ResourceLimits::max_css_selectors
  NoId, NoName,    \* an element, or a part of a selector, without an id or a name
  Elsewhere,       \* a path out of the container, or a URL
  Unsupported      \* a compound or a value this parser does not take

IsList(list) == list \in Seq(Range(list))

\* A value is a number with a unit or a word.
IsValue(value) == value.unit \in {"em", "rem", "%", "px", "number"} => value.n \in Int

IsDeclaration(declaration) ==
  /\ IsList(declaration.values) /\ \A value \in Range(declaration.values) : IsValue(value)
  /\ declaration.important \in BOOLEAN

IsDeclarations(list) == IsList(list) /\ \A declaration \in Range(list) : IsDeclaration(declaration)

IsSelector(parts) ==
  IsList(parts) /\ \A part \in Range(parts) : part # Unsupported => IsFiniteSet(part.classes)

IsSheet(items) ==
  IsList(items) /\ \A i \in DOMAIN items : items[i].kind = "rule" =>
    /\ IsList(items[i].selectors) /\ \A parts \in Range(items[i].selectors) : IsSelector(parts)
    /\ IsDeclarations(items[i].declarations)

\* Lists are sequences, what can be read is in the book, and a chain has an element.
ASSUME CssAssumption ==
  /\ \A b \in Sheets :
       Readable \subseteq DOMAIN b /\ Elsewhere \notin DOMAIN b /\ \A path \in DOMAIN b : IsSheet(b[path])
  /\ \A list \in Embedded : IsList(list) /\ \A sheet \in Range(list) : IsSheet(sheet)
  /\ \A chain \in Elements :
       chain # <<>> /\ IsList(chain) /\ \A element \in Range(chain) : IsDeclarations(element.style)

VARIABLES
  book,      \* the sheets of this book
  hrefs,     \* linked sheets still to load
  embedded,  \* style elements still to parse
  loading,   \* the sheets being loaded, outermost first, with imports still to load
  rules,     \* the cascade: CssStylesheet::rules
  arrival,   \* history: the sheets that were merged, in order, with their imports
  css        \* "loading", then "loaded" or "failed"

cssVars == <<book, hrefs, embedded, loading, rules, arrival, css>>

Inherited ==
  {"visibility", "font-family", "font-size", "font-weight", "font-style", "font-stretch",
   "line-height", "letter-spacing", "text-align", "text-indent", "widows", "orphans", "direction",
   "writing-mode"}

Sides(shorthand) ==
  IF shorthand = "margin" THEN <<"margin-top", "margin-right", "margin-bottom", "margin-left">>
  ELSE <<"padding-top", "padding-right", "padding-bottom", "padding-left">>

Supported ==
  Inherited \cup Range(Sides("margin")) \cup Range(Sides("padding"))
    \cup {"display", "list-style", "list-style-type", "margin", "padding", "width", "height",
          "max-width", "max-height", "break-before", "break-after", "break-inside",
          "page-break-before", "page-break-after", "page-break-inside"}

-----------------------------------------------------------------------------
(* parse_css *)

\* expand_box_shorthand: which of the values each side takes.
SideOf(count) ==
  CASE count = 1 -> <<1, 1, 1, 1>>
    [] count = 2 -> <<1, 2, 1, 2>>
    [] count = 3 -> <<1, 2, 3, 2>>
    [] count = 4 -> <<1, 2, 3, 4>>

Expanded(declaration) ==
  LET values == declaration.values sides == Sides(declaration.property) IN
  IF declaration.property \notin {"margin", "padding"} \/ Len(values) \notin 1 .. 4
  THEN <<declaration>>
  ELSE [i \in 1 .. 4 |-> [property |-> sides[i], values |-> <<values[SideOf(Len(values))[i]]>>,
                           important |-> declaration.important]]

\* parse_css_declarations
Declarations(list) ==
  FlattenSeq([i \in DOMAIN list |->
    IF list[i].values = <<>> \/ list[i].property \notin Supported THEN <<>> ELSE Expanded(list[i])])

\* parse_css_selectors: one that has an unsupported compound is dropped.
Selectors(list) ==
  Picked(list, {i \in DOMAIN list : list[i] # <<>> /\ Unsupported \notin Range(list[i])})

\* The limit is held against the selectors kept before each that is looked at.
TooManySelectors(list) ==
  \E i \in DOMAIN list : Len(Selectors(SubSeq(list, 1, i - 1))) + 1 > MaxSelectors

Parses(items) ==
  \A i \in DOMAIN items :
    items[i].kind # "broken" /\ (items[i].kind = "rule" => ~TooManySelectors(items[i].selectors))

Counts(item) == item.kind = "import" \/ (item.kind = "rule" /\ Selectors(item.selectors) # <<>>)

\* Imports and rules draw their source order from one counter.
Order(items, i) == Cardinality({j \in 1 .. i - 1 : Counts(items[j])})

ImportsOf(items) ==
  LET imports == Picked(items, {i \in DOMAIN items : items[i].kind = "import"}) IN
  [k \in DOMAIN imports |-> imports[k].href]

\* The places of the rules that have a selector.
RulePlaces(items) == {i \in DOMAIN items : items[i].kind = "rule" /\ Counts(items[i])}

RuleAt(items, i) ==
  [selectors |-> Selectors(items[i].selectors), declarations |-> Declarations(items[i].declarations),
   order |-> Order(items, i)]

RulesOf(items) == Picked([i \in DOMAIN items |-> RuleAt(items, i)], RulePlaces(items))

-----------------------------------------------------------------------------
(* load_css_cascade *)

CssInit ==
  /\ book \in Sheets
  /\ hrefs \in Linked
  /\ embedded \in Embedded
  /\ loading = <<>>
  /\ rules = <<>>
  /\ arrival = <<>>
  /\ css = "loading"

\* Mutant of Merged: the orders of a sheet are not moved behind those before it.
MergedUnmoved(cascade, sheet) == cascade \o sheet

\* merge_css_stylesheet
Merged(cascade, sheet) ==
  cascade \o [i \in DOMAIN sheet |-> [sheet[i] EXCEPT !.order = @ + Len(cascade)]]

\* load_css_resource up to the first import: limit, cycle, reading and parsing.
Refused(path, depth) ==
  \/ depth > MaxImportDepth
  \/ \E k \in DOMAIN loading : loading[k].path = path
  \/ path \notin Readable
  \/ ~Parses(book[path])

Enter(path) ==
  IF Refused(path, Len(loading))
  THEN css' = "failed" /\ UNCHANGED loading
  ELSE /\ loading' = Append(loading, [path |-> path, imports |-> ImportsOf(book[path])])
       /\ UNCHANGED css

\* A link to what is not a resource of the book is passed over; one out of the
\* container fails the chapter.
LoadLinked ==
  /\ css = "loading" /\ loading = <<>> /\ hrefs # <<>>
  /\ hrefs' = Tail(hrefs)
  /\ CASE Head(hrefs) = Elsewhere -> css' = "failed" /\ UNCHANGED loading
       [] Head(hrefs) \in DOMAIN book -> Enter(Head(hrefs))
       [] OTHER -> UNCHANGED <<loading, css>>
  /\ UNCHANGED <<book, embedded, rules, arrival>>

Innermost == loading[Len(loading)]

\* Mutant of LoadImport: an import that is refused is tried again.
LoadImportAgain ==
  /\ css = "loading" /\ loading # <<>> /\ Innermost.imports # <<>>
  /\ LET path == Head(Innermost.imports)
         rest == [loading EXCEPT ![Len(loading)].imports = Tail(@)]
     IN  IF path = Elsewhere \/ Refused(path, Len(loading))
         THEN UNCHANGED loading
         ELSE loading' = Append(rest, [path |-> path, imports |-> ImportsOf(book[path])])
  /\ UNCHANGED <<book, hrefs, embedded, rules, arrival, css>>

LoadImport ==
  /\ css = "loading" /\ loading # <<>> /\ Innermost.imports # <<>>
  /\ LET path == Head(Innermost.imports)
         rest == [loading EXCEPT ![Len(loading)].imports = Tail(@)]
     IN  IF path = Elsewhere \/ Refused(path, Len(loading))
         THEN css' = "failed" /\ UNCHANGED loading
         ELSE /\ loading' = Append(rest, [path |-> path, imports |-> ImportsOf(book[path])])
              /\ UNCHANGED css
  /\ UNCHANGED <<book, hrefs, embedded, rules, arrival>>

\* A sheet follows the sheets it imports.
MergeSheet ==
  /\ css = "loading" /\ loading # <<>> /\ Innermost.imports = <<>>
  /\ rules' = Merged(rules, RulesOf(book[Innermost.path]))
  /\ arrival' = Append(arrival, book[Innermost.path])
  /\ loading' = Front(loading)
  /\ UNCHANGED <<book, hrefs, embedded, css>>

\* Imports of a style element are not loaded.
MergeEmbedded ==
  /\ css = "loading" /\ loading = <<>> /\ hrefs = <<>> /\ embedded # <<>>
  /\ embedded' = Tail(embedded)
  /\ IF Parses(Head(embedded))
     THEN /\ rules' = Merged(rules, RulesOf(Head(embedded)))
          /\ arrival' = Append(arrival, Head(embedded))
          /\ UNCHANGED css
     ELSE css' = "failed" /\ UNCHANGED <<rules, arrival>>
  /\ UNCHANGED <<book, hrefs, loading>>

LoadingDone ==
  /\ css = "loading" /\ loading = <<>> /\ hrefs = <<>> /\ embedded = <<>>
  /\ css' = "loaded"
  /\ UNCHANGED <<book, hrefs, embedded, loading, rules, arrival>>

CssNext == LoadLinked \/ LoadImport \/ MergeSheet \/ MergeEmbedded \/ LoadingDone

CssSpec == CssInit /\ [][CssNext]_cssVars /\ WF_cssVars(CssNext)

-----------------------------------------------------------------------------
(* cascade_css_for_element *)

\* simple_selector_matches
Fits(part, element) ==
  /\ part.name \in {NoName, element.name}
  /\ part.id \in {NoId, element.id}
  /\ part.classes \subseteq element.classes

\* The nearest ancestor before place that fits; 0 for none.
NearestFit(part, chain, place) ==
  Max({0} \cup {i \in 1 .. place - 1 : Fits(part, chain[i])})

\* selector_matches: the last part is the element's own; each part before it
\* takes the nearest ancestor that fits and is further out.
SelectorMatches(parts, chain) ==
  LET place[k \in 0 .. Len(parts) - 1] ==
        IF k = 0 THEN Len(chain)
        ELSE IF place[k - 1] = 0 THEN 0 ELSE NearestFit(parts[Len(parts) - k], chain, place[k - 1])
  IN  Fits(Last(parts), Last(chain)) /\ place[Len(parts) - 1] > 0

\* css_specificity, most significant first.
Specificity(parts) ==
  <<Cardinality({i \in DOMAIN parts : parts[i].id # NoId}),
    Cardinality(UNION {{i} \X parts[i].classes : i \in DOMAIN parts}),
    Cardinality({i \in DOMAIN parts : parts[i].name # NoName})>>

AtLeast(a, b) ==
  \/ a[1] > b[1]
  \/ a[1] = b[1] /\ a[2] > b[2]
  \/ a[1] = b[1] /\ a[2] = b[2] /\ a[3] >= b[3]

\* css_candidate_wins: of two that are equal the later one met.
Wins(candidate, existing) ==
  IF candidate.important # existing.important THEN candidate.important
  ELSE IF candidate.specificity = existing.specificity THEN candidate.order >= existing.order
  ELSE AtLeast(candidate.specificity, existing.specificity)

NoStyle == [p \in {} |-> Unsupported]

WithValue(style, property, value) ==
  [p \in DOMAIN style \cup {property} |-> IF p = property THEN value ELSE style[p]]

\* The declarations that reach an element, in the order in which they are met.
Candidate(declaration, parts, order) ==
  [property |-> declaration.property, value |-> declaration.values, important |-> declaration.important,
   specificity |-> Specificity(parts), order |-> order]

CandidatesOf(rule, parts, chain) ==
  IF ~SelectorMatches(parts, chain) THEN <<>>
  ELSE [d \in DOMAIN rule.declarations |-> Candidate(rule.declarations[d], parts, rule.order)]

Candidates(chain, sheet) ==
  FlattenSeq([r \in DOMAIN sheet |-> FlattenSeq([s \in DOMAIN sheet[r].selectors |->
    CandidatesOf(sheet[r], sheet[r].selectors[s], chain)])])

\* The inherited properties start as winners that any declaration beats.
Handed(inherited) ==
  [p \in DOMAIN inherited \cap Inherited |->
    [important |-> FALSE, specificity |-> <<0, 0, 0>>, order |-> 0, value |-> inherited[p]]]

Taken(winners, c) ==
  IF c.property \in DOMAIN winners /\ ~Wins(c, winners[c.property]) THEN winners
  ELSE WithValue(winners, c.property, c)

Winners(start, candidates) ==
  LET winners[k \in 0 .. Len(candidates)] ==
        IF k = 0 THEN start ELSE Taken(winners[k - 1], candidates[k])
  IN  winners[Len(candidates)]

\* The style attribute beats all, whatever is important, and its last
\* declaration those before.
Overridden(winners, own) ==
  LET Set(p) == {i \in DOMAIN own : own[i].property = p} IN
  [p \in DOMAIN winners \cup {own[i].property : i \in DOMAIN own} |->
    IF Set(p) = {} THEN winners[p].value ELSE own[Max(Set(p))].values]

Cascade(chain, sheet, inherited) ==
  Overridden(Winners(Handed(inherited), Candidates(chain, sheet)), Declarations(Last(chain).style))

-----------------------------------------------------------------------------
(* Properties *)

(* Every chapter's sheets are loaded or refused: an import that comes back   *)
(* to a sheet being loaded, at any depth, is found.                          *)
LoadingEnds == <>(css # "loading")

\* An increasing choice of places that the parts of a selector fit.
Embeds(parts, chain) ==
  \E f \in [DOMAIN parts -> DOMAIN chain] :
    /\ f[Len(parts)] = Len(chain)
    /\ \A i \in 1 .. Len(parts) - 1 : f[i] < f[i + 1]
    /\ \A i \in DOMAIN parts : Fits(parts[i], chain[f[i]])

\* Taking the nearest ancestor for each part loses no match: a selector
\* matches exactly when its parts fit the element and ancestors of it in
\* their order.
NearestSuffices ==
  css = "loaded" =>
    \A chain \in Elements : \A r \in DOMAIN rules : \A s \in DOMAIN rules[r].selectors :
      SelectorMatches(rules[r].selectors[s], chain) <=> Embeds(rules[r].selectors[s], chain)

\* What a style attribute sets of a property.
InlineOf(own, property) == {i \in DOMAIN own : own[i].property = property}

\* By importance first, then by specificity, wherever the two stand.
Stronger(a, b) ==
  IF a.important # b.important THEN a.important
  ELSE a.specificity # b.specificity /\ AtLeast(a.specificity, b.specificity)

\* What the declarations of property that none is stronger than say.
Strongest(candidates, property) ==
  LET mine == {i \in DOMAIN candidates : candidates[i].property = property} IN
  {candidates[i].value : i \in {k \in mine : \A j \in mine : ~Stronger(candidates[j], candidates[k])}}

\* Whatever the sheets import, nothing wins over a stronger declaration of
\* theirs, except the style attribute, which wins over everything: also over
\* what the sheets call important, where CSS says the opposite.
StrongestWins ==
  css = "loaded" =>
    \A chain \in Elements :
      LET style == Cascade(chain, rules, NoStyle) own == Declarations(Last(chain).style) IN
      \A p \in DOMAIN style :
        IF InlineOf(own, p) # {}
        THEN \E i \in InlineOf(own, p) : style[p] = own[i].values /\ \A j \in InlineOf(own, p) : j <= i
        ELSE style[p] \in Strongest(Candidates(chain, rules), p)

\* A sheet whose imports push its rules behind those of a sheet merged later.
Leaps(sheet) == Len(ImportsOf(sheet)) > 1

\* The declaration of property that counts by the order in which rules stand.
Best(candidates, property) ==
  LET mine == {i \in DOMAIN candidates : candidates[i].property = property}
      Beats(i, j) ==
        LET a == candidates[i] b == candidates[j] IN
        IF a.important # b.important THEN a.important
        ELSE IF a.specificity # b.specificity THEN AtLeast(a.specificity, b.specificity) ELSE i >= j
  IN  {candidates[i].value : i \in {k \in mine : \A j \in mine : Beats(k, j)}}

\* Among declarations equally strong the order of the sheets decides: the one
\* that stands last wins, counting an imported sheet before the one that
\* imports it.  This the code does only when no sheet has several imports:
\* they draw from the counter of its rules without moving the base of the
\* next sheet, so the next sheet's rules may count as the earlier ones.
LaterSheetWins ==
  css = "loaded" /\ (\A i \in DOMAIN arrival : ~Leaps(arrival[i])) =>
    \A chain \in Elements :
      LET style == Cascade(chain, rules, NoStyle) own == Declarations(Last(chain).style) IN
      \A p \in DOMAIN style :
        InlineOf(own, p) = {} => style[p] \in Best(Candidates(chain, rules), p)

(* What a cascade keeps of CSS.  A selector matches an element exactly when  *)
(* its parts fit the element and ancestors of it in their order, although    *)
(* matching never goes back on the nearest ancestor.  Of the declarations    *)
(* of the sheets that reach an element none wins over a more important or,   *)
(* as important, a more specific one, however the sheets import one          *)
(* another; among equals the last in the order of the sheets wins, an        *)
(* imported sheet standing before the one that imports it.  Two departures   *)
(* from CSS are the code's: the last part holds only while no sheet has      *)
(* several imports, and the style attribute wins even over what a sheet      *)
(* calls important.                                                          *)
CascadeSound == NearestSuffices /\ StrongestWins /\ LaterSheetWins
=============================================================================
