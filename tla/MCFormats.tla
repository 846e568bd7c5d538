----------------------------- MODULE MCFormats -----------------------------
(***************************************************************************)
(* Small publications for TLC: archives with one thing changed, books of    *)
(* four style sheets, and documents of a few pieces.                        *)
(***************************************************************************)
EXTENDS Formats, MCSceneWire

(* Archives *)

PathNames == {"mimetype", "META-INF/container.xml", "META-INF/Container.xml", "book.opf", "Book.opf",
              "nav.xhtml", "Nav.xhtml", "NAV.xhtml", "toc.ncx", "one.xhtml", "two.xhtml", "pic.png", "../up", "one%20.xhtml"}
MCLower == [p \in PathNames |->
  CASE p = "META-INF/Container.xml" -> "META-INF/container.xml"
    [] p = "META-INF/container.xml" -> "META-INF/container.xml"
    [] p = "Book.opf" -> "book.opf" [] p \in {"Nav.xhtml", "NAV.xhtml"} -> "nav.xhtml" [] OTHER -> p]

Entry(path, content) ==
  [path |-> path, content |-> content, directory |-> FALSE, sound |-> TRUE, declared |-> 2, compressed |-> 2,
   actual |-> 2, method |-> 8, within |-> TRUE, deflates |-> TRUE, sampled |-> FALSE]
Binary == [kind |-> "binary"]
ChapterText == [kind |-> "chapter", navs |-> <<>>, links |-> <<>>]
LinkTo(path) == [label |-> path, path |-> path]
Item(id, path, properties) == [id |-> id, path |-> path, properties |-> properties,
                               nav |-> path = "nav.xhtml", ncx |-> path = "toc.ncx"]
NavText == [kind |-> "nav", links |-> <<LinkTo("one.xhtml"), LinkTo("two.xhtml")>>,
            navs |-> <<[type |-> "toc", links |-> <<LinkTo("one.xhtml")>>], [type |-> "page-list", links |-> <<LinkTo("two.xhtml")>>],
                       [type |-> "landmarks", links |-> <<>>]>>]
NcxText == [kind |-> "ncx", navs |-> <<>>, links |-> <<LinkTo("one.xhtml"), LinkTo(Absent)>>]
Opf == [kind |-> "package",
        manifest |-> <<Item("nav", "nav.xhtml", {"nav"}), Item("ncx", "toc.ncx", {}), Item("one", "one.xhtml", {}),
                       Item("two", "two.xhtml", {}), Item("pic", "pic.png", {"cover-image"})>>,
        spine |-> <<"one", "two">>, guide |-> <<>>, toc |-> "ncx", cover |-> Absent]
ContainerText == [kind |-> "container", rootfiles |-> <<[path |-> "book.opf", package |-> TRUE]>>]

BaseArchive == <<[Entry("mimetype", [kind |-> "mimetype"]) EXCEPT !.method = 0],
          Entry("META-INF/container.xml", ContainerText), Entry("book.opf", Opf), Entry("nav.xhtml", NavText),
          Entry("toc.ncx", NcxText), [Entry("one.xhtml", ChapterText) EXCEPT !.directory = FALSE],
          [Entry("pic.png", Binary) EXCEPT !.sampled = TRUE, !.declared = 4, !.actual = 4]>>

\* One entry of an archive changed, dropped or doubled.
Opfs == {Opf, [Opf EXCEPT !.manifest = Tail(@)], [Opf EXCEPT !.manifest = SubSeq(@, 3, 5)],
  [Opf EXCEPT !.manifest = SubSeq(@, 3, 5), !.guide = <<LinkTo("one.xhtml"), LinkTo(Absent)>>],
  [Opf EXCEPT !.manifest = <<Item("two", "one.xhtml", {})>> \o SubSeq(@, 3, 5), !.spine = <<"two", "gone", "one">>, !.cover = "pic"],
  [Opf EXCEPT !.manifest[1].path = Outside], [Opf EXCEPT !.manifest[2].id = Absent], [Opf EXCEPT !.spine = <<Absent>>],
  [Opf EXCEPT !.guide = <<LinkTo(Outside)>>], [Opf EXCEPT !.toc = Absent, !.manifest[1].path = "Nav.xhtml"],
  [Opf EXCEPT !.manifest = <<Item("x", "toc.ncx", {})>> \o Tail(@), !.toc = "gone"]}
Containers == {ContainerText, [ContainerText EXCEPT !.rootfiles = <<>>], [ContainerText EXCEPT !.rootfiles[1].path = Absent],
  [ContainerText EXCEPT !.rootfiles = <<[path |-> "pic.png", package |-> FALSE], [path |-> "Book.opf", package |-> TRUE]>>],
  [ContainerText EXCEPT !.rootfiles[1].package = FALSE]}
Without(a, path) == SelectSeq(a, LAMBDA e : e.path # path)
OpfChanged == {[BaseArchive EXCEPT ![3].content = o] : o \in Opfs}
ContainerChanged == {[a EXCEPT ![2].content = c] : c \in Containers, a \in {BaseArchive}}
Navs == {NavText, [NavText EXCEPT !.navs = <<>>], [NavText EXCEPT !.navs[2].type = "lot"], Binary}
EntryFaults(e) == {[e EXCEPT !.directory = TRUE], [e EXCEPT !.sound = FALSE], [e EXCEPT !.declared = 9], [e EXCEPT !.declared = 8, !.compressed = 1],
  [e EXCEPT !.compressed = 0], [e EXCEPT !.actual = 5], [e EXCEPT !.method = 0, !.compressed = 7], [e EXCEPT !.method = 3],
  [e EXCEPT !.within = FALSE], [e EXCEPT !.deflates = FALSE], [e EXCEPT !.content = Binary], [e EXCEPT !.path = "../up"],
  [e EXCEPT !.path = "one%20.xhtml"]}
Faulty == {[a EXCEPT ![i] = f] : a \in {BaseArchive}, i \in {1}, f \in EntryFaults(BaseArchive[1])} \cup
  UNION {{[BaseArchive EXCEPT ![i] = f] : f \in EntryFaults(BaseArchive[i])} : i \in DOMAIN BaseArchive}
Cased(a, i, path) == [a EXCEPT ![i].path = path]
Archives1 == {BaseArchive} \cup OpfChanged \cup ContainerChanged \cup Faulty
  \cup {[a EXCEPT ![4].content = n] : a \in OpfChanged, n \in Navs}
  \cup {Without(a, p) : a \in OpfChanged \cup ContainerChanged, p \in {"nav.xhtml", "toc.ncx", "META-INF/container.xml", "mimetype"}}
  \cup {Without(Without(a, "nav.xhtml"), "toc.ncx") : a \in OpfChanged}
  \cup {Cased(BaseArchive, 2, "META-INF/Container.xml"), Cased(BaseArchive, 3, "Book.opf"), Cased(BaseArchive, 4, "Nav.xhtml")}
  \cup {Append(a, Entry(p, c)) : a \in {BaseArchive, Cased(BaseArchive, 4, "Nav.xhtml"), Without(BaseArchive, "nav.xhtml")}, p \in {"Book.opf", "nav.xhtml", "Nav.xhtml", "two.xhtml"}, c \in {Binary, NavText}}
  \cup {[Cased(BaseArchive, 4, "Nav.xhtml") EXCEPT ![4].content = Binary]}
  \cup {BaseArchive \o [i \in 1 .. 4 |-> Entry(<<"two.xhtml", "one%20.xhtml", "Book.opf", "Nav.xhtml">>[i], ChapterText)]}
MCArchives == {[entries |-> a, count |-> Len(a)] : a \in Archives1} \cup {[entries |-> BaseArchive, count |-> 3]}

-----------------------------------------------------------------------------
(* Style sheets *)

MCKeyword(name) == [unit |-> "keyword", name |-> name]
Em(n) == [unit |-> "em", n |-> n]
Num(n) == [unit |-> "number", n |-> n]
Decl(p, v) == [property |-> p, values |-> <<v>>, important |-> FALSE]
Must(p, v) == [Decl(p, v) EXCEPT !.important = TRUE]
Part(name, id, class) == [name |-> name, id |-> id, classes |-> IF class = "" THEN {} ELSE {class}]
P(name) == Part(name, NoId, "")
C(class) == Part(NoName, NoId, class)
Rule(parts, decls) == [kind |-> "rule", selectors |-> <<parts>>, declarations |-> decls]
Also(rule, parts) == [rule EXCEPT !.selectors = Append(@, parts)]
ImportOf(href) == [kind |-> "import", href |-> href]
Skipped == [kind |-> "skipped"]
Broken == [kind |-> "broken"]

Main(imports) ==
  imports \o <<Also(Rule(<<P("div"), C("k"), P("em")>>, <<Must("text-indent", Px(3))>>), <<Unsupported>>),
               Rule(<<C("k"), P("div"), P("p")>>, <<Decl("text-indent", Px(9)), Decl("float", Px(1))>>),
               Rule(<<P("p")>>, <<Decl("text-indent", Em(200)), Decl("font-size", Em(150))>>)>>
Second == <<Skipped, Rule(<<Part("div", "top", "")>>, <<[property |-> "margin", values |-> <<Em(100), Px(2), Px(3)>>, important |-> FALSE],
                                              Decl("padding-left", Em(-100)), Decl("font-size", Em(125)), Decl("letter-spacing", Em(100))>>),
            Rule(<<P("p")>>, <<Decl("text-indent", Px(5)), Decl("line-height", Num(200))>>)>>
Third == <<Rule(<<C("k"), P("p")>>, <<Decl("text-indent", Px(7)), Decl("font-size", MCKeyword("larger"))>>)>>
BaseSheet == <<Rule(<<P("p")>>, <<Decl("text-indent", Px(1))>>), Rule(<<P("h1")>>, <<Decl("line-height", Em(150))>>)>>
Many == <<Also(Also(Rule(<<P("p")>>, <<>>), <<P("em")>>), <<P("a")>>)>>

MCSheets ==
  {[a |-> Main(ia), b |-> Second, c |-> ic \o Third, d |-> id] :
     ia \in {<<>>, <<ImportOf("b")>>, <<ImportOf("b"), ImportOf("c")>>, <<ImportOf("gone")>>, <<ImportOf(Elsewhere)>>},
     ic \in {<<>>, <<ImportOf("a")>>, <<ImportOf("d")>>},
     id \in {BaseSheet, <<ImportOf("c")>>, <<ImportOf("b")>>, <<Broken>>, Many}}
MCLinked == {<<>>, <<"a">>, <<"b", "a">>, <<"a", "d">>, <<"a", "c", "gone">>, <<"c", "d">>, <<Elsewhere>>, <<"d", "a", "c">>}
MCEmbedded == {<<>>, <<BaseSheet>>, <<Third, BaseSheet>>, <<<<Broken>>>>}

El(name, id, classes) == [name |-> name, id |-> id, classes |-> classes, style |-> <<>>, lang |-> NoName, dir |-> NoName]
Html == El("html", NoId, {})
MCElements ==
  {<<Html, El("div", "top", {}), El("p", NoId, {"k"}), El("em", NoId, {})>>,
   <<Html, El("div", NoId, {"k"}), El("div", "top", {}), El("p", NoId, {})>>,
   <<Html, El("h1", NoId, {"k"}), El("p", NoId, {}), [El("em", NoId, {"k"}) EXCEPT !.style = <<Decl("text-indent", Em(300))>>]>>,
   <<[Html EXCEPT !.lang = "en"], El("div", NoId, {}), [El("em", NoId, {"k"}) EXCEPT !.dir = "rtl"],
     [El("em", NoId, {}) EXCEPT !.style = <<Decl("text-indent", Px(4)), Decl("text-indent", Px(6))>>]>>,
   <<Html, El("p", NoId, {"k"}), El("div", NoId, {"k"}), El("p", NoId, {})>>,
   <<Html, El("div", NoId, {}), El("em", NoId, {"k"}), El("p", NoId, {})>>, <<Html, El("p", NoId, {})>>}

-----------------------------------------------------------------------------
(* Documents *)

MCAttrs == [id |-> NoPath, href |-> NoHref, noteref |-> FALSE, footnote |-> FALSE,
            style |-> "inherit", chars |-> <<>>]
Tag(kind, name) == [kind |-> kind, name |-> name, attrs |-> MCAttrs]
S(name) == Tag("start", name)
E(name) == Tag("end", name)
V(name) == Tag("empty", name)
T(chars) == [Tag("text", "#text") EXCEPT !.attrs.chars = chars]
Id(piece, id) == [piece EXCEPT !.attrs.id = id]
To(piece, doc, fragment) == [piece EXCEPT !.attrs.href = [doc |-> doc, fragment |-> fragment]]
Note(piece) == [piece EXCEPT !.attrs.noteref = TRUE]
Aside(id) == [Id(S("aside"), id) EXCEPT !.attrs.footnote = TRUE]
In(name, inside) == <<S(name)>> \o inside \o <<E(name)>>
Image(src) == <<To(V("img"), src, NoPath)>>
Ref(doc, fragment, inside) == <<Note(To(S("a"), doc, fragment))>> \o inside \o <<E("a")>>
x == <<T(<<"x", " ">>)>>
y == <<T(<<" ", "y">>)>>
z == <<T(<<"z">>)>>
w == <<T(<<" ", "w", " ", " ">>)>>
Page(inside) == In("html", In("head", In("title", z)) \o In("body", inside))

Scenarios == {
  Page(In("p", x \o Ref(NoPath, "n", y) \o w) \o <<Aside("n")>> \o z \o <<E("aside")>>),
  Page(<<Aside("n")>> \o In("aside", z) \o <<E("aside")>> \o In("p", x \o Ref(NoPath, "n", y))),
  Page(In("p", Ref("other.xhtml", "n", x) \o Ref("other.xhtml", "m", y) \o Ref("third.xhtml", "n", w)
               \o Ref("other.xhtml", "n", z))),
  Page(In("p", Ref("gone.xhtml", "n", x)) \o In("p", y)),
  Page(In("h1", x \o Image("image.png")) \o In("p", y)),
  Page(In("div", <<Id(To(S("a"), "other.xhtml", NoPath), "i")>> \o Image("image.png") \o In("span", x) \o <<E("a")>>)),
  Page(In("p", <<V("br")>>) \o Image("image.png") \o In("h2", <<T(<<"_", " ">>)>>)),
  Page(Image("image.png") \o In("p", <<T(<<"_", "x", "_">>), V("br")>>) \o <<T(<<" ", "_", "z", "_">>)>>),
  Page(In("li", Image("image.png") \o <<V("br"), T(<<"_">>), V("br")>>) \o <<T(<<"_">>)>>),
  Page(Image("image.png")), Page(In("svg", Image(NoPath))), Page(In("p", Image(Remote)) \o <<V("hr")>>),
  Page(In("p", Ref("other.xhtml", "n", Image("image.png")))),
  Page(In("ul", x \o In("li", <<Id(S("em"), "e")>> \o y \o <<E("em")>> \o In("p", w) \o z)) \o <<V("br")>>),
  Page(In("blockquote", x \o In("b", w) \o y \o In("label", z)) \o In("table", In("td", <<>>))),
  Page(<<Id(S("p"), "p")>> \o x \o <<S("b"), To(S("a"), "image.png", NoPath)>> \o y \o <<E("p"), E("i")>> \o z),
  Page(<<To(V("link"), "style.css", NoPath)>> \o In("p", x)),
  In("p", x) \o <<E("div"), V("br")>> \o In("script", y) \o <<Tag("comment", "")>> \o w,
  In("p", x \o y) \o <<Tag("broken", "")>>,
  Page(In("div", In("div", In("div", In("div", In("div", x)))))), Page([i \in 1 .. 20 |-> V("br")]),
  In("p", x) \o <<E("#document"), S("p")>> \o y \o <<S("em")>> \o z, <<S("p"), E("#document"), V("br"), E("p")>>
}

Alphabet == {S("p"), S("em"), E("p"), E("em"), T(<<"x", " ">>), V("br")}
MCDocuments == Scenarios \cup UNION {[1 .. n -> Alphabet] : n \in 0 .. 4}
MCOther == [d \in {"other.xhtml", "third.xhtml"} |->
             IF d = "other.xhtml" THEN [f \in {"n", "m"} |-> IF f = "n" THEN <<"o">> ELSE <<" ", "m">>]
             ELSE [f \in {"n"} |-> <<"t">>]]
MCResources == {"image.png", "cover.png", "other.xhtml", "third.xhtml", "gone.xhtml"}
MCXhtml == {"other.xhtml", "third.xhtml", "gone.xhtml", "c.xhtml"}

-----------------------------------------------------------------------------
(* Text to be measured *)

TextRequest(id, text) ==
  [id |-> id, paragraph |-> id, fingerprint |-> <<>>, text |-> text, range |-> Span(0, ByteLength(text)), runs |-> <<>>,
   font |-> 4, text_scale |-> 1, spacing |-> 0, available_width |-> 4, max_width |-> 4, locale |-> TRUE,
   strutted |-> FALSE, strut |-> [ascent |-> 0, descent |-> 0, leading |-> 0], direction |-> "Ltr"]
MeasuredTexts ==
  {<<>>, <<"a">>, <<"lf">>, <<"a", "e">>, <<"cr", "lf">>, <<"lf", "cr">>, <<"a", "e", "lf">>, <<"a", "cr", "lf", "e">>,
   <<"e", "a", "e">>, <<"lf", "lf", "a">>}
Plain == TextRequest(1, <<"a", "e", "a">>)
Odd == {[Plain EXCEPT !.range = Span(1, 3)], [Plain EXCEPT !.range = Span(0, 2)], [Plain EXCEPT !.range = Span(1, 0)],
  [Plain EXCEPT !.runs = <<Span(0, 1), Span(1, 3)>>], [Plain EXCEPT !.runs = <<Span(1, 3), Span(0, 1)>>],
  [Plain EXCEPT !.runs = <<Span(0, 3), Span(1, 4)>>], [Plain EXCEPT !.runs = <<Span(0, 2)>>], [Plain EXCEPT !.font = 0],
  [Plain EXCEPT !.text_scale = 0], [Plain EXCEPT !.available_width = -1, !.max_width = -1], [Plain EXCEPT !.locale = FALSE],
  [Plain EXCEPT !.strutted = TRUE, !.strut.leading = -1], [Plain EXCEPT !.strutted = TRUE, !.strut.ascent = 9, !.spacing = -9],
  [Plain EXCEPT !.direction = "Auto"], [Plain EXCEPT !.direction = "Rtl", !.spacing = 1]}
\* A request's fingerprint stands for all of the request.
Fingerprinted(batch) == [i \in DOMAIN batch |-> [batch[i] EXCEPT !.fingerprint = batch[i]]]
TextBatches ==
  {<<TextRequest(1, text)>> : text \in MeasuredTexts} \cup {<<odd>> : odd \in Odd} \cup
  {<<>>, <<Plain, Plain>>, <<TextRequest(1, <<"a">>), TextRequest(2, <<"e", "lf">>)>>,
   <<TextRequest(1, <<"a">>), [TextRequest(2, <<"e">>) EXCEPT !.paragraph = 1]>>,
   <<TextRequest(3, <<"a">>), [TextRequest(2, <<"e">>) EXCEPT !.font = 0]>>}
MCBatches == {Fingerprinted(batch) : batch \in TextBatches}
=============================================================================
