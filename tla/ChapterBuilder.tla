--------------------------- MODULE ChapterBuilder ---------------------------
(***************************************************************************)
(* From the XHTML tree of a chapter to its ChapterIR: ChapterBuilder of     *)
(* crates/pagelet/src/epub.rs with the arenas of document.rs it fills.      *)
(*                                                                         *)
(* The conversion of the tree is one step; the notes that the chapter       *)
(* refers to are then found one link at a time, in other documents where    *)
(* they must, and any of those reads can fail the chapter.                  *)
(*                                                                         *)
(* Attributes: id; href, the document and fragment that href or src name;   *)
(* noteref and footnote, whether the type, role or class says so; style,    *)
(* "inherit" or the style the cascade gives; chars, the text of a text.     *)
(***************************************************************************)
EXTENDS XhtmlTree, ChapterNotes

CONSTANTS
  Resources,   \* the paths of the book's resources
  XhtmlPaths,  \* those that end in .xhtml or .html
  Remote, Escaping,  \* an http or data URL; a path out of the container
  Cover        \* BookMetadata::cover_image, or NoPath

NoHref == [doc |-> NoPath, fragment |-> NoPath]

FlowNames == {"html", "body", "section", "article", "main", "div", "nav"}

PhrasingNames ==
  {"a", "abbr", "b", "bdi", "bdo", "br", "cite", "code", "data", "dfn", "em", "i", "kbd", "mark",
   "q", "ruby", "s", "samp", "small", "span", "strong", "sub", "sup", "time", "u", "var", "wbr"}

ConvertedPhrasing == {"a", "span", "em", "strong", "b", "i"}

Headings == {"h1", "h2", "h3", "h4", "h5", "h6"}

FlowKind == [li |-> "ListItem", blockquote |-> "BlockQuote", figure |-> "Figure", svg |-> "Figure"]

ListKind == [ul |-> "List", ol |-> "List", table |-> "Table"]

NonContent == {"head", "script", "style", "title", "meta", "link", "template"}

IsText(n) == nodes[n].kind = "text"

Name(n) == nodes[n].name

Kids(n) == nodes[n].children

Attrs(n) == nodes[n].attrs

RECURSIVE HasImage(_)
HasImage(n) ==
  ~IsText(n) /\ (Name(n) \in {"img", "image"} \/ \E k \in DOMAIN Kids(n) : HasImage(Kids(n)[k]))

InlineFlow(n) == IsText(n) \/ (Name(n) \in PhrasingNames /\ ~HasImage(n))

\* find_first_element of the body, in document order.
ContentRoot ==
  LET bodies == {n \in DOMAIN nodes : ~IsText(n) /\ Name(n) = "body"} IN
  IF bodies = {} THEN 1 ELSE Min(bodies)

ParentOf(n) == CHOOSE m \in DOMAIN nodes : \E k \in DOMAIN Kids(m) : Kids(m)[k] = n

\* The computed style, as far as one differs from another.
RECURSIVE StyleOf(_)
StyleOf(n) ==
  IF n = 1 THEN "initial"
  ELSE IF IsText(n) \/ Attrs(n).style = "inherit" THEN StyleOf(ParentOf(n))
  ELSE Attrs(n).style

-----------------------------------------------------------------------------
(* Inline content *)

RECURSIVE CollectInline(_, _, _)
CollectInline(n, style, content) ==
  LET origin == <<StyleOf(n), n>>
      Child(sofar, child) == CollectInline(child, StyleOf(n), sofar)
      noted == IF Attrs(n).id = NoPath THEN content ELSE AddAnchor(content, Attrs(n).id)
  IN
  IF IsText(n)
  THEN FoldLeft(LAMBDA sofar, c : IF c = Space THEN CollapseSpace(sofar, <<style, n>>)
                                 ELSE AppendLetter(sofar, c, <<style, n>>), content, Attrs(n).chars)
  ELSE IF Name(n) \in NonContent THEN content
  ELSE IF Name(n) = "br" THEN AppendBreak(noted, origin)
  ELSE IF Name(n) # "a" THEN FoldLeft(Child, noted, Kids(n))
  ELSE LET begun == StartLink(noted)
           inside == FoldLeft(Child, begun, Kids(n))
       IN  IF Attrs(n).href = NoHref THEN inside
           ELSE EndLink(inside, Len(begun.text), [href |-> Attrs(n).href, note |-> Attrs(n).noteref])

InlineContent(group, style) ==
  Finished(FoldLeft(LAMBDA sofar, n : CollectInline(n, style, sofar), Empty, group))

-----------------------------------------------------------------------------
(* Links and anchors *)

\* resolve_link
ResolveLink(node, draft, range) ==
  LET href == draft.href
      target == IF href.doc = NoPath THEN Document ELSE href.doc
  IN  [node |-> node, range |-> range,
       doc |-> IF href.doc \in {Remote, Escaping} THEN NoPath ELSE target,
       fragment |-> IF href.doc = Remote THEN NoPath ELSE href.fragment,
       kind |-> IF href.doc = Remote THEN "External"
                ELSE IF draft.note THEN "Footnote"
                ELSE IF href.doc = Escaping THEN "Unknown"
                ELSE IF target \in Resources \ XhtmlPaths THEN "Resource" ELSE "Internal"]

Anchored(anchors, fragment, node, offset) ==
  [f \in DOMAIN anchors \cup {fragment} |->
     IF f = fragment THEN [node |-> node, offset |-> offset] ELSE anchors[f]]

\* add_inline_metadata
AddMarks(ir, node, content) ==
  [ir EXCEPT
     !.links = @ \o [i \in DOMAIN content.links |->
                       ResolveLink(node, content.links[i].href,
                                   <<content.links[i].start, content.links[i].end>>)],
     !.anchors = FoldLeft(LAMBDA known, a : Anchored(known, a.fragment, node, a.offset),
                          @, content.anchors)]

\* collect_referenced_footnote_keys
ReferencedNotes ==
  {<<IF Attrs(n).href.doc = NoPath THEN Document ELSE Attrs(n).href.doc, Attrs(n).href.fragment>> :
     n \in {m \in DOMAIN nodes : ~IsText(m) /\ Name(m) = "a" /\ Attrs(m).noteref
                                 /\ Attrs(m).href.fragment # NoPath
                                 /\ Attrs(m).href.doc \notin {Remote, Escaping}}}

-----------------------------------------------------------------------------
(* Nodes *)

RangeOf(n) == <<nodes[n].start, nodes[n].end>>

Nothing(ir) == [ir |-> ir, out |-> <<>>, group |-> <<>>]

\* A conversion under way: the chapter so far, the nodes made, and inline nodes that wait
\* for a paragraph.
Push(ir, node, range) ==
  [ir |-> [ir EXCEPT !.nodes = Append(@, [node EXCEPT !.range = range])],
   out |-> <<Len(ir.nodes) + 1>>, group |-> <<>>]

\* push_inline_text_node and heading_node
PushText(ir, kind, content, range) ==
  [Push(ir, [IrNode EXCEPT !.kind = kind, !.text = content.text, !.runs = content.runs], range)
     EXCEPT !.ir = AddMarks(@, Len(ir.nodes) + 1, content)]

\* What was made comes behind what there is.
Joined(st, made) == [ir |-> made.ir, out |-> st.out \o made.out, group |-> <<>>]

\* text_block_node: the text as it is, in one run.
PushRawText(ir, text, style, n) ==
  Push(ir, [IrNode EXCEPT !.kind = "Paragraph", !.text = text,
                          !.runs = IF text = <<>> THEN <<>> ELSE <<Run(0, Len(text), <<style, n>>)>>],
       RangeOf(n))

Paragraphed(st, content) ==
  IF content.text = <<>> THEN [st EXCEPT !.group = <<>>]
  ELSE Joined(st, PushText(st.ir, "Paragraph", content,
                           <<Min({nodes[n].start : n \in Range(st.group)}),
                             Max({nodes[n].end : n \in Range(st.group)})>>))

\* flush_inline_group: no text, no paragraph.
FlushGroup(st, style) == Paragraphed(st, InlineContent(st.group, style))

\* image_node: the role asks whether source and cover resolve to the same path.
ImageNode(n) ==
  LET src == Attrs(n).href.doc
      path == IF src \in {Remote, Escaping} THEN NoPath ELSE src
  IN  [IrNode EXCEPT !.kind = "Image", !.path = path,
                     !.role = IF path = Cover THEN "Cover" ELSE "Block"]

RECURSIVE Leaves(_, _)
Leaves(ir, n) ==
  IF ir.nodes[n].children = <<>> THEN <<n>>
  ELSE FoldLeft(LAMBDA sofar, c : Leaves(ir, c) \o sofar, <<>>, ir.nodes[n].children)

\* An "a" around an image links every leaf made from it, the last one first.
LinkLeaves(st, n) ==
  IF Name(n) # "a" \/ Attrs(n).href = NoHref THEN st
  ELSE LET leaves == FoldLeft(LAMBDA sofar, c : Leaves(st.ir, c) \o sofar, <<>>, st.out)
           draft == [href |-> Attrs(n).href, note |-> Attrs(n).noteref]
       IN  [st EXCEPT !.ir.links = @ \o [i \in DOMAIN leaves |-> ResolveLink(leaves[i], draft, <<>>)]]

\* Paragraphs of a heading that holds an image become headings.
AsHeadings(st, n) ==
  IF Name(n) \notin Headings THEN st
  ELSE [st EXCEPT !.ir.nodes = [i \in DOMAIN @ |->
          IF @[i].kind = "Paragraph" /\ i \in Range(st.out) THEN [@[i] EXCEPT !.kind = "Heading"] ELSE @[i]]]

\* A node around the children made.
Around(st, node, n) == Push(st.ir, [node EXCEPT !.children = st.out], RangeOf(n))

\* convert_children, convert_flow_children and convert_node call each other.
RECURSIVE ConvertChildren(_, _), FlowGroups(_, _), Convert(_, _)

AddBlock(st, child) == Joined(st, Convert(child, st.ir))

ConvertChildren(n, ir) == FoldLeft(AddBlock, Nothing(ir), Kids(n))

\* Inline children between blocks are gathered into paragraphs, each flushed by the block
\* that follows it.
FlowGroups(n, ir) ==
  FoldLeft(LAMBDA st, child : IF InlineFlow(child) THEN [st EXCEPT !.group = Append(@, child)]
                              ELSE AddBlock(FlushGroup(st, StyleOf(n)), child),
           Nothing(ir), Kids(n))

\* Mutant of FlowChildren: the group behind the last block is not flushed.
FlowChildrenUnflushed(n, ir) == FlowGroups(n, ir)

\* convert_flow_children
FlowChildren(n, ir) == FlushGroup(FlowGroups(n, ir), StyleOf(n))

\* footnote_node: a note of which nothing was made shows its inline text.
NoteText(flow, n, text) ==
  IF flow.out # <<>> \/ text = <<>> THEN flow ELSE PushRawText(flow.ir, text, StyleOf(n), n)

FootnoteNode(n, ir) ==
  Around(NoteText(FlowChildren(n, ir), n, InlineContent(<<n>>, StyleOf(n)).text),
         [IrNode EXCEPT !.kind = "Footnote", !.note = Attrs(n).id], n)

\* block_text_node, heading_node: inline phrasing without text makes nothing.
TextElement(n, ir, content) ==
  IF Name(n) \in ConvertedPhrasing /\ content.text = <<>> THEN Nothing(ir)
  ELSE PushText(ir, IF Name(n) \in Headings THEN "Heading" ELSE "Paragraph", content, RangeOf(n))

TextNames == {"p"} \cup Headings \cup ConvertedPhrasing

ConvertElement(n, ir) ==
  LET name == Name(n)
      Kind(kind) == [IrNode EXCEPT !.kind = kind]
  IN
  CASE name \in TextNames /\ ~HasImage(n) -> TextElement(n, ir, InlineContent(<<n>>, StyleOf(n)))
    [] name \in TextNames /\ HasImage(n) ->
         Around(LinkLeaves(AsHeadings(FlowChildren(n, ir), n), n), IrNode, n)
    [] name \in FlowNames -> Around(FlowChildren(n, ir), IrNode, n)
    [] name \in DOMAIN FlowKind -> Around(FlowChildren(n, ir), Kind(FlowKind[name]), n)
    [] name \in DOMAIN ListKind -> Around(ConvertChildren(n, ir), Kind(ListKind[name]), n)
    [] name \in {"img", "image"} -> Push(ir, ImageNode(n), RangeOf(n))
    [] name = "hr" -> Push(ir, Kind("Divider"), RangeOf(n))
    [] name = "br" -> Push(ir, Kind("ForcedBreak"), RangeOf(n))
    [] name = "aside" /\ Attrs(n).footnote ->
         IF <<Document, Attrs(n).id>> \in ReferencedNotes THEN FootnoteNode(n, ir) ELSE Nothing(ir)
    [] OTHER -> Around(ConvertChildren(n, ir), Kind("Unsupported"), n)

\* register_element_anchor follows every element that made a node.
WithAnchor(made, n) ==
  IF made.out = <<>> \/ Attrs(n).id = NoPath THEN made
  ELSE [made EXCEPT !.ir.anchors = Anchored(@, Attrs(n).id, made.out[1], 0)]

\* convert_text_node
LooseText(text, n, ir) ==
  IF text = <<>> THEN Nothing(ir) ELSE PushRawText(ir, text, StyleOf(ParentOf(n)), n)

\* convert_node
Convert(n, ir) ==
  IF IsText(n) THEN LooseText(Trim(Attrs(n).chars), n, ir)
  ELSE IF Name(n) \in NonContent THEN Nothing(ir)
  ELSE WithAnchor(ConvertElement(n, ir), n)

-----------------------------------------------------------------------------
(* ChapterBuilder::build *)

\* load_css_cascade fails on a sheet or a style element it cannot take.
StylesFail ==
  /\ reading = "parsed" /\ stage = "waiting"
  /\ \E n \in DOMAIN nodes : Name(n) \in {"link", "style"}
  /\ stage' = "failed"
  /\ UNCHANGED <<chapter, unresolved>>

Build ==
  /\ reading = "parsed" /\ stage = "waiting"
  /\ LET made == Around(ConvertChildren(ContentRoot, EmptyChapter), IrNode, ContentRoot)
         ir == [made.ir EXCEPT !.root = made.out[1]]
     IN  /\ chapter' = ir
         /\ unresolved' = SelectSeq(ir.links, LAMBDA link : link.kind = "Footnote")
  /\ stage' = "notes"

\* salvage_chapter_ir: one paragraph of all that is not in a tag, with no place
\* in the source of its own.
Salvage ==
  /\ reading = "salvage" /\ stage = "waiting"
  /\ LET text == Trim(FoldLeft(LAMBDA sofar, piece :
                                 sofar \o IF piece.kind = "text" THEN piece.attrs.chars ELSE <<>>,
                               <<>>, source))
         paragraph == Placeless("Paragraph", text, <<>>, NoPath, NoPath)
         root == [IrNode EXCEPT !.children = <<1>>, !.range = <<0, Len(source)>>]
     IN  chapter' = [EmptyChapter EXCEPT !.nodes = <<paragraph, root>>, !.root = 2]
  /\ stage' = "built"
  /\ UNCHANGED unresolved

ChapterInit == TreeInit /\ BuilderInit

ChapterNext ==
  \/ TreeNext /\ UNCHANGED builderVars
  \/ (StylesFail \/ Build \/ Salvage \/ ResolveNote \/ FinishChapter) /\ UNCHANGED treeVars

-----------------------------------------------------------------------------
(* Reading the IR *)

\* visible_text
RECURSIVE Visible(_, _, _)
Visible(ir, n, out) ==
  LET node == ir.nodes[n] IN
  CASE node.kind \in {"Paragraph", "Heading"} ->
         (IF out # <<>> /\ Last(out) # Break THEN Append(out, Break) ELSE out) \o Trim(node.text)
    [] node.kind = "ForcedBreak" -> Append(out, Break)
    [] OTHER -> FoldLeft(LAMBDA sofar, c : Visible(ir, c, sofar), out, node.children)

VisibleText(ir) == Trim(Visible(ir, ir.root, <<>>))

-----------------------------------------------------------------------------
(* Properties *)

InNote(n) ==
  \E m \in DOMAIN nodes : /\ ~IsText(m) /\ Name(m) = "aside" /\ Attrs(m).footnote
                         /\ nodes[m].start <= nodes[n].start /\ nodes[n].end <= nodes[m].end

RECURSIVE SourceLetters(_)
SourceLetters(n) ==
  IF IsText(n) THEN IF InNote(n) THEN <<>> ELSE SelectSeq(Attrs(n).chars, LAMBDA c : c \notin White)
  ELSE IF Name(n) \in NonContent THEN <<>>
  ELSE FoldLeft(LAMBDA sofar, c : sofar \o SourceLetters(c), <<>>, Kids(n))

(* Reading a chapter loses no text and says nothing twice: but for notes,    *)
(* the letters of the body come out of the IR in the order of the source,    *)
(* whichever of inline groups, flow containers and lists they passed         *)
(* through and however the markup had to be repaired.                        *)
LettersKept ==
  stage = "built" /\ reading = "parsed" =>
    LET letters == SourceLetters(ContentRoot) IN
    SelectSeq(VisibleText(chapter), LAMBDA c : c \in Range(letters)) = letters

\* From the pieces to the tree, and from the tree to the chapter.
TextPreserved == TextsInTree /\ LettersKept

\* Links and anchors are good: a link is on a node of the chapter and covers
\* text that the node has, an anchor points into its node or at its end.
\* Hit tests and jumps use them without a check.
MarksResolve ==
  stage = "built" =>
    /\ \A i \in DOMAIN chapter.links : LET link == chapter.links[i] IN
         /\ link.node \in DOMAIN chapter.nodes
         /\ link.range # <<>> => /\ link.range[1] < link.range[2]
                               /\ link.range[2] <= Len(chapter.nodes[link.node].text)
    /\ \A f \in DOMAIN chapter.anchors :
         /\ chapter.anchors[f].node \in DOMAIN chapter.nodes
         /\ chapter.anchors[f].offset <= Len(chapter.nodes[chapter.anchors[f].node].text)

\* A block's place in the source covers that of each of its style runs, so
\* that a selection maps back into the element the block came from; but for an
\* element that was taken for the root.
SourceMapCovers ==
  stage = "built" /\ ~TakenForRoot =>
    \A n \in DOMAIN chapter.nodes : \A i \in DOMAIN chapter.nodes[n].runs :
      LET from == RangeOf(chapter.nodes[n].runs[i].origin[2]) IN
      chapter.nodes[n].range[1] <= from[1] /\ from[2] <= chapter.nodes[n].range[2]

(* An image that is laid out alone on its page is all that the chapter       *)
(* shows: no other image, no rule, and no text but white space, be it the    *)
(* line break of a lone br, in the body or in a note fetched for it.         *)
StandaloneAlone ==
  stage = "built" =>
    \A n \in Images(chapter) : chapter.nodes[n].role = "Standalone" =>
      /\ Images(chapter) = {n}
      /\ \A m \in DOMAIN chapter.nodes : chapter.nodes[m].kind \notin {"Divider", "ForcedBreak"}
      /\ VisibleText(chapter) = <<>>

(* What points into the chapter or back to its source is good, however       *)
(* broken the markup was: source ranges nest as the tree does, the range of  *)
(* a block covers those of its style runs (unless an element was taken for   *)
(* the root), links cover text that their node has, and anchors point into   *)
(* their node or at its end.  Hit tests, jumps and selections use all of     *)
(* them without a check.                                                     *)
PlacesSound == RangesNest /\ SourceMapCovers /\ MarksResolve
=============================================================================
