---------------------------- MODULE ChapterNotes ----------------------------
(***************************************************************************)
(* The end of ChapterBuilder::build in crates/pagelet/src/epub.rs: the      *)
(* notes that a converted chapter refers to are found one link at a time,   *)
(* in other documents where they must, and an image that is all a chapter   *)
(* shows gets its page.                                                     *)
(*                                                                         *)
(* What the conversion of the tree gives (ChapterBuilder) comes from        *)
(* outside.  NotesSpec allows any chapter that says of its notes what a     *)
(* fresh one does.                                                          *)
(***************************************************************************)
EXTENDS InlineText, SequencesExt, FiniteSetsExt

CONSTANTS
  Document,    \* the path of the chapter
  NoPath,      \* an absent path, fragment or id
  Blanks,      \* white space that does not collapse, as a no-break space
  OtherNotes   \* readable documents -> fragment -> the text of that element

VARIABLES
  chapter,    \* the ChapterIr
  unresolved, \* the footnote links still to resolve
  stage       \* "waiting", "notes", then "built" or "failed"

builderVars == <<chapter, unresolved, stage>>

EmptyChapter == [nodes |-> <<>>, root |-> 1, links |-> <<>>, anchors |-> [f \in {} |-> 0]]

IrNode ==
  [kind |-> "Container", text |-> <<>>, runs |-> <<>>, children |-> <<>>, range |-> <<0, 0>>,
   note |-> NoPath, backlink |-> NoPath, path |-> NoPath, role |-> "none"]

\* A node that the source map does not place.
Placeless(kind, text, children, note, backlink) ==
  [kind |-> kind, text |-> text, runs |-> <<>>, children |-> children, range |-> <<>>,
   note |-> note, backlink |-> backlink, path |-> NoPath, role |-> "none"]

\* char::is_whitespace: more than what collapses, and the line break that a br wrote.
White == {Space, Break} \cup Blanks

TrimLeft(s) ==
  LET texts == {i \in DOMAIN s : s[i] \notin White} IN
  IF texts = {} THEN <<>> ELSE SubSeq(s, Min(texts), Len(s))

\* str::trim
Trim(s) == Reverse(TrimLeft(Reverse(TrimLeft(s))))

-----------------------------------------------------------------------------
(* resolve_footnotes and classify_standalone_image *)

BuilderInit == chapter = EmptyChapter /\ unresolved = <<>> /\ stage = "waiting"

\* Mutant of NotesNamed: notes that were fetched are not found again.
NotesNamedHere(fragment) ==
  {n \in DOMAIN chapter.nodes : /\ chapter.nodes[n].kind = "Footnote" /\ chapter.nodes[n].note = fragment
                                /\ chapter.nodes[n].range # <<>>}

\* find_footnote_by_fragment: the document is not asked for.
NotesNamed(fragment) ==
  {n \in DOMAIN chapter.nodes : chapter.nodes[n].kind = "Footnote" /\ chapter.nodes[n].note = fragment}

NoteLink == Head(unresolved)

\* set_footnote_backlink
Backlink ==
  /\ NotesNamed(NoteLink.fragment) # {}
  /\ chapter' = [chapter EXCEPT !.nodes[Min(NotesNamed(NoteLink.fragment))].backlink = NoteLink]
  /\ UNCHANGED stage

\* add_external_footnote: the text of the element goes behind the chapter.
ExternalNote ==
  /\ NotesNamed(NoteLink.fragment) = {}
  /\ NoteLink.doc \notin {Document, NoPath}
  /\ IF NoteLink.doc \notin DOMAIN OtherNotes
     THEN stage' = "failed" /\ UNCHANGED chapter
     ELSE LET notes == OtherNotes[NoteLink.doc]
              text == IF NoteLink.fragment \in DOMAIN notes THEN Trim(notes[NoteLink.fragment]) ELSE <<>>
              next == Len(chapter.nodes) + 1
              paragraph == Placeless("Paragraph", text, <<>>, NoPath, NoPath)
              note == Placeless("Footnote", <<>>, <<next>>, NoteLink.fragment, NoteLink)
          IN  /\ chapter' = IF text = <<>> THEN chapter
                            ELSE [chapter EXCEPT !.nodes =
                                    [chapter.nodes EXCEPT ![chapter.root].children = Append(@, next + 1)]
                                      \o <<paragraph, note>>]
              /\ UNCHANGED stage

ResolveNote ==
  /\ stage = "notes" /\ unresolved # <<>>
  /\ \/ NoteLink.fragment # NoPath /\ (Backlink \/ ExternalNote)
     \/ /\ \/ NoteLink.fragment = NoPath
           \/ NotesNamed(NoteLink.fragment) = {} /\ NoteLink.doc \in {Document, NoPath}
        /\ UNCHANGED <<chapter, stage>>
  /\ unresolved' = Tail(unresolved)

\* Content that a lone image would share its page with.
OtherContent(ir) ==
  \E n \in DOMAIN ir.nodes :
    \/ ir.nodes[n].kind \in {"Paragraph", "Heading"} /\ Trim(ir.nodes[n].text) # <<>>
    \/ ir.nodes[n].kind \in {"Divider", "ForcedBreak"}

Images(ir) == {n \in DOMAIN ir.nodes : ir.nodes[n].kind = "Image"}

\* Mutant of Classified: text is not looked for.
ClassifiedImages(ir) ==
  IF Cardinality(Images(ir)) # 1 THEN ir
  ELSE [ir EXCEPT !.nodes = [n \in DOMAIN @ |->
          IF n \in Images(ir) /\ @[n].role = "Block" THEN [@[n] EXCEPT !.role = "Standalone"] ELSE @[n]]]

\* classify_standalone_image
Classified(ir) ==
  IF OtherContent(ir) \/ Cardinality(Images(ir)) # 1 THEN ir
  ELSE [ir EXCEPT !.nodes = [n \in DOMAIN @ |->
          IF n \in Images(ir) /\ @[n].role = "Block" THEN [@[n] EXCEPT !.role = "Standalone"] ELSE @[n]]]

FinishChapter ==
  /\ stage = "notes" /\ unresolved = <<>>
  /\ chapter' = Classified(chapter)
  /\ stage' = "built"
  /\ UNCHANGED unresolved

-----------------------------------------------------------------------------
(* What comes from the conversion *)

FootnoteLinks(ir) == {i \in DOMAIN ir.links : ir.links[i].kind = "Footnote"}

Notes(ir) == {n \in DOMAIN ir.nodes : ir.nodes[n].kind = "Footnote"}

\* No note was fetched yet, and none leads back.
Fresh(ir) == \A n \in Notes(ir) : ir.nodes[n].range # <<>> /\ ir.nodes[n].backlink = NoPath

\* A chapter as the arenas hold it.
IsIrNode(node) ==
  node = [kind |-> node.kind, text |-> node.text, runs |-> node.runs, children |-> node.children,
          range |-> node.range, note |-> node.note, backlink |-> node.backlink, path |-> node.path,
          role |-> node.role]

IsChapter(ir) ==
  /\ ir = [nodes |-> ir.nodes, root |-> ir.root, links |-> ir.links, anchors |-> ir.anchors]
  /\ ir.nodes \in Seq(Range(ir.nodes)) /\ \A n \in DOMAIN ir.nodes : IsIrNode(ir.nodes[n])
  /\ ir.links \in Seq(Range(ir.links))
  /\ ir.root \in DOMAIN ir.nodes

\* The links that are asked for are the chapter's to footnotes.
AsksNotes(asked, ir) ==
  /\ asked \in Seq(Range(ir.links))
  /\ Len(asked) = Cardinality(FootnoteLinks(ir))

\* The conversion may fail, may give a chapter with links to resolve, or be a salvaged
\* paragraph.
Converted ==
  /\ stage = "waiting"
  /\ \/ stage' = "failed" /\ UNCHANGED <<chapter, unresolved>>
     \/ /\ IsChapter(chapter') /\ Fresh(chapter')
        /\ \/ stage' = "notes" /\ AsksNotes(unresolved', chapter')
           \/ stage' = "built" /\ UNCHANGED unresolved

NotesNext == Converted \/ ResolveNote \/ FinishChapter

NotesSpec == BuilderInit /\ [][NotesNext]_builderVars

-----------------------------------------------------------------------------
(* Properties *)

(* However many links refer to a note, and whether it came with the chapter  *)
(* or from another document: a note that was fetched is the only one of its  *)
(* name, a backlink is a link to its note that the chapter has, and no note  *)
(* is fetched or led back before a link has asked for it.                    *)
NotesOnce ==
  /\ stage = "notes" /\ Len(unresolved) = Cardinality(FootnoteLinks(chapter)) => Fresh(chapter)
  /\ \A n \in Notes(chapter) : LET note == chapter.nodes[n] IN
       /\ \A m \in Notes(chapter) \ {n} : note.range = <<>> => chapter.nodes[m].note # note.note
       /\ note.backlink # NoPath =>
            note.backlink \in Range(chapter.links) /\ note.backlink.fragment = note.note
=============================================================================
