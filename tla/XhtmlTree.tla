----------------------------- MODULE XhtmlTree -----------------------------
(***************************************************************************)
(* Reading one XHTML document (crates/pagelet/src/epub.rs): the tokenizer   *)
(* and the tree builder, first as strict, and when that fails and the book  *)
(* was not opened as strict once more as compatible, where mismatched and   *)
(* missing end tags are repaired; when that fails too, the chapter is       *)
(* salvaged as one paragraph.                                               *)
(*                                                                         *)
(* A document is a sequence of pieces, each the run of characters that one  *)
(* turn of the tokenizer takes and one unit of source wide.  Element names  *)
(* are local names; attrs is what a piece carries besides its name.         *)
(***************************************************************************)
EXTENDS Integers, Sequences, SequencesExt, FiniteSetsExt

CONSTANTS
  Documents,   \* the documents that may be read, sequences of pieces
  NoAttrs,     \* the attributes of an element that has none
  MaxNodes,    \* ResourceLimits::max_dom_nodes
  MaxDepth     \* ResourceLimits::max_xml_depth

ASSUME TreeAssumption == \A document \in Documents : document \in Seq(Range(document))

VARIABLES
  source,    \* the document being read
  options,   \* OpenOptions::compatibility_mode
  parsing,   \* the mode of the current attempt
  reading,   \* "tokenize", "tree", then "parsed", "salvage" or "refused"
  tokens,
  nodes,     \* the tree: nodes[1] is #document
  stack,     \* the open elements
  pos        \* the tokens the builder has used

treeVars == <<source, options, parsing, reading, tokens, nodes, stack, pos>>

Modes == {"Strict", "Compatible", "Salvage"}

VoidNames ==
  {"area", "base", "br", "col", "embed", "hr", "img", "input", "link", "meta", "param", "source",
   "track", "wbr"}

\* A piece the tokenizer has no end for, or a tag without a name.
Unreadable(piece) == piece.kind = "broken"

Root == [kind |-> "element", name |-> "#document", attrs |-> NoAttrs,
         start |-> 0, end |-> 0, children |-> <<>>]

\* The start of an attempt at the tree.
Attempt(mode) ==
  /\ parsing' = mode
  /\ reading' = "tree"
  /\ nodes' = <<Root>>
  /\ stack' = <<1>>
  /\ pos' = 0

TreeInit ==
  /\ source \in Documents
  /\ options \in Modes
  /\ parsing = "Strict"
  /\ reading = "tokenize"
  /\ tokens = <<>>
  /\ nodes = <<Root>>
  /\ stack = <<1>>
  /\ pos = 0

\* A turn of the tokenizer starts at a text, or at markup no text precedes;
\* only there are the tokens so far held against the limit.
TurnStarts(i) == i > 1 => source[i].kind = "text" \/ source[i - 1].kind # "text"

OverTokens == \E i \in DOMAIN source : TurnStarts(i) /\ i - 1 > MaxNodes

Tokenize ==
  /\ reading = "tokenize"
  /\ ~OverTokens
  /\ \A i \in DOMAIN source : ~Unreadable(source[i])
  /\ tokens' = source
  /\ Attempt("Strict")
  /\ UNCHANGED <<source, options>>

-----------------------------------------------------------------------------
(* build_xhtml_tree *)

\* An end tag may name the root and close it; what is open then is nothing, and what
\* follows is still the root's.
Top == IF stack = <<>> THEN 1 ELSE stack[Len(stack)]

Expected == IF stack = <<>> THEN "" ELSE nodes[Top].name

NodeOf(token) ==
  [kind |-> IF token.kind = "text" THEN "text" ELSE "element",
   name |-> token.name, attrs |-> token.attrs, start |-> pos, end |-> pos + 1, children |-> <<>>]

PushChild(node) ==
  nodes' = Append([nodes EXCEPT ![Top].children = Append(@, Len(nodes) + 1)], node)

Next1 == tokens[pos + 1]

OpenElement ==
  /\ reading = "tree" /\ pos < Len(tokens) /\ Next1.kind \in {"start", "empty"}
  /\ Len(nodes) < MaxNodes
  /\ Len(stack) < MaxDepth
  /\ PushChild(NodeOf(Next1))
  /\ stack' = IF Next1.kind = "empty" \/ Next1.name \in VoidNames
              THEN stack ELSE Append(stack, Len(nodes) + 1)
  /\ pos' = pos + 1
  /\ UNCHANGED <<source, options, parsing, reading, tokens>>

AddText ==
  /\ reading = "tree" /\ pos < Len(tokens) /\ Next1.kind = "text"
  /\ Len(nodes) < MaxNodes
  /\ PushChild(NodeOf(Next1))
  /\ pos' = pos + 1
  /\ UNCHANGED <<source, options, parsing, reading, tokens, stack>>

\* Comments and processing instructions.
Skip ==
  /\ reading = "tree" /\ pos < Len(tokens) /\ Next1.kind = "comment"
  /\ pos' = pos + 1
  /\ UNCHANGED <<source, options, parsing, reading, tokens, nodes, stack>>

\* The place on the stack of the innermost open element that an end tag names.
Named(name) == {k \in DOMAIN stack : nodes[stack[k]].name = name}

EndAt(closed, last) ==
  [n \in DOMAIN nodes |-> IF n \in closed THEN [nodes[n] EXCEPT !.end = last] ELSE nodes[n]]

\* Mutant of CloseTo: the elements that an outer end tag closes keep their ends.
CloseOuterOnly(k) ==
  /\ nodes' = EndAt({stack[k]}, pos + 1)
  /\ stack' = SubSeq(stack, 1, k - 1)

\* An end tag closes its element and every open element inside it.
CloseTo(k) ==
  /\ nodes' = EndAt({stack[j] : j \in k .. Len(stack)}, pos + 1)
  /\ stack' = SubSeq(stack, 1, k - 1)

\* The top of the stack; or, in compatible mode, an element below it.
CloseElement ==
  /\ reading = "tree" /\ pos < Len(tokens) /\ Next1.kind = "end"
  /\ Named(Next1.name) # {}
  /\ parsing # "Strict" \/ Expected = Next1.name
  /\ CloseTo(Max(Named(Next1.name)))
  /\ pos' = pos + 1
  /\ UNCHANGED <<source, options, parsing, reading, tokens>>

\* An end tag that closes nothing is dropped in compatible mode.
StrayEnd ==
  /\ reading = "tree" /\ pos < Len(tokens) /\ Next1.kind = "end"
  /\ Named(Next1.name) = {}
  /\ parsing # "Strict" \/ Expected = Next1.name
  /\ pos' = pos + 1
  /\ UNCHANGED <<source, options, parsing, reading, tokens, nodes, stack>>

\* Elements still open end with the document, and so does the root.  The first on the stack
\* is taken for the root.
FinishTree ==
  /\ reading = "tree" /\ pos = Len(tokens)
  /\ parsing = "Strict" => Len(stack) <= 1
  /\ reading' = "parsed"
  /\ nodes' = EndAt({1} \cup {stack[k] : k \in 2 .. Len(stack)}, Len(tokens))
  /\ UNCHANGED <<source, options, parsing, tokens, stack, pos>>

-----------------------------------------------------------------------------
(* chapter_ir_from_xhtml *)

\* What the builder refuses: a limit, or in strict mode a tag out of place.
Fails ==
  \/ /\ reading = "tokenize"
     /\ OverTokens \/ \E i \in DOMAIN source : Unreadable(source[i])
  \/ /\ reading = "tree" /\ pos < Len(tokens)
     /\ \/ Next1.kind \in {"start", "empty"} /\ (Len(nodes) >= MaxNodes \/ Len(stack) >= MaxDepth)
        \/ Next1.kind = "text" /\ Len(nodes) >= MaxNodes
        \/ Next1.kind = "end" /\ parsing = "Strict" /\ Expected # Next1.name
  \/ reading = "tree" /\ pos = Len(tokens) /\ parsing = "Strict" /\ Len(stack) > 1

GiveUp ==
  /\ Fails
  /\ IF options = "Strict"
     THEN reading' = "refused" /\ UNCHANGED <<parsing, nodes, stack, pos>>
     ELSE IF reading = "tree" /\ parsing = "Strict"
     THEN Attempt("Compatible")
     ELSE reading' = "salvage" /\ UNCHANGED <<parsing, nodes, stack, pos>>
  /\ UNCHANGED <<source, options, tokens>>

TreeNext ==
  \/ Tokenize \/ OpenElement \/ AddText \/ Skip \/ CloseElement \/ StrayEnd
  \/ FinishTree \/ GiveUp

TreeSpec == TreeInit /\ [][TreeNext]_treeVars

-----------------------------------------------------------------------------
(* Properties *)

\* An element that was opened behind the end tag of the root and never closed: the last
\* step takes it for the root, and leaves its range as its start tag's.
TakenForRoot == stack # <<>> /\ stack[1] # 1

\* Source ranges follow the tree, however broken the markup was: a node lies
\* within its parent, and after its elder sibling.  ChapterIR maps blocks,
\* links and style runs back to the document through them.
RangesNest ==
  reading = "parsed" /\ ~TakenForRoot =>
    \A n \in DOMAIN nodes : LET kids == nodes[n].children IN
      /\ \A k \in DOMAIN kids :
           nodes[n].start <= nodes[kids[k]].start /\ nodes[kids[k]].end <= nodes[n].end
      /\ \A k \in 1 .. Len(kids) - 1 : nodes[kids[k]].end <= nodes[kids[k + 1]].start

\* Every text of the document is one node of its tree, with what it says, and the nodes
\* are in the order of the document: a repair drops end tags, never text, and moves none.
TextsInTree ==
  reading = "parsed" =>
    /\ \A p \in DOMAIN source : source[p].kind = "text" =>
         \E n \in DOMAIN nodes :
           nodes[n].kind = "text" /\ nodes[n].attrs = source[p].attrs /\ nodes[n].start = p - 1
    /\ \A n \in DOMAIN nodes : nodes[n].kind = "text" => source[nodes[n].start + 1].kind = "text"
    /\ \A n, m \in 2 .. Len(nodes) : n < m => nodes[n].start < nodes[m].start
=============================================================================
