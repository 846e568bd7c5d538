----------------------------- MODULE InlineText -----------------------------
(***************************************************************************)
(* The text of one block as it is collected from inline markup:             *)
(* InlineAccumulator of crates/pagelet/src/epub.rs.                         *)
(*                                                                         *)
(* White space collapses to one space, written only when more text follows; *)
(* style runs, links and anchors are offsets into the text written so far.  *)
(* A character is one unit long, and an origin stands for what a style run  *)
(* keeps together: a style and the source range it came from.               *)
(***************************************************************************)
EXTENDS Integers, Sequences

CONSTANTS
  Letters,     \* characters that do not collapse
  Space, Break,
  Origins,
  NoOrigin     \* no space is pending

ASSUME InlineAssumption ==
  /\ Space \notin Letters /\ Break \notin Letters /\ Space # Break
  /\ NoOrigin \notin Origins

Characters == Letters \cup {Space, Break}

Empty == [text |-> <<>>, runs |-> <<>>, links |-> <<>>, anchors |-> <<>>, pending |-> NoOrigin]

AtLineStart(acc) == acc.text = <<>> \/ acc.text[Len(acc.text)] = Break

Run(from, to, origin) == [start |-> from, end |-> to, origin |-> origin]

\* Mutant of Segment: runs never grow.
SegmentApart(acc, character, origin) ==
  [acc EXCEPT !.text = Append(@, character),
              !.runs = Append(@, Run(Len(acc.text), Len(acc.text) + 1, origin))]

\* append_segment: the run grows while origin and place continue it.
Segment(acc, character, origin) ==
  LET last == Len(acc.runs) length == Len(acc.text) IN
  [acc EXCEPT
     !.text = Append(@, character),
     !.runs = IF last > 0 /\ acc.runs[last].end = length /\ acc.runs[last].origin = origin
              THEN [@ EXCEPT ![last] = Run(acc.runs[last].start, length + 1, origin)]
              ELSE Append(@, Run(length, length + 1, origin))]

\* flush_pending_space
Flush(acc) ==
  IF acc.pending = NoOrigin THEN acc
  ELSE IF AtLineStart(acc) THEN [acc EXCEPT !.pending = NoOrigin]
  ELSE Segment([acc EXCEPT !.pending = NoOrigin], Space, acc.pending)

\* append_collapsible of one character of white space: the first one of a
\* stretch counts, and none at the start of a line.
CollapseSpace(acc, origin) ==
  IF AtLineStart(acc) \/ acc.pending # NoOrigin THEN acc ELSE [acc EXCEPT !.pending = origin]

\* append_collapsible of any other character.
AppendLetter(acc, letter, origin) == Segment(Flush(acc), letter, origin)

\* append_break: a pending space is dropped before a line break.
AppendBreak(acc, origin) == Segment([acc EXCEPT !.pending = NoOrigin], Break, origin)

\* The anchor of an element with an id: next_text_offset.
AddAnchor(acc, fragment) ==
  LET offset == Len(acc.text) + IF acc.pending # NoOrigin /\ ~AtLineStart(acc) THEN 1 ELSE 0 IN
  [acc EXCEPT !.anchors = Append(@, [fragment |-> fragment, offset |-> offset])]

\* collect_inline of an "a": the space before it is written first, and a link
\* without text is no link.
StartLink(acc) == Flush(acc)

EndLink(acc, from, href) ==
  IF Len(acc.text) > from
  THEN [acc EXCEPT !.links = Append(@, [href |-> href, start |-> from, end |-> Len(acc.text)])]
  ELSE acc

\* finish: an anchor past the end of the text stands at the end.
Finished(acc) ==
  [acc EXCEPT !.anchors =
     [i \in DOMAIN @ |-> IF @[i].offset > Len(acc.text) THEN [@[i] EXCEPT !.offset = Len(acc.text)]
                                                       ELSE @[i]]]

-----------------------------------------------------------------------------
(* Collecting: the markup comes as a stream of characters, links and ids.   *)

CONSTANTS
  MaxText,   \* bound on the text collected
  MaxMarks   \* bound on its links, on those open at once, and on its anchors

VARIABLES
  acc,    \* the InlineAccumulator
  open    \* where the links being collected start, outermost first

inlineVars == <<acc, open>>

InlineInit == acc = Empty /\ open = <<>>

Collect(next) == Len(acc.text) < MaxText /\ acc' = next /\ UNCHANGED open

OpenLink ==
  /\ Len(open) < MaxMarks
  /\ acc' = StartLink(acc)
  /\ open' = Append(open, Len(acc'.text))

CloseLink(href) ==
  /\ open # <<>>
  /\ Len(acc.links) < MaxMarks
  /\ acc' = EndLink(acc, open[Len(open)], href)
  /\ open' = SubSeq(open, 1, Len(open) - 1)

InlineNext ==
  \/ \E origin \in Origins :
       \/ Collect(CollapseSpace(acc, origin))
       \/ Collect(AppendBreak(acc, origin))
       \/ \E letter \in Letters : Collect(AppendLetter(acc, letter, origin))
  \/ Len(acc.anchors) < MaxMarks /\ Collect(AddAnchor(acc, "id"))
  \/ OpenLink
  \/ CloseLink("href")

InlineSpec == InlineInit /\ [][InlineNext]_inlineVars

-----------------------------------------------------------------------------
(* Properties *)

(* The style runs of a block are its text cut into pieces: they begin at     *)
(* its first character, leave no gap and no overlap, and end at its last.    *)
(* The host measures and paints the text run by run.                         *)
RunsPartitionText ==
  /\ acc.runs = <<>> <=> acc.text = <<>>
  /\ \A i \in DOMAIN acc.runs :
       /\ acc.runs[i].start < acc.runs[i].end
       /\ acc.runs[i].start = IF i = 1 THEN 0 ELSE acc.runs[i - 1].end
       /\ i = Len(acc.runs) => acc.runs[i].end = Len(acc.text)

(* No two neighbouring runs could have been one, so a style or a source      *)
(* change is where a run ends.                                               *)
RunsDiffer ==
  \A i \in 1 .. Len(acc.runs) - 1 : acc.runs[i].origin # acc.runs[i + 1].origin

(* Links cover text that is there, and anchors point into it or at its end,  *)
(* whatever white space was pending when they were noted.                    *)
MarksInText ==
  /\ \A i \in DOMAIN acc.links :
       0 <= acc.links[i].start /\ acc.links[i].start < acc.links[i].end
       /\ acc.links[i].end <= Len(acc.text)
  /\ \A i \in DOMAIN acc.anchors : Finished(acc).anchors[i].offset \in 0 .. Len(acc.text)

(* A line never begins with white space.                                     *)
LinesStartWithText ==
  \A i \in DOMAIN acc.text : acc.text[i] = Space => i > 1 /\ acc.text[i - 1] # Break

(* The text of a block is sound whatever markup it was collected from: its   *)
(* style runs partition it and none could have been longer, links and        *)
(* anchors lie in it, and no line begins with white space.                   *)
InlineSound == RunsPartitionText /\ RunsDiffer /\ MarksInText /\ LinesStartWithText
=============================================================================
