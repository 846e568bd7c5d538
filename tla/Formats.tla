------------------------------ MODULE Formats ------------------------------
(***************************************************************************)
(* The formats that pagelet reads and writes, part by part: what             *)
(* crates/pagelet/src/epub.rs makes of a publication (the archive is opened, *)
(* a chapter's style sheets are loaded, its markup becomes a ChapterIR, the  *)
(* text of a block is collected), the messages between Rust and Dart, and    *)
(* the measuring of text on either side.                                     *)
(* The parts hand each other finished values and share no state, so a        *)
(* behaviour follows one of them while the others rest.                      *)
(***************************************************************************)
EXTENDS Publication, ComputedStyle, ChapterBuilder, SceneWire, Measurement

VARIABLE part   \* the part that this behaviour follows

formatVars == <<part, publicationVars, cssVars, treeVars, builderVars, inlineVars, wire, measuring>>

Parts == {"publication", "styles", "chapter", "inline", "wire", "measure"}

\* A part that rests has nothing to read and has given up.
PublicationRests ==
  /\ archive = [entries |-> <<>>, count |-> 0]
  /\ opening = [m \in Range(CompatibilityModes) |-> [Unopened EXCEPT !.phase = "refused"]]

StylesRest ==
  /\ book = <<>> /\ hrefs = <<>> /\ embedded = <<>> /\ loading = <<>> /\ rules = <<>> /\ arrival = <<>>
  /\ css = "failed"

ChapterRests ==
  /\ source = <<>> /\ options = "Strict" /\ parsing = "Strict" /\ reading = "refused"
  /\ tokens = <<>> /\ nodes = <<Root>> /\ stack = <<1>> /\ pos = 0
  /\ BuilderInit

WireRests == [Ready([kind |-> "page", version |-> 0, writer |-> "none", batch |-> [items |-> <<>>], fragile |-> FALSE])
                EXCEPT !.stage = "refused"]

MeasureRests == [Asked(<<>>, "none") EXCEPT !.stage = "cancelled"]

FormatsInit ==
  /\ part \in Parts
  /\ IF part = "publication" THEN PublicationInit ELSE PublicationRests
  /\ IF part = "styles" THEN CssInit ELSE StylesRest
  /\ IF part = "chapter" THEN ChapterInit ELSE ChapterRests
  /\ InlineInit
  /\ IF part = "wire" THEN WireInit ELSE wire = WireRests
  /\ IF part = "measure" THEN MeasureInit ELSE measuring = MeasureRests

StylesStep ==
  /\ part = "styles" /\ CssNext
  /\ UNCHANGED <<publicationVars, treeVars, builderVars, inlineVars, wire, measuring>>

FormatsNext ==
  /\ UNCHANGED part
  /\ \/ /\ part = "publication" /\ PublicationNext
        /\ UNCHANGED <<cssVars, treeVars, builderVars, inlineVars, wire, measuring>>
     \/ StylesStep
     \/ /\ part = "chapter" /\ ChapterNext
        /\ UNCHANGED <<publicationVars, cssVars, inlineVars, wire, measuring>>
     \/ /\ part = "inline" /\ InlineNext
        /\ UNCHANGED <<publicationVars, cssVars, treeVars, builderVars, wire, measuring>>
     \/ /\ part = "wire" /\ WireNext
        /\ UNCHANGED <<publicationVars, cssVars, treeVars, builderVars, inlineVars, measuring>>
     \/ /\ part = "measure" /\ MeasureNext
        /\ UNCHANGED <<publicationVars, cssVars, treeVars, builderVars, inlineVars, wire>>

\* Loading styles is one call, which runs until it returns.
FormatsSpec ==
  FormatsInit /\ [][FormatsNext]_formatVars /\ WF_formatVars(UNCHANGED part /\ StylesStep)
=============================================================================
