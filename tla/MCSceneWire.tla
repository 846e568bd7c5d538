----------------------------- MODULE MCSceneWire -----------------------------
(***************************************************************************)
(* Messages for TLC: for each kind a plain one, and those that differ from   *)
(* it in one place, each in every version.                                   *)
(***************************************************************************)
EXTENDS SceneWire

MCWidths == [c \in {"a", "e", "lf", "cr", "bom"} |-> IF c = "e" THEN 2 ELSE IF c = "bom" THEN 3 ELSE 1]
SampleText == <<"a", "e">>

(* A value of a type, and the values that differ from it in one place. *)

RECURSIVE Sample(_), Others(_, _)
Sample(type) ==
  CASE type.tag = "word" -> 0
    [] type.tag = "bool" -> FALSE
    [] type.tag = "str" -> SampleText
    [] type.tag = "enum" -> type.of[1]
    [] type.tag = "option" -> <<Sample(type.of)>>
    [] type.tag = "list" -> <<Sample(type.of)>>
    [] type.tag = "ordered" -> Span(0, 0)
    [] type.tag = "rec" -> FoldLeft(LAMBDA rec, f : rec @@ (f.name :> Sample(f.type)), <<>>, type.of)
    [] type.tag = "absent" -> type.of

Others(type, value) ==
  CASE type.tag = "word" -> IF type.of = "i64" THEN {value - 1, value + 1} ELSE {value + 1}
    [] type.tag = "bool" -> {~value}
    [] type.tag = "str" -> {<<>>, <<"e", "a">>, <<"a", "e", "e", "a">>, <<"bom", "a">>, <<"a", "bom">>, <<"bom">>}
    [] type.tag = "enum" -> Range(type.of) \ {value}
    [] type.tag = "option" -> {<<>>} \cup {<<v>> : v \in Others(type.of, value[1])}
    [] type.tag = "list" ->
         {<<>>, <<value[1], value[1]>>, <<value[1], value[1], value[1]>>} \cup {<<v>> : v \in Others(type.of, value[1])}
    [] type.tag = "ordered" -> {Span(0, 1), Span(1, 0)}
    [] type.tag = "rec" ->
         UNION {{[value EXCEPT ![type.of[i].name] = v] : v \in Others(type.of[i].type, value[type.of[i].name])} : i \in DOMAIN type.of}
    [] type.tag = "absent" -> {}

PageType == WriteModernPage(3)
SamplePage ==
  [Sample(PageType) EXCEPT !.paragraphs[1].text_range = Span(0, 3), !.text_paints[1].line_count = 1,
                           !.paragraphs[1].lines[1].metrics.range = Span(0, 3),
                           !.text_paints[1].visible = Span(0, 3)]
RequestType == WriteRequest(3)
SampleRequest == [Sample(RequestType) EXCEPT !.text_range = Span(0, 3)]
MeasuredType == WriteMeasured(3)
SampleMeasured == [Sample(MeasuredType) EXCEPT !.line_count = 1]

(* Pages whose paragraph is broken into lines and shown in parts. *)

LongText == <<"a", "e", "a">>
LineFrom(start, end) == [SamplePage.paragraphs[1].lines[1] EXCEPT !.metrics.range = Span(start, end), !.layout.y = start]
Shown(id, first, count, start, end) ==
  [SamplePage.text_paints[1] EXCEPT !.id = id, !.first_line = first, !.line_count = count, !.visible = Span(start, end)]
BrokenInto(paints) ==
  [SamplePage EXCEPT !.paragraphs[1].text = LongText, !.paragraphs[1].text_range = Span(0, 4),
                     !.paragraphs[1].lines = <<LineFrom(0, 1), LineFrom(1, 4)>>, !.text_paints = paints]
BrokenPages ==
  {BrokenInto(paints) : paints \in {<<Shown(0, 0, 2, 0, 4)>>, <<Shown(7, 1, 1, 1, 4)>>, <<Shown(3, 0, 1, 0, 1), Shown(1, 1, 1, 1, 3)>>,
                                <<Shown(0, 0, 2, 0, 3)>>, <<Shown(0, 0, 3, 0, 3)>>, <<Shown(0, 1, 0, 1, 3)>>}}

PageBatchOf(pages) == [items |-> pages]
MeasuredBatchOf(results) == [backend |-> 1, fonts |-> 2, items |-> results]
Message(kind, version, writer, batch, fragile) ==
  [kind |-> kind, version |-> version, writer |-> writer, batch |-> batch, fragile |-> fragile]

Batches(kind) ==
  CASE kind = "page" -> {PageBatchOf(<<p>>) : p \in Others(PageType, SamplePage) \cup BrokenPages}
                          \cup {PageBatchOf(<<>>), PageBatchOf(<<SamplePage, SamplePage>>)}
    [] kind = "measure" -> {PageBatchOf(<<r>>) : r \in Others(RequestType, SampleRequest)}
                             \cup {PageBatchOf(<<SampleRequest, SampleRequest>>),
                                   PageBatchOf(<<SampleRequest, [SampleRequest EXCEPT !.id = 1]>>)}
    [] kind = "measured" -> {MeasuredBatchOf(<<m>>) : m \in Others(MeasuredType, SampleMeasured)}
Samples(kind) ==
  CASE kind = "page" -> PageBatchOf(<<SamplePage>>)
    [] kind = "measure" -> PageBatchOf(<<SampleRequest>>)
    [] kind = "measured" -> MeasuredBatchOf(<<SampleMeasured>>)

MCMessages ==
  UNION {{Message(kind, version, writer, batch, FALSE) : version \in 1..3, writer \in {"rust", "foreign"}, batch \in Batches(kind)}
         \cup {Message(kind, version, "rust", Samples(kind), TRUE) : version \in 1..4} : kind \in Kinds}
  \cup {Message("measured", version, "dart", batch, FALSE) :
          version \in 1..3, batch \in {b \in Batches("measured") : \A i \in DOMAIN b.items : LinesCounted(b.items[i])}}

MCDamages == {"cut", "magic", "version", "kind", "length", "short", "field"}
=============================================================================
