----------------------------- MODULE SceneWire -----------------------------
(***************************************************************************)
(* The three messages that cross between Rust and Dart: pages, requests to   *)
(* measure text, and measured text.  Rust (crates/pagelet/src/wire.rs)       *)
(* writes and reads all three; page_scene_decoder.dart reads pages, and      *)
(* text_measure_bridge.dart reads requests and writes measured text.  Each   *)
(* side says for itself which fields there are: the tables below are the     *)
(* Rust writer's, the Rust reader's and the Dart readers', one after         *)
(* another.  Fields that Dart reads and drops are kept here under their      *)
(* names, so that they can be compared.                                      *)
(***************************************************************************)
EXTENDS WireCodec

CONSTANTS
  Messages,   \* the messages that are sent: [kind, items, version, writer]
  Damages     \* what may happen to a payload on its way

VARIABLE wire   \* the message and how far it has come

Current == 3   \* CURRENT_SCHEMA_VERSION

-----------------------------------------------------------------------------
(* Names of the enumerations, in the order of their discriminants in Rust... *)

TextDirection == <<"Auto", "Ltr", "Rtl">>
FontStyle == <<"Normal", "Italic", "Oblique">>
HeightBehavior == <<"Natural", "IncludeStrut", "Tight">>
TextAffinity == <<"Upstream", "Downstream">>
FragmentKind == <<"TextLine", "Marker", "Image", "Divider", "BackgroundBorder", "DebugOverlay", "UnsupportedPlaceholder">>
LinkKind == <<"Internal", "External", "Resource", "Footnote", "Unknown">>
DiagnosticCode == <<"Io", "InvalidContainer", "InvalidPackage", "UnsupportedFeature", "ResourceLimitExceeded",
                    "Parse", "Layout", "Cancelled", "Protocol", "Internal">>
Severity == <<"Info", "Warning", "Error">>

(* ... and in the order in which Dart declares them: the bridge the first   *)
(* three, the page decoder the others.                                       *)

BridgeDirection == <<"Auto", "Ltr", "Rtl">>
BridgeFontStyle == <<"Normal", "Italic", "Oblique">>
BridgeHeightBehavior == <<"Natural", "IncludeStrut", "Tight">>
DartAffinity == <<"Upstream", "Downstream">>
DartFragmentKind == <<"TextLine", "Marker", "Image", "Divider", "BackgroundBorder", "DebugOverlay", "UnsupportedPlaceholder">>
DartLinkKind == <<"Internal", "External", "Resource", "Footnote", "Unknown">>
DartDiagnosticCode == <<"Io", "InvalidContainer", "InvalidPackage", "UnsupportedFeature", "ResourceLimitExceeded",
                        "Parse", "Layout", "Cancelled", "Protocol", "Internal">>
DartSeverity == <<"Info", "Warning", "Error">>

-----------------------------------------------------------------------------
(* What Rust writes *)

TextSpan == Rec(Each(<<"start", "end">>, U32))
WriteRect == Rec(Each(<<"x", "y", "width", "height">>, Unit))
WriteAnchor == Rec(Each(<<"document", "node", "offset">>, U32) \o <<Field("affinity", EnumOf(TextAffinity))>>)
WriteAnchorRange == Rec(Each(<<"start", "end">>, WriteAnchor))
WriteFont == Rec(<<Field("font_id", Option(U32)), Field("family", Str), Field("weight", U16),
  Field("style", EnumOf(FontStyle)), Field("stretch", U16), Field("fingerprint", U64)>>)
WriteChain == <<Field("primary", WriteFont), Field("fallbacks", ListOf(WriteFont))>>
WriteStyleRun(version) ==
  Rec(<<Field("range", Ordered), Field("font_size", Unit),
        Field("letter_spacing", IF version = 1 THEN NotCarried(0) ELSE Unit), Field("fonts", Rec(WriteChain))>>)
WriteMetrics(version) ==
  <<Field("range", TextSpan)>> \o Each(<<"baseline", "ascent", "descent", "line_height", "width">>, Unit)
  \o <<Field("ink", IF version = 1 THEN NotCarried(<<>>) ELSE WriteRect), Field("hard_break", Bool)>>
WriteCluster ==
  Rec(<<Field("range", TextSpan), Field("line_index", U32), Field("x_start", Unit), Field("x_end", Unit)>>)
WriteStrut == Each(<<"strut_ascent", "strut_descent", "strut_leading">>, Unit)

WriteParagraph ==
  Rec(<<Field("id", U32), Field("request", U64), Field("measurement", U64), Field("text", Str),
        Field("text_range", TextSpan), Field("style_runs", ListOf(WriteStyleRun(2)))>>
      \o Each(<<"font_size", "available_width", "max_width">>, Unit)
      \o <<Field("locale", Str), Field("direction", EnumOf(TextDirection)), Field("text_scale", Unit),
           Field("fonts", Rec(WriteChain))>> \o WriteStrut
      \o <<Field("height_behavior", EnumOf(HeightBehavior)),
           Field("lines", ListOf(Rec(<<Field("metrics", Rec(WriteMetrics(2))), Field("layout", WriteRect), Field("ink", WriteRect)>>))),
           Field("clusters", ListOf(WriteCluster))>>)
WriteTextPaint ==
  Rec(Each(<<"id", "node", "paragraph">>, U32)
      \o <<Field("visible", TextSpan), Field("origin", Rec(Each(<<"x", "y">>, Unit))),
           Field("layout", WriteRect), Field("clip", WriteRect), Field("first_line", U32), Field("line_count", U32),
           Field("source", Option(Ordered)), Field("anchors", WriteAnchorRange), Field("overflow", Bool)>>)
WriteFragment ==
  Rec(<<Field("id", U32), Field("kind", EnumOf(FragmentKind)), Field("node", U32), Field("rect", WriteRect),
        Field("text", Option(Str)), Field("source", Option(Ordered)), Field("anchors", Option(WriteAnchorRange)),
        Field("line_index", Option(U32)), Field("overflow", Bool)>>)
WriteLink(version) ==
  Rec(<<Field("rect", WriteRect), Field("node", U32), Field("href", Str), Field("document", Option(Str)),
        Field("fragment", Option(Str)), Field("kind", EnumOf(LinkKind)),
        Field("text_range", IF version = Current THEN Option(Ordered) ELSE NotCarried(<<>>))>>)
WriteAnchorRegion == Rec(<<Field("rect", WriteRect), Field("key", Str), Field("node", U32)>>)
WriteSelection == Rec(<<Field("node", U32), Field("range", Ordered), Field("rects", ListOf(WriteRect))>>)
WriteSemantic == Rec(<<Field("node", U32), Field("rect", WriteRect), Field("role", Str), Field("label", Str)>>)
WriteBreakToken ==
  Rec(Each(<<"node", "child_index", "text_offset">>, U32) \o <<Field("continuation", Bool), Field("page_index", U32),
      Field("content", Hash)>> \o Each(<<"config", "backend", "fonts">>, U64))
WriteDiagnostic ==
  Rec(<<Field("code", EnumOf(DiagnosticCode)), Field("severity", EnumOf(Severity)), Field("message", Str),
        Field("resource", Option(U32)), Field("source", Option(Ordered))>>)

\* What every version of a page begins with, and what it ends with.
WriteHead ==
  <<Field("page_index", U32), Field("size", Rec(Each(<<"width", "height">>, Unit))),
    Field("start_anchor", Option(WriteAnchor)), Field("end_anchor", Option(WriteAnchor))>>
WriteTail(version) ==
  <<Field("fragments", ListOf(WriteFragment)), Field("links", ListOf(WriteLink(version))),
    Field("anchors", ListOf(WriteAnchorRegion)), Field("selections", ListOf(WriteSelection)),
    Field("semantics", ListOf(WriteSemantic)), Field("fingerprint", Hash),
    Field("next", Option(WriteBreakToken)), Field("diagnostics", ListOf(WriteDiagnostic))>>
WriteModernPage(version) ==
  Rec(WriteHead \o <<Field("backend", U64), Field("fonts", U64), Field("paragraphs", ListOf(WriteParagraph)),
                     Field("text_paints", ListOf(WriteTextPaint))>> \o WriteTail(version))
WriteLegacyPage == Rec(WriteHead \o WriteTail(1))

WriteRequest(version) ==
  Rec(<<Field("id", U32), Field("paragraph", U32), Field("text", Str), Field("text_range", TextSpan),
        Field("style_runs", ListOf(WriteStyleRun(version)))>>
      \o Each(<<"font_size", "max_width", "available_width">>, Unit)
      \o <<Field("locale", Str), Field("direction", EnumOf(TextDirection)), Field("text_scale", Unit),
           Field("fonts", Rec(WriteChain))>> \o WriteStrut
      \o <<Field("height_behavior", EnumOf(HeightBehavior)), Field("request", U64)>>)
WriteMeasured(version) ==
  Rec(<<Field("id", U32), Field("request", U64), Field("width", Unit), Field("height", Unit),
        Field("line_count", U32), Field("utf8_len", U32), Field("lines", ListOf(Rec(WriteMetrics(version)))),
        Field("clusters", ListOf(WriteCluster)), Field("measurement", U64)>>)

-----------------------------------------------------------------------------
(* What Rust reads *)

ReadRect == Rec(Each(<<"x", "y", "width", "height">>, Unit))
ReadAnchor == Rec(Each(<<"document", "node", "offset">>, U32) \o <<Field("affinity", EnumOf(TextAffinity))>>)
ReadAnchorRange == Rec(<<Field("start", ReadAnchor), Field("end", ReadAnchor)>>)
ReadFont == Rec(<<Field("font_id", Option(U32)), Field("family", Str), Field("weight", U16),
  Field("style", EnumOf(FontStyle)), Field("stretch", U16), Field("fingerprint", U64)>>)
ReadChain == Rec(<<Field("primary", ReadFont), Field("fallbacks", ListOf(ReadFont))>>)
ReadStyleRun(version) ==
  Rec(<<Field("range", Ordered), Field("font_size", Unit),
        Field("letter_spacing", IF version = 1 THEN NotCarried(0) ELSE Unit), Field("fonts", ReadChain)>>)
ReadMetrics(version) ==
  Rec(<<Field("range", TextSpan), Field("baseline", Unit), Field("ascent", Unit), Field("descent", Unit),
        Field("line_height", Unit), Field("width", Unit),
        Field("ink", IF version = 1 THEN NotCarried(<<>>) ELSE ReadRect), Field("hard_break", Bool)>>)
ReadCluster ==
  Rec(<<Field("range", TextSpan), Field("line_index", U32), Field("x_start", Unit), Field("x_end", Unit)>>)
ReadStrut == <<Field("strut_ascent", Unit), Field("strut_descent", Unit), Field("strut_leading", Unit)>>

ReadParagraph ==
  Rec(<<Field("id", U32), Field("request", U64), Field("measurement", U64), Field("text", Str),
        Field("text_range", TextSpan), Field("style_runs", ListOf(ReadStyleRun(2))),
        Field("font_size", Unit), Field("available_width", Unit), Field("max_width", Unit),
        Field("locale", Str), Field("direction", EnumOf(TextDirection)), Field("text_scale", Unit), Field("fonts", ReadChain)>>
      \o ReadStrut
      \o <<Field("height_behavior", EnumOf(HeightBehavior)),
           Field("lines", ListOf(Rec(<<Field("metrics", ReadMetrics(2)), Field("layout", ReadRect), Field("ink", ReadRect)>>))),
           Field("clusters", ListOf(ReadCluster))>>)
ReadTextPaint ==
  Rec(<<Field("id", U32), Field("node", U32), Field("paragraph", U32), Field("visible", TextSpan),
        Field("origin", Rec(<<Field("x", Unit), Field("y", Unit)>>)), Field("layout", ReadRect), Field("clip", ReadRect),
        Field("first_line", U32), Field("line_count", U32), Field("source", Option(Ordered)),
        Field("anchors", ReadAnchorRange), Field("overflow", Bool)>>)
ReadFragment ==
  Rec(<<Field("id", U32), Field("kind", EnumOf(FragmentKind)), Field("node", U32), Field("rect", ReadRect),
        Field("text", Option(Str)), Field("source", Option(Ordered)), Field("anchors", Option(ReadAnchorRange)),
        Field("line_index", Option(U32)), Field("overflow", Bool)>>)
ReadLink(version) ==
  Rec(<<Field("rect", ReadRect), Field("node", U32), Field("href", Str), Field("document", Option(Str)),
        Field("fragment", Option(Str)), Field("kind", EnumOf(LinkKind)),
        Field("text_range", IF version = Current THEN Option(Ordered) ELSE NotCarried(<<>>))>>)
ReadAnchorRegion == Rec(<<Field("rect", ReadRect), Field("key", Str), Field("node", U32)>>)
ReadSelection == Rec(<<Field("node", U32), Field("range", Ordered), Field("rects", ListOf(ReadRect))>>)
ReadSemantic == Rec(<<Field("node", U32), Field("rect", ReadRect), Field("role", Str), Field("label", Str)>>)
ReadBreakToken ==
  Rec(<<Field("node", U32), Field("child_index", U32), Field("text_offset", U32), Field("continuation", Bool),
        Field("page_index", U32), Field("content", Hash), Field("config", U64), Field("backend", U64), Field("fonts", U64)>>)
ReadDiagnostic ==
  Rec(<<Field("code", EnumOf(DiagnosticCode)), Field("severity", EnumOf(Severity)), Field("message", Str),
        Field("resource", Option(U32)), Field("source", Option(Ordered))>>)

ReadHead ==
  <<Field("page_index", U32), Field("size", Rec(<<Field("width", Unit), Field("height", Unit)>>)),
    Field("start_anchor", Option(ReadAnchor)), Field("end_anchor", Option(ReadAnchor))>>
ReadTail(version) ==
  <<Field("fragments", ListOf(ReadFragment)), Field("links", ListOf(ReadLink(version))),
    Field("anchors", ListOf(ReadAnchorRegion)), Field("selections", ListOf(ReadSelection)),
    Field("semantics", ListOf(ReadSemantic)), Field("fingerprint", Hash),
    Field("next", Option(ReadBreakToken)), Field("diagnostics", ListOf(ReadDiagnostic))>>
ReadModernPage(version) ==
  Rec(ReadHead \o <<Field("backend", U64), Field("fonts", U64), Field("paragraphs", ListOf(ReadParagraph)),
                    Field("text_paints", ListOf(ReadTextPaint))>> \o ReadTail(version))
ReadLegacyPage ==
  Rec(ReadHead \o <<Field("backend", NotCarried(0)), Field("fonts", NotCarried(0)), Field("paragraphs", NotCarried(<<>>)),
                    Field("text_paints", NotCarried(<<>>))>> \o ReadTail(1))
ReadRequest(version) ==
  Rec(<<Field("id", U32), Field("paragraph", U32), Field("text", Str), Field("text_range", TextSpan),
        Field("style_runs", ListOf(ReadStyleRun(version))), Field("font_size", Unit), Field("max_width", Unit),
        Field("available_width", Unit), Field("locale", Str), Field("direction", EnumOf(TextDirection)),
        Field("text_scale", Unit), Field("fonts", ReadChain)>> \o ReadStrut
      \o <<Field("height_behavior", EnumOf(HeightBehavior)), Field("request", U64)>>)
ReadMeasured(version) ==
  Rec(<<Field("id", U32), Field("request", U64), Field("width", Unit), Field("height", Unit),
        Field("line_count", U32), Field("utf8_len", U32), Field("lines", ListOf(ReadMetrics(version))),
        Field("clusters", ListOf(ReadCluster)), Field("measurement", U64)>>)

-----------------------------------------------------------------------------
(* What Dart reads, and the measured text that it writes *)

DartRect == Rec(Each(<<"x", "y", "width", "height">>, Unit))
DartAnchor == Rec(Each(<<"document", "node", "offset">>, U32) \o <<Field("affinity", EnumOf(DartAffinity))>>)
DartAnchorRange == Rec(Each(<<"start", "end">>, DartAnchor))
\* Of these enumerations the page decoder only counts the values.
DartFont == Rec(<<Field("font_id", Option(U32)), Field("family", DartStr), Field("weight", U16),
  Field("style", EnumOf(FontStyle)), Field("stretch", U16), Field("fingerprint", U64)>>)
DartChain == Rec(<<Field("primary", DartFont), Field("fallbacks", ListOf(DartFont))>>)
DartLine ==
  Rec(<<Field("metrics", Rec(<<Field("range", Ordered)>>
          \o Each(<<"baseline", "ascent", "descent", "line_height", "width">>, Unit)
          \o <<Field("ink", DartRect), Field("hard_break", Bool)>>)),
        Field("layout", DartRect), Field("ink", DartRect)>>)
DartParagraph ==
  Rec(<<Field("id", U32), Field("request", U64), Field("measurement", U64), Field("text", DartStr), Field("text_range", Ordered),
        Field("style_runs", ListOf(Rec(<<Field("range", Ordered), Field("font_size", Unit),
                                         Field("letter_spacing", Unit), Field("fonts", DartChain)>>)))>>
      \o Each(<<"font_size", "available_width", "max_width">>, Unit)
      \o <<Field("locale", DartStr), Field("direction", EnumOf(TextDirection)), Field("text_scale", Unit), Field("fonts", DartChain)>>
      \o Each(<<"strut_ascent", "strut_descent", "strut_leading">>, Unit)
      \o <<Field("height_behavior", EnumOf(HeightBehavior)), Field("lines", ListOf(DartLine)),
           Field("clusters", ListOf(Rec(<<Field("range", Ordered), Field("line_index", U32), Field("x_start", Unit), Field("x_end", Unit)>>)))>>)
\* Reads the clip first, as a mutant.
DartTextPaintClipFirst ==
  Rec(Each(<<"id", "node", "paragraph">>, U32)
      \o <<Field("visible", Ordered), Field("origin", Rec(Each(<<"x", "y">>, Unit))),
           Field("clip", DartRect), Field("layout", DartRect), Field("first_line", U32), Field("line_count", U32),
           Field("source", Option(Ordered)), Field("anchors", DartAnchorRange), Field("overflow", Bool)>>)
DartTextPaint ==
  Rec(Each(<<"id", "node", "paragraph">>, U32)
      \o <<Field("visible", Ordered), Field("origin", Rec(Each(<<"x", "y">>, Unit))),
           Field("layout", DartRect), Field("clip", DartRect), Field("first_line", U32), Field("line_count", U32),
           Field("source", Option(Ordered)), Field("anchors", DartAnchorRange), Field("overflow", Bool)>>)
DartFragment ==
  Rec(<<Field("id", U32), Field("kind", EnumOf(DartFragmentKind)), Field("node", U32), Field("rect", DartRect),
        Field("text", Option(DartStr)), Field("source", Option(Ordered)), Field("anchors", Option(DartAnchorRange)),
        Field("line_index", Option(U32)), Field("overflow", Bool)>>)
DartLink(version) ==
  Rec(<<Field("rect", DartRect), Field("node", U32), Field("href", DartStr), Field("document", Option(DartStr)),
        Field("fragment", Option(DartStr)), Field("kind", EnumOf(DartLinkKind)),
        Field("text_range", IF version = 3 THEN Option(Ordered) ELSE NotCarried(<<>>))>>)
DartAnchorRegion == Rec(<<Field("rect", DartRect), Field("key", DartStr), Field("node", U32)>>)
DartSelection == Rec(<<Field("node", U32), Field("range", Ordered), Field("rects", ListOf(DartRect))>>)
DartSemantic == Rec(<<Field("node", U32), Field("rect", DartRect), Field("role", DartStr), Field("label", DartStr)>>)
DartBreakToken ==
  Rec(Each(<<"node", "child_index", "text_offset">>, U32) \o <<Field("continuation", Bool), Field("page_index", U32),
      Field("content", Hash)>> \o Each(<<"config", "backend", "fonts">>, U64))
DartDiagnostic ==
  Rec(<<Field("code", EnumOf(DartDiagnosticCode)), Field("severity", EnumOf(DartSeverity)), Field("message", DartStr),
        Field("resource", Option(U32)), Field("source", Option(Ordered))>>)
DartHead ==
  <<Field("page_index", U32), Field("size", Rec(Each(<<"width", "height">>, Unit))),
    Field("start_anchor", Option(DartAnchor)), Field("end_anchor", Option(DartAnchor))>>
DartTail(version) ==
  <<Field("fragments", ListOf(DartFragment)), Field("links", ListOf(DartLink(version))),
    Field("anchors", ListOf(DartAnchorRegion)), Field("selections", ListOf(DartSelection)),
    Field("semantics", ListOf(DartSemantic)), Field("fingerprint", Hash),
    Field("next", Option(DartBreakToken)), Field("diagnostics", ListOf(DartDiagnostic))>>
DartModernPage(version) ==
  Rec(DartHead \o <<Field("backend", U64), Field("fonts", U64), Field("paragraphs", ListOf(DartParagraph)),
                    Field("text_paints", ListOf(DartTextPaint))>> \o DartTail(version))
DartLegacyPage ==
  Rec(DartHead \o <<Field("backend", NotCarried(0)), Field("fonts", NotCarried(0)), Field("paragraphs", NotCarried(<<>>)),
                    Field("text_paints", NotCarried(<<>>))>> \o DartTail(1))
BridgeFont == Rec(<<Field("font_id", Option(U32)), Field("family", DartStr), Field("weight", U16),
  Field("style", EnumOf(BridgeFontStyle)), Field("stretch", U16), Field("fingerprint", U64)>>)
BridgeChain == Rec(<<Field("primary", BridgeFont), Field("fallbacks", ListOf(BridgeFont))>>)
BridgeRequest(version) ==
  Rec(<<Field("id", U32), Field("paragraph", U32), Field("text", DartStr), Field("text_range", TextSpan),
        Field("style_runs", ListOf(Rec(<<Field("range", TextSpan), Field("font_size", Unit),
          Field("letter_spacing", IF version = 1 THEN NotCarried(0) ELSE Unit), Field("fonts", BridgeChain)>>)))>>
      \o Each(<<"font_size", "max_width", "available_width">>, Unit)
      \o <<Field("locale", DartStr), Field("direction", EnumOf(BridgeDirection)), Field("text_scale", Unit), Field("fonts", BridgeChain)>>
      \o Each(<<"strut_ascent", "strut_descent", "strut_leading">>, Unit)
      \o <<Field("height_behavior", EnumOf(BridgeHeightBehavior)), Field("request", U64)>>)
BridgeRect == Rec(Each(<<"x", "y", "width", "height">>, Unit))
BridgeMeasured(version) ==
  Rec(<<Field("id", U32), Field("request", U64), Field("width", Unit), Field("height", Unit),
        Field("line_count", U32), Field("utf8_len", U32),
        Field("lines", ListOf(Rec(<<Field("range", TextSpan)>>
          \o Each(<<"baseline", "ascent", "descent", "line_height", "width">>, Unit)
          \o <<Field("ink", IF version = 1 THEN NotCarried(<<>>) ELSE BridgeRect), Field("hard_break", Bool)>>))),
        Field("clusters", ListOf(Rec(<<Field("range", TextSpan), Field("line_index", U32), Field("x_start", Unit), Field("x_end", Unit)>>))),
        Field("measurement", U64)>>)

-----------------------------------------------------------------------------
(* What each side insists on, beyond the fields themselves *)

TextsIn(text, range, outer) == ValidUtf8Range(text, range) /\ Inside(range, outer)
NoneNegative(numbers) == \A n \in numbers : n >= 0

ValidParagraph(p) ==
  /\ ValidUtf8Range(p.text, p.text_range)
  /\ \A i \in DOMAIN p.style_runs : TextsIn(p.text, p.style_runs[i].range, p.text_range)
  /\ \A l \in Range(p.lines) :
       /\ TextsIn(p.text, l.metrics.range, p.text_range)
       /\ NoneNegative({l.metrics.width, l.metrics.baseline, l.metrics.ascent, l.metrics.descent, l.metrics.line_height,
                        l.metrics.ink.width, l.metrics.ink.height, l.layout.width, l.layout.height, l.ink.width, l.ink.height})
  /\ \A c \in Range(p.clusters) :
       /\ TextsIn(p.text, c.range, p.text_range)
       /\ c.x_start <= c.x_end /\ c.line_index < Len(p.lines)

ParagraphOf(page, paint) == SelectSeq(page.paragraphs, LAMBDA p : p.id = paint.paragraph)

\* Accepts any line number, as a mutant.
ValidPaintAnyLine(paint, p) ==
  TextsIn(p.text, paint.visible, p.text_range) /\ paint.line_count # 0
ValidPaint(paint, p) ==
  /\ TextsIn(p.text, paint.visible, p.text_range)
  /\ NoneNegative({paint.layout.width, paint.layout.height, paint.clip.width, paint.clip.height})
  /\ paint.line_count # 0 /\ paint.first_line + paint.line_count <= Len(p.lines)

ValidatePageTextTables(page) ==
  /\ \A i, j \in DOMAIN page.paragraphs : page.paragraphs[i].id = page.paragraphs[j].id => i = j
  /\ \A p \in Range(page.paragraphs) : ValidParagraph(p)
  /\ \A paint \in Range(page.text_paints) :
       ParagraphOf(page, paint) # <<>> /\ ValidPaint(paint, ParagraphOf(page, paint)[1])

ValidateRequestRanges(request) ==
  /\ ValidUtf8Range(request.text, request.text_range)
  /\ \A run \in Range(request.style_runs) : TextsIn(request.text, run.range, request.text_range)

LinesCounted(measured) == measured.line_count = Len(measured.lines)

RustAccepts(kind, version, item) ==
  CASE kind = "page" -> version = 1 \/ ValidatePageTextTables(item)
    [] kind = "measure" -> ValidateRequestRanges(item)
    [] kind = "measured" -> LinesCounted(item)

DartParagraphAccepts(p) ==
  /\ ValidUtf8Range(p.text, p.text_range)
  /\ \A run \in Range(p.style_runs) : TextsIn(p.text, run.range, p.text_range)
  /\ \A c \in Range(p.clusters) : ValidUtf8Range(p.text, c.range) /\ (c.line_index < Len(p.lines) \/ p.lines = <<>>)
DartPageAccepts(page) ==
  /\ \A i, j \in DOMAIN page.paragraphs : page.paragraphs[i].id = page.paragraphs[j].id => i = j
  /\ \A p \in Range(page.paragraphs) : DartParagraphAccepts(p)
  /\ \A paint \in Range(page.text_paints) :
       /\ ParagraphOf(page, paint) # <<>>
       /\ ValidUtf8Range(ParagraphOf(page, paint)[1].text, paint.visible)
       /\ paint.first_line + paint.line_count <= Len(ParagraphOf(page, paint)[1].lines)
\* Runs may not overlap and must come in order.
BridgeRequestAccepts(request) ==
  /\ ValidUtf8Range(request.text, request.text_range)
  /\ \A i \in DOMAIN request.style_runs :
       /\ TextsIn(request.text, request.style_runs[i].range, request.text_range)
       /\ i > 1 => request.style_runs[i - 1].range.end <= request.style_runs[i].range.start
DistinctRequests(requests) == \A i, j \in DOMAIN requests : requests[i].id = requests[j].id => i = j

-----------------------------------------------------------------------------
(* The first version has no paragraphs: each line of a painted paragraph     *)
(* becomes a fragment of its own, before the page's other fragments.         *)

\* Counts the fragments only, as a mutant.
NextFragmentIdOfFragments(page) == 1 + Max({0} \cup {f.id : f \in Range(page.fragments)})
NextFragmentId(page) ==
  1 + Max({0} \cup {f.id : f \in Range(page.fragments)} \cup {paint.id : paint \in Range(page.text_paints)})

LegacyAnchor(paint, offset, affinity) ==
  [document |-> paint.anchors.start.document, node |-> paint.node, offset |-> offset, affinity |-> affinity]

LegacyLine(paint, text, line, index, shown) ==
  [kind |-> "TextLine", node |-> paint.node,
   rect |-> [line.layout EXCEPT !.x = @ + paint.origin.x, !.y = @ + paint.origin.y],
   text |-> SliceUtf8(text, shown), source |-> paint.source,
   anchors |-> <<[start |-> LegacyAnchor(paint, shown.start, "Downstream"),
                  end |-> LegacyAnchor(paint, shown.end, "Upstream")]>>,
   line_index |-> <<index>>, overflow |-> paint.overflow]

LinesOfPaint(paint, p) ==
  [i \in 1..Max({0, Min({paint.first_line + paint.line_count, Len(p.lines)}) - paint.first_line}) |->
     LegacyLine(paint, p.text, p.lines[paint.first_line + i], paint.first_line + i - 1,
                Span(Max({p.lines[paint.first_line + i].metrics.range.start, paint.visible.start}),
                     Min({p.lines[paint.first_line + i].metrics.range.end, paint.visible.end})))]

ProjectedLines(page) ==
  FlattenSeq([k \in DOMAIN page.text_paints |->
    IF ParagraphOf(page, page.text_paints[k]) = <<>> THEN <<>>
    ELSE LinesOfPaint(page.text_paints[k], ParagraphOf(page, page.text_paints[k])[1])])

Numbered(lines, first) == [i \in DOMAIN lines |-> lines[i] @@ ("id" :> (first + i - 1))]
LegacyTextFragments(page) == Numbered(ProjectedLines(page), NextFragmentId(page))

LegacyPage(page) == [page EXCEPT !.fragments = LegacyTextFragments(page) \o @]

\* The ink of a line that was sent without one is its box.
LegacyInk(measured) ==
  [measured EXCEPT !.lines = [i \in DOMAIN @ |->
    [@[i] EXCEPT !.ink = [x |-> 0, y |-> 0, width |-> measured.lines[i].width, height |-> measured.lines[i].line_height]]]]

-----------------------------------------------------------------------------
(* Batches *)

BatchOf(kind, type) ==
  Rec((IF kind = "measured" THEN <<Field("backend", U64), Field("fonts", U64)>> ELSE <<>>)
      \o <<Field("items", ListOf(type))>>)

WriteType(kind, version) ==
  CASE kind = "page" -> IF version = 1 THEN WriteLegacyPage ELSE WriteModernPage(version)
    [] kind = "measure" -> WriteRequest(version)
    [] kind = "measured" -> WriteMeasured(version)
ReadType(kind, version) ==
  CASE kind = "page" -> IF version = 1 THEN ReadLegacyPage ELSE ReadModernPage(version)
    [] kind = "measure" -> ReadRequest(version)
    [] kind = "measured" -> ReadMeasured(version)
DartType(kind, version) ==
  CASE kind = "page" -> IF version = 1 THEN DartLegacyPage ELSE DartModernPage(version)
    [] kind = "measure" -> BridgeRequest(version)
    [] kind = "measured" -> BridgeMeasured(version)

\* What the two Rust conversions do to an item besides moving its fields.
Lowered(kind, version, item) == IF kind = "page" /\ version = 1 THEN LegacyPage(item) ELSE item
Raised(kind, version, item) == IF kind = "measured" /\ version = 1 THEN LegacyInk(item) ELSE item

RustPayload(kind, version, batch) ==
  Encode(BatchOf(kind, WriteType(kind, version)),
         [batch EXCEPT !.items = [i \in DOMAIN @ |-> Lowered(kind, version, @[i])]])
\* Dart has no count of its own: it writes the number of its lines.
DartPayload(version, batch) ==
  Encode(BatchOf("measured", DartType("measured", version)),
         [batch EXCEPT !.items = [i \in DOMAIN @ |-> [@[i] EXCEPT !.line_count = Len(batch.items[i].lines)]]])

Read(ok, value) == [ok |-> ok, value |-> value]
NotRead == Read(FALSE, <<>>)

RustChecked(kind, version, read) ==
  IF read.ok /\ \A i \in DOMAIN read.value.items : RustAccepts(kind, version, read.value.items[i])
  THEN Read(TRUE, [read.value EXCEPT !.items = [i \in DOMAIN @ |-> Raised(kind, version, @[i])]])
  ELSE NotRead
RustDecode(kind, bytes) ==
  IF DecodeEnvelope(bytes, kind)
  THEN RustChecked(kind, bytes.version, DecodeAll(BatchOf(kind, ReadType(kind, bytes.version)), bytes.payload))
  ELSE NotRead

DartAccepts(kind, items) ==
  CASE kind = "page" -> \A page \in Range(items) : DartPageAccepts(page)
    [] kind = "measure" -> DistinctRequests(items) /\ \A request \in Range(items) : BridgeRequestAccepts(request)
\* The two Dart decoders check their envelopes themselves.
DartDecodeEnvelope(bytes) ==
  /\ bytes.complete /\ bytes.magic /\ bytes.version \in 1..Current /\ bytes.kind = "page"
  /\ bytes.declared <= MaxPayload /\ Len(bytes.payload) = bytes.declared /\ bytes.payload = bytes.checksum
BridgeDecodeEnvelope(bytes, expectedKind) ==
  /\ bytes.complete /\ bytes.magic /\ bytes.version \in 1..Current /\ bytes.kind = expectedKind
  /\ bytes.declared <= MaxPayload /\ Len(bytes.payload) = bytes.declared /\ bytes.payload = bytes.checksum
DartChecked(kind, read) ==
  IF read.ok /\ DartAccepts(kind, read.value.items) THEN Read(TRUE, read.value) ELSE NotRead
\* The page decoder reads pages and the bridge reads requests; Dart never reads measured text.
DartDecode(kind, bytes) ==
  IF (kind = "page" /\ DartDecodeEnvelope(bytes)) \/ (kind = "measure" /\ BridgeDecodeEnvelope(bytes, kind))
  THEN DartChecked(kind, DecodeAll(BatchOf(kind, DartType(kind, bytes.version)), bytes.payload))
  ELSE NotRead

-----------------------------------------------------------------------------
(* A message on its way *)

\* Either side wraps its payload in the same envelope.
BridgeEncodeEnvelope(version, payload) == EncodeEnvelope("measured", version, payload)
Wrapped(message, payload) ==
  IF message.writer = "dart" THEN BridgeEncodeEnvelope(message.version, payload)
  ELSE EncodeEnvelope(message.kind, message.version, payload)

NoBytes == EncodeEnvelope("page", 0, <<>>)
Ready(message) == [message |-> message, stage |-> "ready", bytes |-> NoBytes, rust |-> NotRead, dart |-> NotRead]
WireInit == \E message \in Messages : wire = Ready(message)

Written(message) ==
  IF message.writer = "dart" THEN DartPayload(message.version, message.batch)
  ELSE RustPayload(message.kind, message.version, message.batch)

\* A foreign writer checks nothing; the Rust encoders check what they write.
Sendable(message, payload) ==
  /\ Encodable(message.version, payload)
  /\ message.writer = "rust" =>
       \A i \in DOMAIN message.batch.items : RustAccepts(message.kind, message.version, message.batch.items[i])

Post(message, payload) ==
  IF Sendable(message, payload)
  THEN wire' = [wire EXCEPT !.stage = "sent", !.bytes = Wrapped(message, payload)]
  ELSE wire' = [wire EXCEPT !.stage = "refused"]
Send == wire.stage = "ready" /\ Post(wire.message, Written(wire.message))

AlteredCell(cell) ==
  IF cell.width = "str" THEN [cell EXCEPT !.value = Append(@, CHOOSE c \in DOMAIN CharWidth : TRUE)]
  ELSE [cell EXCEPT !.value = @ + 1]

\* What arrives when one thing goes wrong on the way.
Damaged(bytes, damage) ==
  CASE damage = "cut" -> {[bytes EXCEPT !.complete = FALSE]}
    [] damage = "magic" -> {[bytes EXCEPT !.magic = FALSE]}
    [] damage = "version" -> {[bytes EXCEPT !.version = v] : v \in {0, Current + 1}}
    [] damage = "kind" -> {[bytes EXCEPT !.kind = k] : k \in Kinds \ {bytes.kind}}
    [] damage = "length" -> {[bytes EXCEPT !.declared = @ + 1]}
    [] damage = "short" -> {[bytes EXCEPT !.payload = Front(@)]}
    [] damage = "field" -> {[bytes EXCEPT !.payload[i] = AlteredCell(@)] : i \in DOMAIN bytes.payload}

GoWrong(damage) ==
  /\ wire.stage = "sent" /\ wire.message.fragile
  /\ \E bytes \in Damaged(wire.bytes, damage) : wire' = [wire EXCEPT !.stage = "damaged", !.bytes = bytes]

\* Another writer, that puts something else into one field and seals the payload.
WriteOtherwise ==
  /\ wire.stage = "sent" /\ wire.message.fragile
  /\ \E bytes \in Damaged(wire.bytes, "field") :
       wire' = [wire EXCEPT !.stage = "other", !.bytes = [bytes EXCEPT !.checksum = bytes.payload]]

Outcome == [sent |-> "read", other |-> "other read", damaged |-> "misread"]
Receive ==
  /\ wire.stage \in DOMAIN Outcome
  /\ wire' = [wire EXCEPT !.stage = Outcome[@],
                          !.rust = RustDecode(wire.message.kind, wire.bytes),
                          !.dart = DartDecode(wire.message.kind, wire.bytes)]

WireNext == Send \/ (\E damage \in Damages : GoWrong(damage)) \/ WriteOtherwise \/ Receive

-----------------------------------------------------------------------------
(* Properties *)

\* What a version can carry of an item.
Carried(kind, version, item) ==
  CASE version = 3 -> item
    [] kind = "page" /\ version = 2 -> [item EXCEPT !.links = [i \in DOMAIN @ |-> [@[i] EXCEPT !.text_range = <<>>]]]
    [] kind = "page" /\ version = 1 ->
         [LegacyPage(item) EXCEPT !.backend = 0, !.fonts = 0, !.paragraphs = <<>>, !.text_paints = <<>>,
                                  !.links = [i \in DOMAIN @ |-> [@[i] EXCEPT !.text_range = <<>>]]]
    [] kind = "measure" /\ version = 1 ->
         [item EXCEPT !.style_runs = [i \in DOMAIN @ |-> [@[i] EXCEPT !.letter_spacing = 0]]]
    [] kind = "measured" /\ version = 1 -> LegacyInk(item)
    [] OTHER -> item

\* Layout numbers its requests and keeps style runs in order.
Orderly(message) ==
  message.kind = "measure" =>
    /\ DistinctRequests(message.batch.items)
    /\ \A request \in Range(message.batch.items) : BridgeRequestAccepts(request)

\* A payload with a string that begins with a byte order mark, and without such marks.
Marked(payload) == \E i \in DOMAIN payload : payload[i].width = "str" /\ BeginsWithMark(payload[i].value)
Unmarked(payload) ==
  [i \in DOMAIN payload |-> IF payload[i].width = "str" THEN [payload[i] EXCEPT !.value = WithoutMark(@)] ELSE payload[i]]

\* Dart reads what is expected; but strings that begin with a mark lose it, and as ranges
\* count the bytes of the mark, Dart may then refuse the message.
DartReads(expected) ==
  LET message == wire.message IN
  IF ~Marked(wire.bytes.payload) THEN wire.dart = expected
  ELSE wire.dart.ok => RustPayload(message.kind, message.version, wire.dart.value) = Unmarked(wire.bytes.payload)

(* What one side writes the other reads, field for field: a page, a request  *)
(* or a measurement that was accepted by its writer comes out with every     *)
(* field that its version carries, in Rust and in Dart, and both sides write *)
(* measured text alike (wire.rs, page_scene_decoder.dart and                 *)
(* text_measure_bridge.dart each spell the fields out).  The exception is a  *)
(* string that begins with U+FEFF: Dart drops that character (utf8.decode at *)
(* page_scene_decoder.dart:802, text_measure_bridge.dart:1237), and takes in *)
(* the rest unchanged or refuses the message, its ranges being off.          *)
WireAgrees ==
  LET message == wire.message
      carried == [message.batch EXCEPT !.items = [i \in DOMAIN @ |-> Carried(message.kind, message.version, @[i])]]
  IN  wire.stage = "read" /\ message.writer # "foreign" /\ Orderly(message) =>
        /\ message.writer = "dart" =>
             wire.bytes.payload = RustPayload("measured", message.version, message.batch)
        /\ wire.rust = Read(TRUE, carried)
        /\ message.kind # "measured" => DartReads(Read(TRUE, carried))

(* Nothing damaged is taken in, and whatever Rust takes in encodes to the    *)
(* very payload it came from (PageBatch::encode: "a canonical little-endian  *)
(* payload").  A page that the Rust decoder accepts, whoever wrote it, the   *)
(* Dart decoder accepts with the same content.  Only where a string begins   *)
(* with U+FEFF, which Dart drops, may Dart refuse what Rust would show; and  *)
(* what it does accept then differs in nothing but those characters.         *)
ReadersAgree ==
  /\ wire.stage = "misread" => ~wire.rust.ok /\ ~wire.dart.ok
  /\ wire.stage \in {"read", "other read"} /\ wire.rust.ok =>
       /\ RustPayload(wire.message.kind, wire.message.version, wire.rust.value) = wire.bytes.payload
       /\ wire.message.kind = "page" => DartReads(wire.rust)

\* The lines a paint names follow each other and reach over what it shows.
Covers(paint, p) ==
  LET lines == SubSeq(p.lines, paint.first_line + 1, paint.first_line + paint.line_count)
  IN  /\ \A i \in 1..(Len(lines) - 1) : lines[i].metrics.range.end = lines[i + 1].metrics.range.start
      /\ lines # <<>>
      /\ Inside(paint.visible, Span(lines[1].metrics.range.start, Last(lines).metrics.range.end))
      /\ \A line \in Range(lines) :
           Max({line.metrics.range.start, paint.visible.start}) <= Min({line.metrics.range.end, paint.visible.end})

TextOf(fragment) == IF fragment.text = <<>> THEN <<>> ELSE fragment.text[1]

(* A page in the first version still has the text: the fragments that        *)
(* stand in for the paragraphs spell, in order, exactly what the paints       *)
(* show, and none takes the number of another fragment or paint              *)
(* (legacy_text_fragments in wire.rs).                                       *)
LegacyTextKept ==
  wire.stage = "read" /\ wire.message.kind = "page" /\ wire.message.version = 1 /\ wire.message.writer = "rust" =>
    \A k \in DOMAIN wire.rust.value.items :
      LET page == wire.message.batch.items[k]
          shown == wire.rust.value.items[k].fragments
          added == Len(shown) - Len(page.fragments)
          painted(paint) == SliceUtf8(ParagraphOf(page, paint)[1].text, paint.visible)[1]
      IN  ValidatePageTextTables(page)
            /\ (\A paint \in Range(page.text_paints) : Covers(paint, ParagraphOf(page, paint)[1])) =>
          /\ FlattenSeq([i \in 1..added |-> TextOf(shown[i])])
               = FlattenSeq([i \in DOMAIN page.text_paints |-> painted(page.text_paints[i])])
          /\ \A i \in 1..added : \A j \in DOMAIN shown \ {i} : shown[i].id # shown[j].id
          /\ \A i \in 1..added : \A paint \in Range(page.text_paints) : shown[i].id # paint.id
=============================================================================
