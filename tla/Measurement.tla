---------------------------- MODULE Measurement ----------------------------
(***************************************************************************)
(* Measuring a batch of paragraphs: by the deterministic backend of          *)
(* crates/pagelet/src/text.rs, or by Flutter through                         *)
(* packages/pagelet_flutter/lib/src/text_measure_bridge.dart, whose results  *)
(* text.rs validates before layout sees them.  A paragraph measured by       *)
(* Flutter keeps a painter, which somebody has to dispose of.                *)
(*                                                                           *)
(* A position in a text is the number of characters before it; what goes     *)
(* back to Rust counts bytes.  The lines and boxes that Flutter's painter    *)
(* finds are its own choice.                                                 *)
(***************************************************************************)
EXTENDS TextSpans, Places, Functions, FiniteSetsExt, SequencesExt

CONSTANTS
  MeasureBatches,   \* the batches of requests that layout can make
  LF, CR,           \* the two characters that end a line
  Scale             \* LayoutUnit::SCALE

VARIABLE measuring  \* the batch in hand: its requests, what is measured, the painters, the verdict

ASSUME MeasurementAssumption == {LF, CR} \subseteq DOMAIN CharWidth /\ LF # CR /\ Scale \in Nat \ {0}

IsRequest(request) ==
  /\ request.text \in Seq(DOMAIN CharWidth)
  /\ {request.font, request.spacing, request.max_width} \subseteq Int
  /\ {request.strut.ascent, request.strut.descent, request.strut.leading} \subseteq Int

\* A request's fingerprint stands for all of the request.
ASSUME BatchAssumption ==
  /\ \A batch \in MeasureBatches :
       batch \in Seq(Range(batch)) /\ \A request \in Range(batch) : IsRequest(request)
  /\ \A batch, other \in MeasureBatches : \A request \in Range(batch), another \in Range(other) :
       request.fingerprint = another.fingerprint => request = another

-----------------------------------------------------------------------------
(* The text of a request *)

MeasuredPart(request) == SliceUtf8(request.text, request.range)[1]
\* The whole text, when the range is none of the text's.
DefaultPart(request) ==
  IF ValidUtf8Range(request.text, request.range) THEN MeasuredPart(request) ELSE request.text
ByteSpan(text, start, end) == Span(ByteAt(text, start), ByteAt(text, end))

Line(text, start, end, width, metrics, hardBreak) ==
  [range |-> ByteSpan(text, start, end), width |-> width, baseline |-> metrics.baseline, ascent |-> metrics.ascent,
   descent |-> metrics.descent, line_height |-> metrics.line_height,
   ink |-> [x |-> 0, y |-> metrics.top, width |-> width, height |-> metrics.ascent + metrics.descent], hard_break |-> hardBreak]
Cluster(text, start, end, line, left, right) ==
  [range |-> ByteSpan(text, start, end), line_index |-> line, x_start |-> left, x_end |-> right]

Widest(lines) == Max({0} \cup {lines[i].width : i \in DOMAIN lines})
MeasuredText(request, text, lines, clusters, height) ==
  [id |-> request.id, request |-> request.fingerprint, width |-> Widest(lines), height |-> height,
   line_count |-> Len(lines), utf8_len |-> ByteLength(text), lines |-> lines, clusters |-> clusters]

-----------------------------------------------------------------------------
(* measure_deterministic: every character is as wide as any other *)

FontRaw(request) == Max({request.font, Scale})
DefaultAscent(request) ==
  IF request.strutted THEN Max({(FontRaw(request) * 4) \div 5, request.strut.ascent}) ELSE (FontRaw(request) * 4) \div 5
DefaultDescent(request) ==
  IF request.strutted THEN Max({Max({FontRaw(request) \div 5, 1}), request.strut.descent}) ELSE Max({FontRaw(request) \div 5, 1})
DefaultLeading(request) ==
  IF request.strutted THEN Max({Max({FontRaw(request) \div 8, 1}), request.strut.leading}) ELSE Max({FontRaw(request) \div 8, 1})
Advance(request) == Max({Max({FontRaw(request) \div 2, 1}) + request.spacing, 1})
WidthLimit(request) == Max({request.max_width, Advance(request)})

MetricsOf(ascent, descent, leading) ==
  [ascent |-> ascent, descent |-> descent, line_height |-> ascent + descent + leading,
   baseline |-> ascent + leading \div 2, top |-> leading \div 2]
DefaultMetrics(request) == MetricsOf(DefaultAscent(request), DefaultDescent(request), DefaultLeading(request))

\* The pen: the line it is in, where that began, and how far it has come.
Pen == [start |-> 0, width |-> 0, lines |-> <<>>, clusters |-> <<>>]
EndLine(pen, text, metrics, at, hardBreak, next) ==
  [start |-> next, width |-> 0, lines |-> Append(pen.lines, Line(text, pen.start, at, pen.width, metrics, hardBreak)),
   clusters |-> pen.clusters]
Wrap(pen, request, text, at) ==
  IF text[at + 1] # LF /\ pen.width + Advance(request) > WidthLimit(request) /\ at > pen.start
  THEN EndLine(pen, text, DefaultMetrics(request), at, FALSE, at) ELSE pen
Draw(pen, request, text, at) ==
  IF text[at + 1] = LF
  THEN EndLine(pen, text, DefaultMetrics(request), at, TRUE, at + 1)
  ELSE [start |-> pen.start, width |-> pen.width + Advance(request), lines |-> pen.lines,
        clusters |-> Append(pen.clusters,
                            Cluster(text, at, at + 1, Len(pen.lines), pen.width, pen.width + Advance(request)))]
Drawn(request, text) ==
  LET pens[at \in 0..Len(text)] ==
        IF at = 0 THEN Pen ELSE Draw(Wrap(pens[at - 1], request, text, at - 1), request, text, at - 1)
  IN  pens[Len(text)]
LastLine(pen, request, text) ==
  IF pen.start < Len(text) \/ pen.lines = <<>>
  THEN EndLine(pen, text, DefaultMetrics(request), Len(text), FALSE, Len(text)) ELSE pen

DefaultResult(request, text, pen) ==
  MeasuredText(request, text, pen.lines, pen.clusters, DefaultMetrics(request).line_height * Len(pen.lines))
MeasuredByDefault(request, text) == DefaultResult(request, text, LastLine(Drawn(request, text), request, text))
MeasureDeterministic(request) == MeasuredByDefault(request, DefaultPart(request))

-----------------------------------------------------------------------------
(* Flutter's painter (external): hard lines end where the text says so, and  *)
(* any other place may be a soft break.                                      *)

\* _hardBreakLengthAt
HardBreakLength(text, at) ==
  IF at >= Len(text) \/ text[at + 1] \notin {LF, CR} THEN 0
  ELSE IF text[at + 1] = CR /\ at + 1 < Len(text) /\ text[at + 2] = LF THEN 2 ELSE 1

\* No line ends within a hard break, or softly behind one.
LineEnds(text, soft) ==
  {Len(text)} \cup
  {at \in 0..(Len(text) - 1) :
     IF HardBreakLength(text, at) > 0 THEN at = 0 \/ HardBreakLength(text, at - 1) < 2
     ELSE at \in soft \ {0} /\ HardBreakLength(text, at - 1) = 0}
LineStart(text, ends, i) == IF i = 1 THEN 0 ELSE Nth(ends, i - 1) + HardBreakLength(text, Nth(ends, i - 1))
PaintedTo(text, ends) ==
  [i \in 1..Cardinality(ends) |-> [start |-> LineStart(text, ends, i), end |-> Nth(ends, i)]]
PaintedLines(text, soft) == PaintedTo(text, LineEnds(text, soft))
\* An empty text may be painted as one line or as none.
Paintings(text, soft) == {PaintedLines(text, soft)} \cup (IF text = <<>> THEN {<<>>} ELSE {})

\* _flutterDirection: text without a direction has that of its first strong character.
FlutterDirections(direction) == IF direction = "Auto" THEN {"Ltr", "Rtl"} ELSE {direction}

\* Where a character is painted: trailing white space of right-to-left text may lie before the line.
Left(line, at, direction) == IF direction = "Ltr" THEN at - line.start ELSE line.end - 2 - at
PaintedOn(painted, at) == CHOOSE i \in DOMAIN painted : painted[i].start <= at /\ at < painted[i].end

-----------------------------------------------------------------------------
(* What the bridge makes of it *)

LineBoundary(painted, cursor) ==
  CHOOSE i \in DOMAIN painted : painted[i].start <= cursor /\ (i = Len(painted) \/ cursor < painted[i + 1].start)

LineRange(start, end, hardBreak) == [start |-> start, end |-> end, hard_break |-> hardBreak]
\* Begins the next line with the break, as a mutant.
NextRangeAtBreak(acc, text, start, end) ==
  [cursor |-> end, ranges |-> Append(acc.ranges, LineRange(start, end, HardBreakLength(text, end) > 0))]
\* Steps over the line break as well, so that the next line begins after it.
NextRange(acc, text, start, end) ==
  [cursor |-> end + HardBreakLength(text, end),
   ranges |-> Append(acc.ranges, LineRange(start, end, HardBreakLength(text, end) > 0))]
Clamped(value, low, high) == Min({Max({value, low}), high})
RangeOfLine(acc, text, line) ==
  NextRange(acc, text, Clamped(line.start, acc.cursor, Len(text)),
            Clamped(line.end, Clamped(line.start, acc.cursor, Len(text)), Len(text)))
EmptyRange(acc) ==
  [cursor |-> acc.cursor, ranges |-> Append(acc.ranges, LineRange(acc.cursor, acc.cursor, FALSE))]
LineRanges(text, painted) ==
  LET found[i \in 0..Len(painted)] ==
        IF i = 0 THEN [cursor |-> 0, ranges |-> <<>>]
        ELSE IF found[i - 1].cursor = Len(text) THEN EmptyRange(found[i - 1])
        ELSE RangeOfLine(found[i - 1], text, painted[LineBoundary(painted, found[i - 1].cursor)])
  IN  found[Len(painted)].ranges

FlutterMetrics == MetricsOf(3, 1, 0)
BridgeLines(text, ranges) ==
  [i \in DOMAIN ranges |-> Line(text, ranges[i].start, ranges[i].end, ranges[i].end - ranges[i].start, FlutterMetrics,
                                ranges[i].hard_break)]

\* Graphemes that are no line breaks and that the painter gave boxes.
Graphemes(text, boxless) == {at \in 0..(Len(text) - 1) : HardBreakLength(text, at) = 0} \ boxless
LineIndexForY(lines, y) ==
  CHOOSE i \in DOMAIN lines : y <= i * FlutterMetrics.line_height /\ \A j \in 1..(i - 1) : y > j * FlutterMetrics.line_height
MidHeight(line) == (line - 1) * FlutterMetrics.line_height + FlutterMetrics.line_height \div 2
ClusterAt(text, at, line, left) == Cluster(text, at, at + 1, line - 1, Max({left, 0}), Max({left + 1, 0}))
ClusterOn(text, at, painted, line, direction) ==
  ClusterAt(text, at, LineIndexForY(painted, MidHeight(line)), Left(painted[line], at, direction))
Clusters(text, painted, boxless, direction) ==
  {ClusterOn(text, at, painted, PaintedOn(painted, at), direction) : at \in Graphemes(text, boxless)}
Before(a, b) == a.line_index < b.line_index \/ (a.line_index = b.line_index /\ a.x_start < b.x_start)
\* Dart's sort leaves open the order of those that begin in one place.
Sortings(clusters) ==
  {order \in Bijection(1..Cardinality(clusters), clusters) :
     \A i, j \in DOMAIN order : i < j => ~Before(order[j], order[i])}

BridgeResult(request, text, painted, clusters) ==
  MeasuredText(request, text, BridgeLines(text, LineRanges(text, painted)), clusters,
               FlutterMetrics.line_height * Len(painted))

\* _buildSpan: runs are laid end to end, in order of their starts.
SpansInOrder(runs) ==
  \A i, j \in DOMAIN runs : i # j /\ runs[i].start <= runs[j].start => runs[i].end <= runs[j].start
\* What is refused before a painter exists, and the locale and strut while its arguments are evaluated.
Measurable(request) ==
  /\ ValidUtf8Range(request.text, request.range)
  /\ \A run \in Range(request.runs) : ValidUtf8Range(request.text, run) /\ Inside(run, request.range)
  /\ SpansInOrder(request.runs)
  /\ request.font > 0 /\ request.text_scale > 0 /\ request.available_width >= 0 /\ request.locale
  /\ request.strutted => {request.strut.ascent, request.strut.descent, request.strut.leading} \subseteq Nat

-----------------------------------------------------------------------------
(* What text.rs asks of a response before layout sees it *)

ValidLine(text, line) ==
  /\ ValidUtf8Range(text, line.range)
  /\ {line.width, line.ascent, line.descent, line.line_height, line.baseline, line.ink.width, line.ink.height} \subseteq Nat
ValidCluster(text, cluster, count) ==
  /\ ValidUtf8Range(text, cluster.range)
  /\ cluster.line_index < count
  /\ 0 <= cluster.x_start /\ cluster.x_start <= cluster.x_end
InVisualOrder(a, b) == a.line_index < b.line_index \/ (a.line_index = b.line_index /\ a.x_start <= b.x_start)

\* validate_measured_text
ValidateMeasuredText(request, measured) ==
  /\ measured.request = request.fingerprint
  /\ ValidUtf8Range(request.text, request.range)
  /\ measured.utf8_len = ByteLength(MeasuredPart(request))
  /\ measured.line_count = Len(measured.lines)
  /\ \A i \in DOMAIN measured.lines :
       /\ ValidLine(MeasuredPart(request), measured.lines[i])
       /\ i > 1 => measured.lines[i - 1].range.end <= measured.lines[i].range.start
  /\ \A i \in DOMAIN measured.clusters :
       /\ ValidCluster(MeasuredPart(request), measured.clusters[i], Len(measured.lines))
       /\ i > 1 => InVisualOrder(measured.clusters[i - 1], measured.clusters[i])

DistinctIds(items) == \A i, j \in DOMAIN items : items[i].id = items[j].id => i = j
\* HostMeasuredTextBackend::new: one valid result for every request, and no other.
HostAccepts(batch, results) ==
  /\ DistinctIds(batch) /\ DistinctIds(results)
  /\ \A result \in Range(results) : \E request \in Range(batch) :
       request.id = result.id /\ ValidateMeasuredText(request, result)
  /\ Len(results) = Len(batch)
\* Its measure_batch serves a request only to whom asks for just that.
HostServes(prepared, batch) == Range(batch) \subseteq Range(prepared)

-----------------------------------------------------------------------------
(* The steps *)

\* painters says of every painter made whether it is live.
Asked(batch, backend) ==
  [backend |-> backend, batch |-> batch, requested |-> batch, stage |-> "asked", results |-> <<>>, painters |-> <<>>]
MeasureInit == \E batch \in MeasureBatches, backend \in {"default", "host"} : measuring = Asked(batch, backend)

InHand == measuring.batch[Len(measuring.results) + 1]
Measures(backend) ==
  measuring.stage = "asked" /\ measuring.backend = backend /\ Len(measuring.results) < Len(measuring.batch)

\* DefaultTextBackend::measure_batch; a cancellation is looked for before every request.
DefaultMeasures ==
  /\ Measures("default")
  /\ measuring' = [measuring EXCEPT !.results = Append(@, MeasureDeterministic(InHand))]
Cancelled == Measures("default") /\ measuring' = [measuring EXCEPT !.stage = "cancelled"]

\* What is thrown on the way disposes of the painters made so far.
Thrown == [measuring EXCEPT !.stage = "failed", !.painters = [i \in DOMAIN @ |-> "disposed"]]
Painted(request, result) == [measuring EXCEPT !.results = Append(@, result), !.painters = Append(@, "live")]

\* decodeRequest has seen to the ids, measureBatch sees to the paragraphs.
Accepted(request) ==
  /\ DistinctIds(measuring.batch)
  /\ \A i \in 1..Len(measuring.results) : measuring.batch[i].paragraph # request.paragraph
  /\ Measurable(request)
BridgeMeasures ==
  /\ Measures("host") /\ Accepted(InHand)
  /\ \E soft, boxless \in SUBSET (0..(Len(MeasuredPart(InHand)) - 1)), direction \in FlutterDirections(InHand.direction) :
       \E painted \in Paintings(MeasuredPart(InHand), soft) :
         \E clusters \in Sortings(Clusters(MeasuredPart(InHand), painted, boxless, direction)) :
           measuring' = Painted(InHand, BridgeResult(InHand, MeasuredPart(InHand), painted, clusters))
BridgeRefuses == Measures("host") /\ ~Accepted(InHand) /\ measuring' = Thrown
\* A painter that fails is disposed of by _measure itself.
PainterFails ==
  /\ Measures("host") /\ Accepted(InHand)
  /\ measuring' = [Thrown EXCEPT !.painters = Append(@, "disposed")]

\* The whole batch is measured; encoding may refuse it (SceneWire).
Return ==
  /\ measuring.stage = "asked" /\ Len(measuring.results) = Len(measuring.batch)
  /\ measuring' = [measuring EXCEPT !.stage = "returned"]
EncodingFails ==
  /\ measuring.stage = "asked" /\ measuring.backend = "host"
  /\ Len(measuring.results) = Len(measuring.batch)
  /\ measuring' = Thrown

\* The response reaches the session that asked, or one that asked for something else.
Submit(requested) ==
  /\ measuring.stage = "returned" /\ measuring.backend = "host"
  /\ measuring' = [measuring EXCEPT !.requested = requested,
                                    !.stage = IF HostAccepts(requested, measuring.results) THEN "accepted" ELSE "refused"]
\* Layout asks again for what it measured, or for something else.
Serve(again) ==
  /\ measuring.stage = "accepted"
  /\ measuring' = [measuring EXCEPT !.requested = again,
                                    !.stage = IF HostServes(measuring.requested, again) THEN "served" ELSE "refused"]
\* TextMeasurementBatch.dispose
DisposeBatch ==
  /\ measuring.stage \in {"returned", "accepted", "refused", "served"} /\ measuring.backend = "host"
  /\ "live" \in Range(measuring.painters)
  /\ measuring' = [measuring EXCEPT !.painters = [i \in DOMAIN @ |-> "disposed"]]

MeasureNext ==
  \/ DefaultMeasures \/ Cancelled \/ BridgeMeasures \/ BridgeRefuses \/ PainterFails \/ Return \/ EncodingFails
  \/ (\E requested \in MeasureBatches : Submit(requested)) \/ (\E again \in MeasureBatches : Serve(again))
  \/ DisposeBatch

MeasureSpec == MeasureInit /\ [][MeasureNext]_measuring

-----------------------------------------------------------------------------
(* Properties *)

\* Nothing but a line break lies between two lines, or after the last of them.
Between(text, range, hardBreak) ==
  LET gap == SliceUtf8(text, range)
  IN  gap # <<>> /\ gap[1] \in (IF hardBreak THEN {<<LF>>, <<CR>>, <<CR, LF>>} ELSE {<<>>})
LinesCoverText(text, lines) ==
  /\ lines[1].range.start = 0
  /\ \A i \in 1..(Len(lines) - 1) :
       Between(text, Span(lines[i].range.end, lines[i + 1].range.start), lines[i].hard_break)
  /\ Between(text, Span(Last(lines).range.end, ByteLength(text)), Last(lines).hard_break)
ClustersInLines(measured) ==
  \A i \in DOMAIN measured.clusters :
    /\ Inside(measured.clusters[i].range, measured.lines[measured.clusters[i].line_index + 1].range)
    /\ \A j \in DOMAIN measured.clusters : measured.clusters[i].range = measured.clusters[j].range => i = j

(* Measurements fit the text they were made of, and the session that asked.   *)
(* However Flutter breaks the lines and wherever it paints the characters,    *)
(* the bridge's lines cover the text but for its line breaks, each character  *)
(* is in the line it was counted to, and text.rs accepts the response for the *)
(* batch it answers and for no other; the deterministic backend's results    *)
(* would pass the same check.  A painter lives just as long as the batch     *)
(* that was returned with it (text_measure_bridge.dart: "retain the exact     *)
(* TextPainter instances").                                                  *)
MeasurementsAccepted ==
  /\ measuring.stage \in {"asked", "returned"} => \A i \in DOMAIN measuring.results :
       LET request == measuring.batch[i]
           measured == measuring.results[i]
       IN  ValidUtf8Range(request.text, request.range) =>
             /\ ValidateMeasuredText(request, measured)
             /\ measured.lines # <<>> => LinesCoverText(MeasuredPart(request), measured.lines)
             /\ ClustersInLines(measured)
             /\ measuring.backend = "default" => \A line \in Range(measured.lines) :
                  line.width <= Max({request.max_width, Advance(request)})
  /\ measuring.stage = "refused" => measuring.requested # measuring.batch
  /\ measuring.stage \in {"accepted", "served"} =>
       Range(measuring.requested) \subseteq Range(measuring.batch)
  /\ measuring.stage = "failed" => "live" \notin Range(measuring.painters)
=============================================================================
