--------------------------- MODULE ComputedStyle ---------------------------
(***************************************************************************)
(* The computed style of an element (crates/pagelet/src/epub.rs,            *)
(* style_for_node): the cascade over what it inherits, and lengths resolved *)
(* to pixels with the fonts of the element, its parent and the root.        *)
(*                                                                         *)
(* A value is [unit, n]; n counts pixels, or hundredths of the font size or *)
(* of a number.  The code multiplies floating-point factors, so values here *)
(* are such that the products are whole.                                    *)
(***************************************************************************)
EXTENDS CssCascade

CONSTANT Keyword(_)   \* the values that are not numbers: [unit |-> "keyword", name |-> ...]

Px(n) == [unit |-> "px", n |-> n]

HtmlFont == 16

DefaultFontSize(name) ==
  CASE name = "h1" -> 30
    [] name = "h2" -> 27
    [] name = "h3" -> 24
    [] name = "h4" -> 21
    [] name \in {"h5", "h6"} -> 18
    [] OTHER -> 16

FontKeyword ==
  [name \in {"initial", "medium", "small", "large", "xx-small", "x-small", "x-large", "xx-large", "xxx-large"} |->
    CASE name = "xx-small" -> 9
      [] name = "x-small" -> 10
      [] name = "small" -> 13
      [] name = "large" -> 18
      [] name = "x-large" -> 24
      [] name = "xx-large" -> 32
      [] name = "xxx-large" -> 48
      [] OTHER -> 16]

Invalid == -1

\* parse_css_length: not negative, or invalid.
CssLength(value, em, rem, percent) ==
  IF value.unit \in {"em", "rem", "%", "px"} /\ value.n < 0 THEN Invalid
  ELSE CASE value.unit = "em" -> (em * value.n) \div 100
         [] value.unit = "rem" -> (rem * value.n) \div 100
         [] value.unit = "%" -> (percent * value.n) \div 100
         [] value.unit = "px" -> value.n
         [] value.unit = "number" /\ value.n = 0 -> 0
         [] OTHER -> Invalid

\* resolve_font_size
FontSize(value, parent, root) ==
  CASE value.unit # "keyword" -> CssLength(value, parent, root, parent)
    [] value.unit = "keyword" /\ value.name \in {"inherit", "unset"} -> parent
    [] value.unit = "keyword" /\ value.name = "smaller" -> (parent * 80) \div 100
    [] value.unit = "keyword" /\ value.name = "larger" -> (parent * 120) \div 100
    [] value.unit = "keyword" /\ value.name \in DOMAIN FontKeyword -> FontKeyword[value.name]
    [] OTHER -> Invalid

NormalLine == Keyword("normal")

\* resolve_line_height: a number stays a factor of whatever font it meets.
LineHeight(value, font, root, parent) ==
  CASE value.unit = "number" /\ value.n >= 0 -> value
    [] value.unit = "keyword" /\ value.name \in {"normal", "initial"} -> NormalLine
    [] value.unit = "keyword" /\ value.name \in {"inherit", "unset"} -> parent
    [] OTHER -> LET length == CssLength(value, font, root, font) IN
                IF length = Invalid THEN Keyword("invalid") ELSE Px(length)

\* The line height a style shows: a factor is taken of the element's own font.
ShownLine(line, font) == IF line.unit = "number" THEN Px((font * line.n) \div 100) ELSE line

\* The font size of an element: its own, that of its parent, or the default of its name.
SizeOf(name, inherited, parent, own) ==
  IF own # Invalid THEN own
  ELSE IF "font-size" \in DOMAIN inherited THEN parent.size ELSE DefaultFontSize(name)

HeightOf(inherited, parent, own) ==
  IF own # Keyword("invalid") THEN own
  ELSE IF "line-height" \in DOMAIN inherited THEN parent.line ELSE NormalLine

\* resolve_font_metrics: the fonts of an element, from those of its parent.
FontOf(authored, inherited, parent, root, size) ==
  [size |-> size,
   line |-> HeightOf(inherited, parent,
              IF "line-height" \in DOMAIN authored
              THEN LineHeight(authored["line-height"][1], size, root, parent.line) ELSE Keyword("invalid"))]

Font(name, authored, inherited, parent, root) ==
  FontOf(authored, inherited, parent, root,
         SizeOf(name, inherited, parent,
                IF "font-size" \in DOMAIN authored THEN FontSize(authored["font-size"][1], parent.size, root)
                ELSE Invalid))

\* The style shows the fonts that were set somewhere.
WithFont(style, shown, font) ==
  [p \in DOMAIN style \cup (shown \cap {"font-size", "line-height"}) |->
     CASE p = "font-size" /\ p \in shown -> <<Px(font.size)>>
       [] p = "line-height" /\ p \in shown -> <<ShownLine(font.line, font.size)>>
       [] OTHER -> style[p]]

Padding == Range(Sides("padding"))

Geometry == Range(Sides("margin")) \cup Padding \cup {"text-indent", "letter-spacing"}

\* resolve_font_relative_geometry_length: padding is not negative.
Absolute(property, value, font, root) ==
  LET length == CASE value.unit = "em" -> (font * value.n) \div 100
                  [] value.unit = "rem" -> (root * value.n) \div 100
                  [] value.unit = "px" -> value.n
                  [] OTHER -> 0
      fits == \/ value.unit \in {"em", "rem", "px"} /\ (property \in Padding => length >= 0)
              \/ value.unit = "number" /\ value.n = 0
  IN  IF fits THEN Px(length) ELSE value

\* Mutant of WithGeometry: only what the element sets itself is resolved, and
\* that with the font of the root.
GeometryOfRoot(style, font, root) ==
  [p \in DOMAIN style |-> IF p \in Geometry THEN <<Absolute(p, style[p][1], root, root)>> ELSE style[p]]

\* resolve_font_relative_geometry
WithGeometry(style, font, root) ==
  [p \in DOMAIN style |-> IF p \in Geometry THEN <<Absolute(p, style[p][1], font, root)>> ELSE style[p]]

\* apply_inline_user_agent_defaults
UserAgent(name, style) ==
  CASE name \in {"em", "i"} -> WithValue(style, "font-style", <<Keyword("italic")>>)
    [] name \in {"strong", "b"} -> WithValue(style, "font-weight", <<Keyword("bold")>>)
    [] OTHER -> style

\* lang and dir attributes; dir gives way to an authored direction.
Locale(element, inherited) ==
  IF element.lang # NoName THEN <<element.lang>>
  ELSE IF "-pagelet-locale" \in DOMAIN inherited THEN inherited["-pagelet-locale"]
  ELSE <<>>

WithLocale(style, locale) == IF locale = <<>> THEN style ELSE WithValue(style, "-pagelet-locale", locale)

WithDirection(style, element, authored) ==
  IF "direction" \in DOMAIN authored \/ element.dir = NoName THEN style
  ELSE WithValue(style, "direction", <<Keyword(element.dir)>>)

Sized(style, shown, font, root) ==
  [style |-> WithGeometry(WithFont(style, shown, font), font.size, root), font |-> font]

\* The style of the last element of a chain, given what it sets and its parent.
Styled(chain, authored, parent, root) ==
  LET element == Last(chain) IN
  Sized(WithDirection(WithLocale(Cascade(chain, rules, UserAgent(element.name, parent.style)),
                                 Locale(element, parent.style)), element, authored),
        DOMAIN authored \cup DOMAIN parent.style,
        Font(element.name, authored, parent.style, parent.font, root), root)

\* style_for_node, from the root of the chain inwards.
Computed(chain) ==
  LET computed[i \in 0 .. Len(chain)] ==
        IF i = 0 THEN [style |-> NoStyle, font |-> [size |-> HtmlFont, line |-> NormalLine]]
        ELSE Styled(SubSeq(chain, 1, i), Cascade(SubSeq(chain, 1, i), rules, NoStyle), computed[i - 1],
                    IF i = 1 THEN HtmlFont ELSE computed[1].font.size)
  IN  computed

-----------------------------------------------------------------------------
(* Properties *)

\* Lengths that follow a font are fixed where they are set, once, with the
\* font of that element: a child that sets no indent of its own has the very
\* indent of its parent, however much larger its own font is, and nothing
\* relative is left for the layout to misread.
LengthsFixed(authored, own, parent) ==
  /\ \A p \in Geometry \cap DOMAIN own.style :
       own.style[p][1].unit \in {"em", "rem"} => p \in Padding /\ own.style[p][1].n < 0
  /\ \A p \in {"text-indent", "letter-spacing"} :
       IF p \notin DOMAIN authored
       THEN /\ p \in DOMAIN own.style <=> p \in DOMAIN parent.style
            /\ p \in DOMAIN own.style => own.style[p] = parent.style[p]
       ELSE authored[p][1].unit = "em" =>
              own.style[p] = <<Px((own.font.size * authored[p][1].n) \div 100)>>

\* The fonts of an element are those its parent shows, unless it sets them:
\* but for what stands in a heading of default size, whose size is not
\* handed on.
FontsInherited(authored, own, parent) ==
  /\ "font-size" \notin DOMAIN authored =>
       own.font.size = parent.font.size \/ "font-size" \notin DOMAIN parent.style
  /\ "line-height" \notin DOMAIN authored /\ "line-height" \in DOMAIN parent.style =>
       /\ ShownLine(own.font.line, own.font.size) = own.style["line-height"][1]
       /\ own.font.line = parent.font.line

StylesHandedDown(chain, computed) ==
  \A i \in DOMAIN chain :
    LET authored == Cascade(SubSeq(chain, 1, i), rules, NoStyle) IN
    /\ LengthsFixed(authored, computed[i], computed[i - 1])
    /\ i > 1 => FontsInherited(authored, computed[i], computed[i - 1])

(* Computed styles hand down what was resolved, and nothing twice: lengths   *)
(* that follow a font are fixed where they are set, with the font of that    *)
(* element, and descendants with larger fonts show the same lengths; fonts   *)
(* are those of the parent unless set, except in a heading of default size,  *)
(* and a line height that is a factor stays a factor.                        *)
ComputedOnce == css = "loaded" => \A chain \in Elements : StylesHandedDown(chain, Computed(chain))
=============================================================================
