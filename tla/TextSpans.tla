----------------------------- MODULE TextSpans -----------------------------
(***************************************************************************)
(* Text and ranges of it (TextRange of crates/pagelet/src/document.rs,      *)
(* _TextOffsets of text_measure_bridge.dart): a text is a sequence of        *)
(* characters, a range says how many bytes of UTF-8 lie before its ends.     *)
(***************************************************************************)
EXTENDS Integers, Sequences

CONSTANT CharWidth   \* the bytes of each character in UTF-8

ASSUME CharWidthAssumption == \A c \in DOMAIN CharWidth : CharWidth[c] \in 1..4

\* The bytes before a position, which is a number of characters.
ByteAt(text, position) ==
  LET bytes[i \in 0..Len(text)] == IF i = 0 THEN 0 ELSE bytes[i - 1] + CharWidth[text[i]]
  IN  bytes[position]
ByteLength(text) == ByteAt(text, Len(text))
Boundaries(text) == {ByteAt(text, i) : i \in 0..Len(text)}
CharsBefore(text, byte) == CHOOSE i \in 0..Len(text) : ByteAt(text, i) = byte

Span(start, end) == [start |-> start, end |-> end]
ValidUtf8Range(text, range) ==
  range.start <= range.end /\ {range.start, range.end} \subseteq Boundaries(text)
Inside(range, outer) == outer.start <= range.start /\ range.end <= outer.end

\* The characters of a range, when the range is one of the text's.
SliceUtf8(text, range) ==
  IF ValidUtf8Range(text, range)
  THEN <<SubSeq(text, CharsBefore(text, range.start) + 1, CharsBefore(text, range.end))>>
  ELSE <<>>
=============================================================================
