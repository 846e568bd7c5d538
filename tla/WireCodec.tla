----------------------------- MODULE WireCodec -----------------------------
(***************************************************************************)
(* How a value becomes a payload and back: the Writer and Reader of          *)
(* crates/pagelet/src/wire.rs, and the readers of the two Dart decoders.     *)
(* A payload is a sequence of fields, each of a width and a value; a field   *)
(* can only be read at the width it was written with.  What a message is     *)
(* made of is data: a type says which fields it has, in which order, and     *)
(* each writer and reader has types of its own.                              *)
(***************************************************************************)
EXTENDS TextSpans, SequencesExt, FiniteSetsExt, TLC

CONSTANTS
  MaxItems,     \* MAX_COLLECTION_ITEMS
  MaxString,    \* MAX_STRING_BYTES
  MaxPayload,   \* MAX_PAYLOAD_BYTES, counted in fields
  Versions,     \* the schema versions that are supported
  ByteOrderMark \* the character U+FEFF

ASSUME WireLimits ==
  /\ {MaxItems, MaxString, MaxPayload} \subseteq Nat /\ Versions \subseteq Nat
  /\ ByteOrderMark \in DOMAIN CharWidth /\ CharWidth[ByteOrderMark] = 3

(* Types *)

Word(width) == [tag |-> "word", of |-> width]
U8 == Word("u8")
U16 == Word("u16")
U32 == Word("u32")
U64 == Word("u64")
Unit == Word("i64")
Hash == Word("hash")
Bool == [tag |-> "bool", of |-> <<>>]
\* Text is kept as it came by str::from_utf8; Dart's utf8.decode takes a mark
\* that it begins with for one of byte order, and leaves it out.
Str == [tag |-> "str", of |-> "as it came"]
DartStr == [tag |-> "str", of |-> "without mark"]
EnumOf(names) == [tag |-> "enum", of |-> names]
Option(type) == [tag |-> "option", of |-> type]
ListOf(type) == [tag |-> "list", of |-> type]
Rec(fields) == [tag |-> "rec", of |-> fields]
Field(name, type) == [name |-> name, type |-> type]
\* A range that is checked when it is written or read.
Ordered == [tag |-> "ordered", of |-> <<>>]
\* A field that this version does not carry: nothing is written, and the reader supplies a value.
NotCarried(value) == [tag |-> "absent", of |-> value]
Each(names, type) == [i \in DOMAIN names |-> Field(names[i], type)]

(* Writing *)

Cell(width, value) == [width |-> width, value |-> value]
\* A value that the writer refuses.
Refusal == <<Cell("refused", 0)>>

RECURSIVE Encode(_, _)
Encode(type, value) ==
  CASE type.tag = "word" -> <<Cell(type.of, value)>>
    [] type.tag = "bool" -> <<Cell("u8", IF value THEN 1 ELSE 0)>>
    [] type.tag = "str" -> IF ByteLength(value) > MaxString THEN Refusal ELSE <<Cell("str", value)>>
    [] type.tag = "enum" -> <<Cell("u8", (CHOOSE i \in DOMAIN type.of : type.of[i] = value) - 1)>>
    [] type.tag = "option" -> <<Cell("u8", Len(value))>> \o FlattenSeq([i \in DOMAIN value |-> Encode(type.of, value[i])])
    [] type.tag = "list" ->
         IF Len(value) > MaxItems THEN Refusal
         ELSE <<Cell("u32", Len(value))>> \o FlattenSeq([i \in DOMAIN value |-> Encode(type.of, value[i])])
    [] type.tag = "ordered" ->
         IF value.start > value.end THEN Refusal ELSE <<Cell("u32", value.start), Cell("u32", value.end)>>
    [] type.tag = "rec" -> FlattenSeq([i \in DOMAIN type.of |-> Encode(type.of[i].type, value[type.of[i].name])])
    [] type.tag = "absent" -> <<>>

(* Reading *)

Garbled == [ok |-> FALSE, value |-> <<>>, rest |-> <<>>]
Got(value, rest) == [ok |-> TRUE, value |-> value, rest |-> rest]

Take(width, cells) ==
  IF cells # <<>> /\ Head(cells).width = width THEN Got(Head(cells).value, Tail(cells)) ELSE Garbled

\* What is read after what was read before, as one more element or one more field.
Appended(before, next) ==
  IF next.ok THEN Got(Append(before.value, next.value), next.rest) ELSE Garbled
WithField(before, name, next) ==
  IF next.ok THEN Got(before.value @@ (name :> next.value), next.rest) ELSE Garbled

Truth(read) == IF read.ok /\ read.value \in {0, 1} THEN Got(read.value = 1, read.rest) ELSE Garbled
Discriminant(names, read) ==
  IF read.ok /\ read.value + 1 \in DOMAIN names THEN Got(names[read.value + 1], read.rest) ELSE Garbled
ShortString(read) == IF read.ok /\ ByteLength(read.value) <= MaxString THEN read ELSE Garbled
BeginsWithMark(text) == text # <<>> /\ Head(text) = ByteOrderMark
WithoutMark(text) == IF BeginsWithMark(text) THEN Tail(text) ELSE text
Text(reading, read) ==
  IF read.ok /\ reading = "without mark" THEN Got(WithoutMark(read.value), read.rest) ELSE read
InOrder(read) == IF read.ok /\ read.value.start <= read.value.end THEN read ELSE Garbled

RECURSIVE Decode(_, _), DecodeItems(_, _, _), DecodeFields(_, _)
DecodeItems(type, count, cells) ==
  FoldLeft(LAMBDA before, i : IF before.ok THEN Appended(before, Decode(type, before.rest)) ELSE before,
           Got(<<>>, cells), [i \in 1..count |-> i])
DecodeFields(fields, cells) ==
  FoldLeft(LAMBDA before, f : IF before.ok THEN WithField(before, f.name, Decode(f.type, before.rest)) ELSE before,
           Got(<<>>, cells), fields)
DecodeCounted(type, most, count) ==
  IF count.ok /\ count.value <= most THEN DecodeItems(type, count.value, count.rest) ELSE Garbled
Decode(type, cells) ==
  CASE type.tag = "word" -> Take(type.of, cells)
    [] type.tag = "bool" -> Truth(Take("u8", cells))
    [] type.tag = "str" -> Text(type.of, ShortString(Take("str", cells)))
    [] type.tag = "enum" -> Discriminant(type.of, Take("u8", cells))
    [] type.tag = "option" -> DecodeCounted(type.of, 1, Take("u8", cells))
    [] type.tag = "list" -> DecodeCounted(type.of, MaxItems, Take("u32", cells))
    [] type.tag = "ordered" -> InOrder(DecodeFields(Each(<<"start", "end">>, U32), cells))
    [] type.tag = "rec" -> DecodeFields(type.of, cells)
    [] type.tag = "absent" -> Got(type.of, cells)

\* Reader::finish: nothing may follow what was read.
DecodeAll(type, cells) ==
  LET read == Decode(type, cells) IN IF read.ok /\ read.rest = <<>> THEN read ELSE Garbled

(* The envelope.  The checksum stands for its payload: two payloads that     *)
(* differ have different ones.                                               *)

Kinds == {"page", "measure", "measured"}

EncodeEnvelope(kind, version, payload) ==
  [complete |-> TRUE, magic |-> TRUE, version |-> version, kind |-> kind,
   declared |-> Len(payload), checksum |-> payload, payload |-> payload]
Encodable(version, payload) ==
  /\ version \in Versions /\ Len(payload) <= MaxPayload
  /\ \A i \in DOMAIN payload : payload[i].width # "refused"

DecodeEnvelope(bytes, expectedKind) ==
  /\ bytes.complete /\ bytes.magic
  /\ bytes.version \in Versions
  /\ bytes.kind = expectedKind
  /\ bytes.declared <= MaxPayload
  /\ bytes.declared = Len(bytes.payload)
  /\ bytes.checksum = bytes.payload
=============================================================================
