SPECIFICATION FormatsSpec
CONSTANTS
  Archives <- MCArchives
  Lower <- MCLower
  Unsafe = {"../up"}
  Encoded = {"one%20.xhtml"}
  Outside = Outside
  Absent = Absent
  MaxEntries = 9
  MaxSingle = 8
  MaxTotal = 30
  MaxRatio = 3
  MaxDiagnostics = 1
  HeaderPrefix = 1
  Sheets <- MCSheets
  Readable = {"a", "b", "c", "d"}
  Linked <- MCLinked
  Embedded <- MCEmbedded
  Elements <- MCElements
  MaxImportDepth = 2
  MaxSelectors = 2
  NoId = NoId
  NoName = NoName
  Elsewhere = Elsewhere
  Unsupported = Unsupported
  Keyword <- MCKeyword
  Documents <- MCDocuments
  NoAttrs <- MCAttrs
  MaxNodes = 24
  MaxDepth = 7
  Letters = {"x"}
  Blanks = {"_"}
  Space = " "
  Break = "/"
  Origins = {o1, o2}
  NoOrigin = NoOrigin
  MaxText = 3
  MaxMarks = 1
  Document = "c.xhtml"
  Resources <- MCResources
  XhtmlPaths <- MCXhtml
  NoPath = NoPath
  Remote = Remote
  Escaping = Escaping
  Cover = "cover.png"
  OtherNotes <- MCOther
  CharWidth <- MCWidths
  MaxItems = 2
  MaxString = 4
  MaxPayload = 260
  Versions = {1, 2, 3}
  ByteOrderMark = "bom"
  MeasureBatches <- MCBatches
  LF = "lf"
  CR = "cr"
  Scale = 2
  Messages <- MCMessages
  Damages <- MCDamages
INVARIANTS
  ModesAgree
  NamesAgree
  OpeningIsLazy
  CascadeSound
  ComputedOnce
  InlineSound
  TextPreserved
  PlacesSound
  NotesOnce
  StandaloneAlone
  WireAgrees
  ReadersAgree
  LegacyTextKept
  MeasurementsAccepted
PROPERTY LoadingEnds
\* A part that has come to its end does nothing more.
CHECK_DEADLOCK FALSE
