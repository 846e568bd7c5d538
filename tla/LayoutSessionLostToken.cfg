SPECIFICATION SessionSpec
CONSTANTS
  MaxChapter = 3
  MaxLimit = 3
  MaxAsked = 3
INVARIANT CompleteMeansChapterEnd
