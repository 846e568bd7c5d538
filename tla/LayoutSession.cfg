SPECIFICATION ReadingSpec
CONSTANTS
  MaxChapter = 3
  MaxLimit = 3
  MaxAsked = 3
INVARIANTS
  PagesArePrefix
  CompleteUnlessLost
  AnswerIsFullPagination
PROPERTIES
  RetainedPagesStay
  ReaderReachesEnd
