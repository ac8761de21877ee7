CONSTANTS
  Word = 2147483647
  BlocksPerSegment = 512
  UserBlocks <- MCUserBlocks
  SitBlocks <- MCSitBlocks
  SegmentCounts <- MCSegmentCounts
  Selectors <- MCSelectors
SPECIFICATION PolicySpec
INVARIANTS
  PolicyTypeOK
  AnswerIsExact
  RowWasInForce
  LargerRowsAreMoreWilling
