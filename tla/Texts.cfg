SPECIFICATION FairSpec
CONSTANTS
  MaxPiece = 5
  FilterTexts <- MCFilterTexts
  SplitAtDots = FALSE
  Messages <- MCMessages
  Binaries <- MCBinaries
  Printables <- MCPrintables
  LineLengths <- MCLineLengths
  UULineLengths <- MCUULineLengths
  SearchTexts <- MCSearchTexts
  Tokens <- MCTokens
  MaxStart = 2
  HalfBuffer = 2
  NumberLists <- MCNumberLists
  UidLists <- MCUidLists
  UidBits = 3
  PartContents <- MCPartContents
  MaxParts = 2
  Boundaries <- MCBoundaries
  Prologs <- MCPrologs
  Epilogs <- MCPrologs
  Paddings <- MCPaddings
INVARIANTS
  FilteredAsWhole
  ContentIsMessage
  RoundTrip
  EncodedFits
  FindsFirst
  PartsSurvive
  RangesAreTheSet
PROPERTIES
  JobsEnd
CHECK_DEADLOCK FALSE
