SPECIFICATION Spec
CONSTANTS
  MaxPiece = 3
  FilterTexts <- MCFilterTexts
  SplitAtDots = TRUE
  Messages = {}
  Binaries = {}
  Printables = {}
  LineLengths = {}
  UULineLengths = {}
  SearchTexts = {}
  Tokens = {}
  MaxStart = 2
  HalfBuffer = 2
  NumberLists = {}
  UidLists = {}
  UidBits = 3
  PartContents = {}
  MaxParts = 2
  Boundaries = {}
  Prologs = {}
  Epilogs = {}
  Paddings = {}
INVARIANTS
  DotsDoubled
CHECK_DEADLOCK FALSE
