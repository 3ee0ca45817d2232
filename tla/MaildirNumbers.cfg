SPECIFICATION Spec
CONSTANTS
  m1 = m1
  m2 = m2
  f1 = f1
  f2 = f2
  Ids <- TwoIds
  Flags <- OneFlag
  Folders <- OneFolder
  MaxOthers = 0
  MaxScans = 1
  MaxObjects = 1
SYMMETRY Symmetry
INVARIANTS NumberNamesMessage
CHECK_DEADLOCK FALSE
