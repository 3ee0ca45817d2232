SPECIFICATION Spec
CONSTANTS
  m1 = m1
  m2 = m2
  f1 = f1
  f2 = f2
  Ids <- TwoIds
  Flags <- OneFlag
  Folders <- OneFolder
  MaxOthers = 0
  MaxScans = 1
  MaxObjects = 0
SYMMETRY Symmetry
PROPERTIES ExpungeRemovesDeleted
CHECK_DEADLOCK FALSE
