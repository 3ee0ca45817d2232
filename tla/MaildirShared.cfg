SPECIFICATION Spec
CONSTANTS
  m1 = m1
  m2 = m2
  f1 = f1
  f2 = f2
  Ids <- OneId
  Flags <- OneFlag
  Folders <- TwoFolders
  MaxOthers = 2
  MaxScans = 3
  MaxObjects = 0
SYMMETRY Symmetry
INVARIANTS TypeOK CountWithinCache
CHECK_DEADLOCK FALSE
