SPECIFICATION FairSpec
CONSTANTS
  f1 = f1
  f2 = f2
  Folders <- TwoFolders
  MaxUid = 3
  InitialUids = 2
  Garbage <- LargeGarbage
  MaxNum = 2
  MaxOthers = 1
  Watched <- OneFolder
  MaxSessions = 2
  MaxCalls = 4
  MaxObjects = 1
INVARIANTS TypeOK ObjectsTellTruth
PROPERTIES RemovedWasAsked ConfirmedIsGone OldFoldersSilent CallsReturn
CHECK_DEADLOCK FALSE
