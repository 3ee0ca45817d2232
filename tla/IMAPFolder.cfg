SPECIFICATION Spec
CONSTANTS
  MaxUid = 3
  InitialUids = 2
  MaxWire = 2
  MaxOthers = 1
  PlainOps <- SomeOps
  TimeoutOps <- TimingOut
  MaxOpens = 1
  MaxTag = 3
  MaxObjects = 2
INVARIANTS TypeOK NumberNamesMessage UidNamesMessage
PROPERTIES StoreMarksMeant ReturnsWhenDone NewMessagesAnnounced
CHECK_DEADLOCK FALSE
