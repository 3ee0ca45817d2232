SPECIFICATION FairSpec
CONSTANTS
  ReplyCodes <- MCReplyCodes
  Refusal = 550
  ServerExtensions <- AllExtensions
  PipeliningOption = FALSE
  ChunkingOption = TRUE
  GivesUp = FALSE
  SourceMayFail = FALSE
  MaxSends = 2
  MaxRecipients = 2
  MaxBlocks = 1
  MaxConnections = 2
  MaxNoops = 1
INVARIANTS TypeOK ReplyAnswersCommand NoMutualWait MailOpensTransaction
PROPERTIES RefusedIsNotDelivered ImplementsSubmission EveryCallReturns
CHECK_DEADLOCK FALSE
