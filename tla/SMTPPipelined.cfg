SPECIFICATION Spec
CONSTANTS
  ReplyCodes <- MCReplyCodes
  Refusal = 550
  ServerExtensions <- AllExtensions
  PipeliningOption = TRUE
  ChunkingOption = TRUE
  GivesUp = TRUE
  SourceMayFail = TRUE
  MaxSends = 2
  MaxRecipients = 2
  MaxBlocks = 1
  MaxConnections = 1
  MaxNoops = 0
INVARIANTS MessageTextOnlyInDataMode SentIsDelivered
CHECK_DEADLOCK FALSE
