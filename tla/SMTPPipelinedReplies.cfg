SPECIFICATION Spec
CONSTANTS
  ReplyCodes <- MCReplyCodes
  Refusal = 550
  ServerExtensions <- OnlyPipelining
  PipeliningOption = TRUE
  ChunkingOption = TRUE
  GivesUp = FALSE
  SourceMayFail = FALSE
  MaxSends = 2
  MaxRecipients = 4
  MaxBlocks = 0
  MaxConnections = 1
  MaxNoops = 0
INVARIANT ReplyAnswersCommand
CHECK_DEADLOCK FALSE
