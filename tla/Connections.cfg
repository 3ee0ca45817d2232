SPECIFICATION FairSpec
CONSTANTS
  Builtin <- MCBuiltin
  Immediate <- MCImmediate
  Unknown <- MCUnknown
  MaxChallenges = 2
INVARIANTS
  TypeOK
  RequiredMeansSecured
  UsableIsLoggedIn
  MechanismsOfThisLayer
  RepliesReadWhereSent
  CapabilitiesAfterLogin
PROPERTIES
  ConnectEnds
CHECK_DEADLOCK FALSE
