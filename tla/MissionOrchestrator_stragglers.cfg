SPECIFICATION Safety
CONSTANTS
  NumChallenges = 3
  HasParamsCheck <- MCHasParamsCheck
  RestartStack <- MCRestartStack
  EditSegment <- MCEditSegment
  LastSegment = 4
  SigintTimeout = 2
  SigtermTimeout = 1
  ShutdownSigint = 1
  ShutdownSigterm = 2
  ShutdownGuard = 1
CHECK_DEADLOCK FALSE
PROPERTIES
  UnexpectedExitReported
