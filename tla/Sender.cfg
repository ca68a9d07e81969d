SPECIFICATION FairSpec
CONSTANTS
  Lens = {7, 8, 27, 125}
  BlockSizes = {0, 2}
  FCFrames <- MCFCFrames
  SemMax = 1
  MaxMsgs = 2
  MaxFCs = 2
  RacyTimers = FALSE
  LateTx = FALSE
  EarlyFC = FALSE
CHECK_DEADLOCK FALSE
INVARIANTS TypeOK OneConclusion NeverStranded FrameStream HonestResult BlockNotOverrun
PROPERTIES ImplementsService SendTerminates
