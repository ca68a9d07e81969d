SPECIFICATION FairSpec
CONSTANTS
  Lens = {7, 27}
  BlockSizes = {0, 2}
  FCFrames <- MCFewFCFrames
  SemMax = 1
  MaxMsgs = 2
  MaxFCs = 1
  RacyTimers = FALSE
  LateTx = TRUE
  EarlyFC = TRUE
CHECK_DEADLOCK FALSE
INVARIANTS OneConclusion NeverStranded BlockNotOverrun
PROPERTIES SendTerminates
