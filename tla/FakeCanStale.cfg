SPECIFICATION Spec
CONSTANTS
  MaxTx = 2
  MaxRx = 2
  MaxIgnored = 1
  FrameSize = 2
CHECK_DEADLOCK FALSE
INVARIANT CallsTellTrue
