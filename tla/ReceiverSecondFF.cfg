SPECIFICATION Spec
CONSTANTS
  Peers = {Peer, Third}
  Self = Self
  Third = Third
  PeerLens = {8, 27}
  Lens <- MCLens
  BlockSizes = {0, 1, 3}
  WftNums = {0, 2}
  Params <- MCParams
  MaxMsgs = 2
  MaxLost = 1
  LateFC = FALSE
  MaxTxFail = 1
CHECK_DEADLOCK FALSE
PROPERTY FFTakenUp
