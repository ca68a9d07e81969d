SPECIFICATION Spec
CONSTANTS
  Lens = {34}
  BlockSizes = {2, 3}
  FCFrames <- MCFCFrames
  MaxMsgs = 1
  MaxFCs = 1
  Peers = {Peer}
  Self = Self
  PeerLens <- MCPeerLens
  Params <- MCParams
  MaxPeerMsgs = 1
  MaxLost = 0
  MaxTxFail = 0
CHECK_DEADLOCK FALSE
INVARIANT BlockNotOverrun
