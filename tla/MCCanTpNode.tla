---------------------------- MODULE MCCanTpNode ----------------------------
(* A small instance of CanTpNode for TLC. *)
EXTENDS CanTpNode

CONSTANT BlockSizes

MCFCFrames == { [fs |-> "CTS", bs |-> b, st |-> 0] : b \in BlockSizes }
MCPeerLens == [p \in Peers |-> {27}]
MCParams   == [block_size : BlockSizes, st_min : {0}, wft_num : {0}]
=============================================================================
