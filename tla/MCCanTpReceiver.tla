-------------------------- MODULE MCCanTpReceiver --------------------------
(* Small instances of CanTpReceiver for TLC: one peer sends what the runs   *)
(* are about, another, Third, gets in its way with short messages.          *)
EXTENDS CanTpReceiver

CONSTANTS PeerLens, Third, BlockSizes, WftNums

MCLens == [p \in Peers |-> IF p = Third THEN {7, 8} ELSE PeerLens]
MCParams == [block_size : BlockSizes, st_min : {0}, wft_num : WftNums]
=============================================================================
