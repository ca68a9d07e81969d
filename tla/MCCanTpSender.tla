--------------------------- MODULE MCCanTpSender ---------------------------
(* Small instances of CanTpSender for TLC. *)
EXTENDS CanTpSender

CONSTANTS BlockSizes

\* One frame of each kind the handler tells apart: CTS with each BlockSize,
\* a separation time, a refused STmin, and the three other flow statuses.
MCFCFrames ==
  { [fs |-> "CTS", bs |-> b, st |-> 0] : b \in BlockSizes } \cup
  { [fs |-> "CTS",      bs |-> 0, st |-> 245],
    [fs |-> "CTS",      bs |-> 0, st |-> 128],
    [fs |-> "WAIT",     bs |-> 0, st |-> 0],
    [fs |-> "OVF",      bs |-> 0, st |-> 0],
    [fs |-> "reserved", bs |-> 0, st |-> 0] }

\* Fewer of them, for the runs with more schedules.
MCFewFCFrames ==
  { [fs |-> "CTS", bs |-> b, st |-> 0] : b \in BlockSizes } \cup
  { [fs |-> "WAIT", bs |-> 0, st |-> 0], [fs |-> "CTS", bs |-> 0, st |-> 128] }
=============================================================================
