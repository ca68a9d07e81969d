----------------------------- MODULE CanTpNode -----------------------------
(***************************************************************************)
(* One full-duplex node: its Sender role (S) and its Receiver role (R) run *)
(* on one cantp_rxtx_status_t.  They share                                 *)
(*   the receive thread: one handler at a time, for either role's frames;  *)
(*   ctx->sndr.bl_index, which both count their blocks in;                 *)
(*   cantp_sndr_result_cb, to which the Receiver reports a Flow Control    *)
(*   frame it could not send.                                              *)
(* Peers are those of CanTpReceiver, the answers to this node's messages   *)
(* those of CanTpSender.                                                   *)
(***************************************************************************)
EXTENDS CanTpFrames

CONSTANTS
  Lens, FCFrames, MaxMsgs, MaxFCs,             \* this node's messages
  Peers, Self, PeerLens, Params, MaxPeerMsgs,  \* those of the others
  MaxLost, MaxTxFail

VARIABLES
  state, sem, len, index, sn, bs_pair, st_tim_us,
  timer, app, task, rx, cb, out, fc, txq, txdone,
  msg, owed, result, wire, blk, fcs,                    \* the Sender role
  params, rcvr, rtimer, rrx, buf, flow, inbox, failed,  \* the Receiver role
  sent, peer, lost,                                     \* its peers
  bl_index                                              \* of both roles

S == INSTANCE CanTpSender WITH
  SemMax <- 1, RacyTimers <- FALSE, LateTx <- FALSE, EarlyFC <- FALSE

R == INSTANCE CanTpReceiver WITH
  rx <- rrx, Lens <- PeerLens, MaxMsgs <- MaxPeerMsgs, LateFC <- FALSE

sndr == <<state, sem, len, index, sn, bs_pair, st_tim_us,
          timer, app, task, rx, cb, out, fc, txq, txdone,
          msg, owed, result, wire, blk, fcs>>
received == <<params, rcvr, rtimer, rrx, buf, flow, inbox, failed, sent, peer, lost>>
vars == <<sndr, received, bl_index>>

Init == S!Init /\ R!Init

\* The receive thread is in cantp_can_rx, not in a handler of the other role.
Polling == rx = "poll" /\ rrx = "poll"

SenderStep ==
  /\ S!Next
  /\ S!PeerStep => Polling
  /\ UNCHANGED received

\* A Flow Control frame that could not be sent is reported as the Sender's.
Reported == IF failed' > failed THEN S!Conclude("N_TIMEOUT_As")
                                ELSE UNCHANGED <<owed, result>>

ReceiverStep ==
  /\ R!Next
  /\ (\E p \in Peers : R!cantp_rx_task(p)) => Polling
  /\ Reported
  /\ UNCHANGED <<state, sem, len, index, sn, bs_pair, st_tim_us,
                 timer, app, task, rx, cb, out, fc, txq, txdone,
                 msg, wire, blk, fcs>>

Next == SenderStep \/ ReceiverStep
Spec == Init /\ [][Next]_vars

----------------------------------------------------------------------------
(* Properties.                                                              *)

\* can-tp.h says of bs_pair: "The number of CF that will be send/received
\* without FC".  So no more Consecutive Frames follow a Flow Control frame
\* than it allows, whatever this node receives meanwhile.
BlockNotOverrun == S!BlockNotOverrun

\* What the node receives changes neither the frames it sends nor what its
\* session layer hears of them, and leaves no wait without its timer, though
\* both roles write bl_index: unless it failed to send a Flow Control frame,
\* which is reported as the result of the message it sends.
SendsUndisturbed ==
  failed = 0 =>
    S!FrameStream /\ S!HonestResult /\ S!OneConclusion /\ S!NeverStranded

\* What the node sends changes neither the bytes it receives nor what it hands
\* over, nor does it stop N_Cr.
ReceivesUndisturbed == R!BufferIntact /\ R!DeliveredIntact /\ R!NCrArmed
=============================================================================
