--------------------------- MODULE CanTpTransfer ---------------------------
(***************************************************************************)
(* Two nodes on one bus: A sends messages, B receives them and paces A by  *)
(* the parameters its cantp_rcvr_params_init accepted.  A is the Sender    *)
(* role of can-tp.c with its four threads (S), B the Receiver role on its  *)
(* receive thread (R).  Frames keep their order in each direction; up to   *)
(* MaxLost frames are lost or given up by A's driver.                      *)
(*                                                                         *)
(* The timing is benign: no timer races with the handler it supervises,    *)
(* N_Bs does not expire while a frame of this exchange is under way or     *)
(* being handled, and A handles the confirmation of its First Frame before *)
(* it looks at the answer.                                                 *)
(***************************************************************************)
EXTENDS CanTpFrames, FiniteSets

CONSTANTS
  Lens,       \* message lengths A sends
  Requests,   \* what B is asked for on its command line
  MaxMsgs,    \* bound on the messages
  MaxLost,    \* bound on the frames lost or given up
  MaxTxFail   \* bound on B's Flow Control frames reported as not transmitted

VARIABLES
  state, sem, len, index, sn, bs_pair, bl_index, st_tim_us,     \* A: ctx->sndr
  timer, app, task, rx, cb, out, fc, txq, txdone,               \* A: threads
  msg, owed, result, wire, blk, fcs,                            \* A: history
  request,                                                      \* B: its options
  params, rcvr, rbl_index, rtimer, rrx,                         \* B
  buf, flow, inbox, failed,                                     \* B: history
  toA, toB, lost,                                               \* the bus
  sent                                                          \* history

P == INSTANCE CanTpParams

\* FCs are counted but never too many; A polls for them in every state.
S == INSTANCE CanTpSender WITH
  FCFrames <- {}, SemMax <- 1, MaxFCs <- 1000,
  RacyTimers <- FALSE, LateTx <- FALSE, EarlyFC <- TRUE

R == INSTANCE CanTpReceiver WITH
  Peers <- {"A"}, Self <- "B", LateFC <- FALSE, Lens <- [p \in {"A"} |-> Lens],
  Params <- {P!cantp_rcvr_params_init(q) : q \in {r \in Requests : P!Accepted(r)}},
  bl_index <- rbl_index, rx <- rrx, peer <- <<>>

ASSUME LensAssumption     == Lens \subseteq R!Lengths
ASSUME RequestsAssumption == Requests \subseteq P!Request
ASSUME BoundsAssumption   == MaxMsgs \in Nat /\ MaxLost \in Nat /\ MaxTxFail \in Nat

A == <<state, sem, len, index, sn, bs_pair, bl_index, st_tim_us,
       timer, app, task, rx, cb, out, fc, txq, txdone,
       msg, owed, result, wire, blk, fcs>>
B == <<params, rcvr, rbl_index, rtimer, rrx, buf, flow, inbox, failed>>
bus  == <<toA, toB, lost>>
vars == <<A, B, request, bus, sent>>

\* A Receiver whose parameters are refused does not start.
Init ==
  /\ S!Init /\ R!RoleInit
  /\ request \in {q \in Requests : P!Accepted(q)}
  /\ params = P!cantp_rcvr_params_init(request)
  /\ toA = <<>> /\ toB = <<>> /\ lost = 0 /\ sent = <<>>

----------------------------------------------------------------------------
(* Node A.                                                                  *)

Others == UNCHANGED <<B, request>>

\* cantp_send, its two parts.
Send(l) ==
  /\ S!cantp_send_SF(l) \/ S!cantp_send_FF(l)
  /\ sent' = Append(sent, [id |-> "A", len |-> l])
  /\ Others /\ UNCHANGED bus
HandOver == S!cantp_send_tx /\ Others /\ UNCHANGED <<bus, sent>>

Task == S!TaskStep /\ Others /\ UNCHANGED <<bus, sent>>
Rx   == S!RxStep   /\ Others /\ UNCHANGED <<bus, sent>>
Cb   == S!CbStep   /\ Others /\ UNCHANGED <<bus, sent>>

\* A frame of this exchange is under way or being handled.
UnderWay == toB # <<>> \/ rrx # "poll" \/ toA # <<>> \/ rx # "poll"

Expire ==
  /\ timer = "N_Bs" => ~UnderWay
  /\ S!TimerExpire /\ Others /\ UNCHANGED <<bus, sent>>

\* The driver transmits a frame, which arrives or not, or gives it up.
Transmit ==
  /\ S!DrvTransmit
  /\ \/ toB' = Append(toB, Head(txq)) /\ UNCHANGED lost
     \/ lost < MaxLost /\ lost' = lost + 1 /\ UNCHANGED toB
  /\ Others /\ UNCHANGED <<toA, sent>>
GiveUp ==
  /\ S!DrvDrop
  /\ lost < MaxLost /\ lost' = lost + 1
  /\ Others /\ UNCHANGED <<toA, toB, sent>>

TakeFC ==
  /\ toA # <<>> /\ toA' = Tail(toA)
  /\ state # "FF_SENDING"
  /\ S!cantp_can_rx(Head(toA))
  /\ Others /\ UNCHANGED <<toB, lost, sent>>

----------------------------------------------------------------------------
(* Node B.                                                                  *)

Receive ==
  /\ rrx = "poll"
  /\ toB # <<>> /\ toB' = Tail(toB)
  /\ R!cantp_canrx_cb(Head(toB), "A")
  /\ UNCHANGED <<A, request, toA, lost, sent>>

\* A Flow Control frame arrives, is lost, or, if so reported, is not sent.
Answer(f, ok) ==
  \/ toA' = Append(toA, f) /\ UNCHANGED lost
  \/ lost < MaxLost /\ lost' = lost + 1 /\ UNCHANGED toA
  \/ ~ok /\ UNCHANGED <<toA, lost>>

SendFC ==
  /\ \E ok \in BOOLEAN :
       \/ R!SendCTS(ok) /\ Answer(R!CTSFrame, ok)
       \/ R!SendWait(ok) /\ Answer(R!WaitFrame, ok)
  /\ UNCHANGED <<A, request, toB, sent>>

\* (The expiry of B's own timer only logs: it is left to CanTpReceiver.)
CountBlock == (R!EndBlock \/ R!AwaitNextCF) /\ UNCHANGED <<A, request, bus, sent>>

Next ==
  \/ (\E l \in Lens : Send(l)) \/ HandOver \/ Task \/ Rx \/ Cb \/ Expire
  \/ Transmit \/ GiveUp \/ TakeFC
  \/ Receive \/ SendFC \/ CountBlock

Spec == Init /\ [][Next]_vars

\* Each thread runs, drivers decide on each frame, frames that arrive are
\* taken, timers that are left running expire.
FairSpec ==
  /\ Spec
  /\ WF_vars(HandOver) /\ WF_vars(Task) /\ WF_vars(Rx) /\ WF_vars(Cb)
  /\ WF_vars(Expire) /\ WF_vars(Transmit \/ GiveUp) /\ WF_vars(TakeFC)
  /\ WF_vars(Receive) /\ WF_vars(SendFC) /\ WF_vars(CountBlock)

----------------------------------------------------------------------------
(* Properties.                                                              *)

\* Every way a frame could still take is empty.
Quiet == toB = <<>> /\ rrx = "poll" /\ toA = <<>> /\ rx = "poll"

Delivered(m) == \E i \in 1..Len(inbox) : inbox[i].msg = m

\* The bytes B keeps and those it delivers are A's, from cantp_send on one
\* node to cantp_received_cb on the other.
EndToEnd == R!BufferIntact /\ R!DeliveredIntact

\* Both ends agree on how a message ended: what A reports as sent, B has
\* delivered unless a frame was lost, and what A reports as failed it has not
\* (cantp_cantx_confirm_cb and rcvr_rx_consecutive_frame each decide for
\* themselves which frame is the last).
VerdictAgrees ==
  /\ result \in {"N_OK", "TX_DONE"} /\ lost = 0 /\ toB = <<>> => Delivered(msg)
  /\ result \in {"N_TIMEOUT_As", "N_TIMEOUT_Bs"} => ~Delivered(msg)

\* Both ends count blocks alike: where A stops for Flow Control, B has accepted
\* exactly the frames A sent and has offered the next block, once.
BlocksAgree ==
  state = "CF_FC_WAIT" /\ Quiet /\ lost = 0 /\ failed = 0 =>
    /\ index = rcvr.index /\ rcvr.state = "FC_SENT"
    /\ Cardinality({i \in R!SentAt(Len(buf) - 1) : flow[i].fc.fs = "CTS"}) = 1

\* The separation time B was asked for is the pace A keeps
\* (cantp_rcvr_params_init, sndr_rx_flow_control_frame).  Up to 127 ms it is
\* the pause A makes; STmin is a minimum, but it is told in whole units and
\* rounded down to one, and a pause that is short by less than a unit is
\* tolerated here (see README).  Beyond 127 ms nothing is: A transmits its
\* Consecutive Frame k + 1 only when B, having accepted the k-th, has released
\* it by CTS, after FC.WAIT frames that amount to all of the time asked for.
\* (The code keeps that by stopping A after one frame: see README, finding 1.)
PaceHonoured ==
  LET asked == request.st_min_us
      unit  == IF asked < 1000 THEN 100 ELSE 1000
      Waited(k) == request.wft_tim_us *
                     Cardinality({i \in R!SentAt(k) : flow[i].fc.fs = "WAIT"})
      Released(k) == \E i \in R!SentAt(k) : flow[i].fc.fs = "CTS" IN
  IF P!NeedsWait(request)
  THEN \A k \in 0..Len(wire) - 2 : Released(k) /\ (k > 0 => Waited(k) >= asked)
  ELSE task = "stmin" => st_tim_us <= asked /\ asked < st_tim_us + unit

\* Together the two roles implement the service: messages are delivered in
\* order and once, and never one that A has reported as failed.
Service == INSTANCE MessageService WITH
  accepted  <- msg,
  open      <- owed = 1,
  verdict   <- IF result = "none" THEN "none"
               ELSE IF result \in {"N_OK", "TX_DONE"} THEN "sent" ELSE "failed",
  delivered <- [i \in 1..Len(inbox) |-> inbox[i].msg]
ImplementsMessageService == Service!Spec

\* A message whose First Frame B has taken up is delivered, unless a frame
\* failed or A awaits Flow Control in CF_FC_WAIT, where it is deaf (see README).
AcceptedIsDelivered ==
  \A m \in 1..MaxMsgs :
    rrx = "fc" /\ buf[1].msg = m
      ~> Delivered(m) \/ lost + failed > 0 \/ state = "CF_FC_WAIT"
=============================================================================
