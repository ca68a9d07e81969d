---------------------------- MODULE CanTpSender ----------------------------
(***************************************************************************)
(* The Sender role of can-tp.c: cantp_send, cantp_sndr_task with           *)
(* cantp_cantx_confirm_cb, the Flow Control branch of cantp_canrx_cb and   *)
(* cantp_sndr_timer_cb.  Four threads of one node share ctx->sndr without  *)
(* a lock:                                                                 *)
(*   app   the session layer's thread, calls cantp_send;                   *)
(*   task  cantp_sndr_task, waits for transmit confirmations;              *)
(*   rx    cantp_rx_task, here as far as it handles Flow Control;          *)
(*   cb    the thread the sender timer's expiry runs on.                   *)
(* A program counter per thread says between which two reads of shared     *)
(* state it stands: reading ctx->sndr.state and acting on it are two       *)
(* steps, and so are changing the state and handing a frame to the driver. *)
(*                                                                         *)
(* Three constants say what the environment's timing may do.  All FALSE is *)
(* benign timing; each one TRUE adds the schedules in which one hazard     *)
(* bites.                                                                  *)
(***************************************************************************)
EXTENDS CanTpFrames

CONSTANTS
  Lens,         \* message lengths the session layer sends
  FCFrames,     \* Flow Control frames the peer may send
  SemMax,       \* largest count of the state semaphore (1: a binary one)
  MaxMsgs,      \* bound on the number of cantp_send calls
  MaxFCs,       \* bound on the Flow Control frames per message
  RacyTimers,   \* the timer may expire, and its callback run, inside a handler
  LateTx,       \* a queued frame may be transmitted after N_As has expired
  EarlyFC       \* Flow Control may arrive before the sender is waiting for it,
                \* as when the First Frame's confirmation is still on its way

ASSUME LensAssumption      == \A l \in Lens : l \in UInt16 /\ l < 4096
ASSUME FCFramesAssumption  == FCFrames \subseteq FlowControl
ASSUME SemMaxAssumption    == SemMax \in Nat \ {0}
ASSUME BoundsAssumption    == MaxMsgs \in Nat /\ MaxFCs \in Nat
ASSUME TimingAssumption    == {RacyTimers, LateTx, EarlyFC} \subseteq BOOLEAN

VARIABLES
  state, sem,                                           \* sndr.state, state_sem
  len, index, sn, bs_pair, bl_index, st_tim_us,         \* the rest of sndr
  timer,                                                \* sndr.timer
  app, task, rx, cb,                                    \* where each thread is
  out, fc,                                              \* their local frames
  txq, txdone,                                          \* the CAN driver
  msg, owed, result, wire, blk, fcs                     \* history

transfer == <<len, index, sn, bs_pair, bl_index, st_tim_us>>
driver   == <<txq, txdone>>
history  == <<msg, owed, result, wire, blk, fcs>>
vars == <<state, sem, transfer, timer, app, task, rx, cb, out, fc, driver, history>>

Sending == {"SF_SENDING", "FF_SENDING", "CF_SENDING"}
States  == Sending \cup {"IDLE", "FF_FC_WAIT", "CF_SENT", "CF_FC_WAIT"}
Timers  == {"off", "N_As", "N_Bs", "N_Cs"}
Results == {"none", "N_OK", "N_TIMEOUT_As", "N_TIMEOUT_Bs", "TX_DONE"}
NoFC    == [fs |-> "CTS", bs |-> 0, st |-> 0]
NoFrame == SingleFrame(0, 0)

TypeOK ==
  /\ state \in States /\ sem \in Nat /\ sem <= SemMax /\ timer \in Timers
  /\ len \in UInt16 /\ index \in UInt16 /\ sn \in SeqNum
  /\ bs_pair \in UInt8 /\ bl_index \in UInt8 /\ st_tim_us \in Nat
  /\ app \in {"ready", "tx"}
  /\ task \in {"poll", "idle", "wait_tx", "confirm", "sf_done", "ff_done",
               "cf_done", "stmin", "tx"}
  /\ rx \in {"poll", "check", "wait", "recheck", "fc", "tx"}
  /\ cb \in {"none", "expired", "N_TIMEOUT_As", "N_TIMEOUT_Bs"}
  /\ out \in [{"app", "task", "rx"} -> Frame] /\ fc \in FlowControl
  /\ txq \in Seq(Frame) /\ txdone \in Nat
  /\ msg \in Nat /\ owed \in Int /\ result \in Results
  /\ wire \in Seq(Frame) /\ blk \in Nat /\ fcs \in Nat

Init ==
  /\ state = "IDLE" /\ sem = 0 /\ timer = "off"
  /\ len = 0 /\ index = 0 /\ sn = 0 /\ bs_pair = 0 /\ bl_index = 0 /\ st_tim_us = 0
  /\ app = "ready" /\ task = "poll" /\ rx = "poll" /\ cb = "none"
  /\ out = [t \in {"app", "task", "rx"} |-> NoFrame] /\ fc = NoFC
  /\ txq = <<>> /\ txdone = 0
  /\ msg = 0 /\ owed = 0 /\ result = "none" /\ wire = <<>> /\ blk = 0 /\ fcs = 0

\* cantp_sndr_set_state: the state, then one more token on the semaphore.
cantp_sndr_set_state(s) ==
  /\ state' = s
  /\ sem' = IF sem < SemMax THEN sem + 1 ELSE sem

\* cantp_sndr_result_cb and cantp_sndr_tx_done_cb: the session layer hears
\* how the message it is owed an answer for has ended.
Conclude(r) == result' = r /\ owed' = owed - 1

\* The timer callback is a few lines: unless timers race, no other thread
\* runs while one is under way.
Undisturbed == RacyTimers \/ cb = "none"

\* cantp_can_tx_nb(frame): the driver queues what thread t has prepared.
cantp_can_tx_nb(t) ==
  /\ Undisturbed
  /\ txq' = Append(txq, out[t])
  /\ UNCHANGED <<txdone, history>>

----------------------------------------------------------------------------
(* app: cantp_send.  The session layer sends when it is owed no answer.     *)

StartMessage ==
  /\ Undisturbed
  /\ app = "ready" /\ owed = 0 /\ msg < MaxMsgs
  /\ msg' = msg + 1 /\ owed' = owed + 1 /\ result' = "none"
  /\ wire' = <<>> /\ blk' = 0 /\ fcs' = 0
  /\ timer' = "N_As" /\ app' = "tx"
  /\ UNCHANGED <<index, sn, bs_pair, bl_index, st_tim_us, task, rx, cb, fc, driver>>

cantp_send_SF(l) ==
  /\ l <= CANTP_SF_NUM_DATA_BYTES
  /\ StartMessage
  /\ cantp_sndr_set_state("SF_SENDING")
  /\ out' = [out EXCEPT !["app"] = SingleFrame(msg + 1, l)]
  /\ UNCHANGED len

cantp_send_FF(l) ==
  /\ l > CANTP_SF_NUM_DATA_BYTES
  /\ StartMessage
  /\ len' = l
  /\ cantp_sndr_set_state("FF_SENDING")
  /\ out' = [out EXCEPT !["app"] = FirstFrame(msg + 1, l)]

cantp_send_tx ==
  /\ app = "tx" /\ app' = "ready"
  /\ cantp_can_tx_nb("app")
  /\ UNCHANGED <<state, sem, transfer, timer, task, rx, cb, out, fc>>

----------------------------------------------------------------------------
(* The next Consecutive Frame, composed by thread t from the shared index   *)
(* and sequence number: sndr_send_cf_afrer_cf and sndr_send_cf_afrer_fc.    *)

PrepareCF_Again(t) ==                     \* fault: the index does not move on
  /\ out' = [out EXCEPT ![t] =
                ConsecutiveFrame(msg, sn, index, NToSend(len - index))]
  /\ timer' = "N_As"
  /\ cantp_sndr_set_state("CF_SENDING")
  /\ UNCHANGED index

PrepareCF(t) ==
  LET n == NToSend(len - index) IN
  /\ out' = [out EXCEPT ![t] = ConsecutiveFrame(msg, sn, index, n)]
  /\ index' = U16(index + n)
  /\ timer' = "N_As"
  /\ cantp_sndr_set_state("CF_SENDING")

----------------------------------------------------------------------------
(* task: cantp_sndr_task and cantp_cantx_confirm_cb.                        *)

ByTask == Undisturbed /\ UNCHANGED <<app, rx, cb, fc, txq, msg, wire, fcs>>

\* The loop's switch on the state; in the other states the task spins.
TaskPoll ==
  /\ task = "poll"
  /\ \/ state = "IDLE" /\ task' = "idle"
     \/ state \in Sending /\ task' = "wait_tx"
  /\ ByTask
  /\ UNCHANGED <<state, sem, transfer, timer, out, txdone, owed, result, blk>>

\* cantp_sndr_wait_state_change(ctx, 0) takes a token; 0 is no timeout.
TaskWake ==
  /\ task = "idle" /\ sem > 0
  /\ sem' = sem - 1 /\ task' = "poll"
  /\ ByTask
  /\ UNCHANGED <<state, transfer, timer, out, txdone, owed, result, blk>>

\* cantp_sndr_wait_tx_done returns 0 and the task calls the confirm callback.
TaskTxDone ==
  /\ task = "wait_tx" /\ txdone > 0
  /\ txdone' = txdone - 1 /\ task' = "confirm"
  /\ ByTask
  /\ UNCHANGED <<state, sem, transfer, timer, out, owed, result, blk>>

\* It returns nonzero after N_As without a confirmation: back to the switch.
TaskTxTimeout ==
  /\ task = "wait_tx" /\ txdone = 0
  /\ task' = "poll"
  /\ ByTask
  /\ UNCHANGED <<state, sem, transfer, timer, out, txdone, owed, result, blk>>

\* The switch of cantp_cantx_confirm_cb reads the state...
ConfirmRead ==
  /\ task = "confirm"
  /\ \/ state = "SF_SENDING" /\ task' = "sf_done"
     \/ state = "FF_SENDING" /\ task' = "ff_done"
     \/ state \in {"CF_SENT", "CF_SENDING"} /\ task' = "cf_done"
     \/ state \in {"IDLE", "FF_FC_WAIT", "CF_FC_WAIT"} /\ task' = "poll"
  /\ ByTask
  /\ UNCHANGED <<state, sem, transfer, timer, out, txdone, owed, result, blk>>

\* ...and its cases act on what was read.
ConfirmSF ==
  /\ task = "sf_done" /\ task' = "poll"
  /\ cantp_sndr_set_state("IDLE")
  /\ timer' = "off"
  /\ Conclude("N_OK")
  /\ ByTask
  /\ UNCHANGED <<transfer, out, txdone, blk>>

\* Faults: N_Bs is not started; the sequence number of the last message stays.
ConfirmFF_NoTimer ==
  /\ task = "ff_done" /\ task' = "poll"
  /\ timer' = "off"
  /\ sn' = 1 /\ index' = CANTP_FF_NUM_DATA_BYTES
  /\ cantp_sndr_set_state("FF_FC_WAIT")
  /\ ByTask
  /\ UNCHANGED <<len, bs_pair, bl_index, st_tim_us, out, txdone, owed, result, blk>>

ConfirmFF_KeepSn ==
  /\ task = "ff_done" /\ task' = "poll"
  /\ timer' = "N_Bs"
  /\ index' = CANTP_FF_NUM_DATA_BYTES
  /\ cantp_sndr_set_state("FF_FC_WAIT")
  /\ ByTask
  /\ UNCHANGED <<len, sn, bs_pair, bl_index, st_tim_us, out, txdone, owed, result, blk>>

ConfirmFF ==
  /\ task = "ff_done" /\ task' = "poll"
  /\ timer' = "N_Bs"
  /\ sn' = 1 /\ index' = CANTP_FF_NUM_DATA_BYTES
  /\ cantp_sndr_set_state("FF_FC_WAIT")
  /\ ByTask
  /\ UNCHANGED <<len, bs_pair, bl_index, st_tim_us, out, txdone, owed, result, blk>>

\* The frame just confirmed completes the block the receiver asked for.
BlockComplete_Late == bs_pair > 0 /\ U8(bl_index + 1) > bs_pair  \* fault: > for >=
BlockComplete == bs_pair > 0 /\ U8(bl_index + 1) >= bs_pair

\* Fault: a remainder that still needs a frame is taken for the end.
ConfirmLastCF_Early ==
  /\ len - index <= CANTP_CF_NUM_DATA_BYTES
  /\ timer' = "off" /\ task' = "poll"
  /\ cantp_sndr_set_state("IDLE")
  /\ Conclude("TX_DONE")
  /\ UNCHANGED <<sn, bl_index, blk>>

ConfirmLastCF ==
  /\ len - index = 0
  /\ timer' = "off" /\ task' = "poll"
  /\ cantp_sndr_set_state("IDLE")
  /\ Conclude("TX_DONE")
  /\ UNCHANGED <<sn, bl_index, blk>>

\* "Error: Wrong number of remaining bytes": the timer is stopped, no more.
ConfirmPastEnd ==
  /\ len - index < 0
  /\ timer' = "off" /\ task' = "poll"
  /\ UNCHANGED <<state, sem, sn, bl_index, owed, result, blk>>

\* The block the receiver asked for is complete: wait for its Flow Control.
ConfirmBlockEnd ==
  /\ len - index > 0 /\ BlockComplete
  /\ sn' = NextSn(sn) /\ bl_index' = 0
  /\ timer' = "N_Bs" /\ task' = "poll"
  /\ cantp_sndr_set_state("CF_FC_WAIT")
  /\ UNCHANGED <<owed, result, blk>>

\* More frames in the block: CF_SENT, then sleep for STmin.
ConfirmMore ==
  /\ len - index > 0 /\ ~BlockComplete
  /\ sn' = NextSn(sn)
  /\ bl_index' = IF bs_pair > 0 THEN U8(bl_index + 1) ELSE bl_index
  /\ timer' = "off" /\ task' = "stmin"
  /\ cantp_sndr_set_state("CF_SENT")
  /\ UNCHANGED <<owed, result, blk>>

ConfirmCF ==
  /\ task = "cf_done"
  /\ ConfirmLastCF \/ ConfirmPastEnd \/ ConfirmBlockEnd \/ ConfirmMore
  /\ ByTask
  /\ UNCHANGED <<len, index, bs_pair, st_tim_us, out, txdone>>

\* STmin is over: N_Cs is started and at once stopped for N_As.
NextCF ==
  /\ task = "stmin" /\ task' = "tx"
  /\ PrepareCF("task")
  /\ blk' = blk + 1
  /\ ByTask
  /\ UNCHANGED <<len, sn, bs_pair, bl_index, st_tim_us, txdone, owed, result>>

NextCF_tx ==
  /\ task = "tx" /\ task' = "poll"
  /\ cantp_can_tx_nb("task")
  /\ UNCHANGED <<state, sem, transfer, timer, app, rx, cb, out, fc>>

----------------------------------------------------------------------------
(* rx: cantp_rx_task, the Flow Control branch of cantp_canrx_cb.            *)

ByRx == Undisturbed /\ UNCHANGED <<app, task, cb, driver, msg, owed, result, wire>>

\* cantp_can_rx returns a Flow Control frame.
cantp_can_rx(f) ==
  /\ rx = "poll" /\ rx' = "check"
  /\ fcs < MaxFCs /\ fcs' = fcs + 1
  /\ EarlyFC \/ state \in {"FF_FC_WAIT", "CF_FC_WAIT"}
  /\ fc' = f
  /\ ByRx
  /\ UNCHANGED <<state, sem, transfer, timer, out, blk>>

\* if (state != FF_FC_WAIT) wait for a state change...
FCCheck ==
  /\ rx = "check"
  /\ rx' = IF state = "FF_FC_WAIT" THEN "fc" ELSE "wait"
  /\ ByRx
  /\ UNCHANGED <<state, sem, transfer, timer, out, fc, blk, fcs>>

\* ...which is a token on the semaphore, old or new...
FCWake ==
  /\ rx = "wait" /\ sem > 0
  /\ sem' = sem - 1 /\ rx' = "recheck"
  /\ ByRx
  /\ UNCHANGED <<state, transfer, timer, out, fc, blk, fcs>>

\* ...or N_Bs later nothing, and the frame is dropped.
FCWaitTimeout ==
  /\ rx = "wait" /\ sem = 0 /\ rx' = "poll"
  /\ ByRx
  /\ UNCHANGED <<state, sem, transfer, timer, out, fc, blk, fcs>>

FCRecheck ==
  /\ rx = "recheck"
  /\ rx' = IF state = "FF_FC_WAIT" THEN "fc" ELSE "poll"
  /\ ByRx
  /\ UNCHANGED <<state, sem, transfer, timer, out, fc, blk, fcs>>

\* FC_FLOW_STATUS_CTS: the first Consecutive Frame of a block.
ClearToSend ==
  /\ fc.fs = "CTS"
  /\ IF len - index <= 0
     THEN /\ timer' = "N_As" /\ rx' = "poll"
          /\ UNCHANGED <<state, sem, index, out, blk>>
     ELSE /\ PrepareCF("rx") /\ rx' = "tx"
          /\ blk' = 1

\* FC_FLOW_STATUS_WAIT restarts N_Bs; OVF and the rest leave N_Cs running.
NotClearToSend ==
  /\ fc.fs # "CTS"
  /\ timer' = IF fc.fs = "WAIT" THEN "N_Bs" ELSE "N_Cs"
  /\ rx' = "poll"
  /\ UNCHANGED <<state, sem, index, out, blk>>

sndr_rx_flow_control_frame ==
  /\ rx = "fc"
  /\ bs_pair' = fc.bs
  /\ \/ /\ StValid(fc.st)
        /\ st_tim_us' = StDecode(fc.st)
        /\ ClearToSend \/ NotClearToSend
     \/ /\ ~StValid(fc.st)
        /\ timer' = "N_Cs" /\ rx' = "poll"
        /\ UNCHANGED <<state, sem, index, st_tim_us, out, blk>>
  /\ ByRx
  /\ UNCHANGED <<len, sn, bl_index, fc, fcs>>

FirstCF_tx ==
  /\ rx = "tx" /\ rx' = "poll"
  /\ cantp_can_tx_nb("rx")
  /\ UNCHANGED <<state, sem, transfer, timer, app, task, cb, out, fc>>

----------------------------------------------------------------------------
(* cb: the timer's notification and cantp_sndr_timer_cb.                    *)

\* Unless timers race, an expiry falls between two handlers; unless the link
\* is late, the frame N_As waits for is gone from the driver by then.
InHandler ==
  \/ app = "tx"
  \/ task \in {"confirm", "sf_done", "ff_done", "cf_done", "tx"}
  \/ rx \in {"check", "recheck", "fc", "tx"}
TxPending ==
  \/ txq # <<>>
  \/ txdone > 0 /\ (task # "idle" \/ sem > 0)

ByCb == UNCHANGED <<transfer, app, task, rx, out, fc, driver, msg, wire, blk, fcs>>

TimerExpire ==
  /\ timer # "off" /\ cb = "none"
  /\ RacyTimers \/ ~InHandler
  /\ LateTx \/ timer # "N_As" \/ ~TxPending
  /\ timer' = "off" /\ cb' = "expired"
  /\ ByCb /\ UNCHANGED <<state, sem, owed, result>>

\* Fault: the case for FF_FC_WAIT is missing.
TimerCbRead_NoBs ==
  /\ cb = "expired"
  /\ cb' = IF state \in Sending THEN "N_TIMEOUT_As" ELSE "none"
  /\ ByCb /\ UNCHANGED <<state, sem, timer, owed, result>>

TimerCbRead ==
  /\ cb = "expired"
  /\ cb' = CASE state \in Sending      -> "N_TIMEOUT_As"
             [] state = "FF_FC_WAIT"   -> "N_TIMEOUT_Bs"
             [] OTHER                  -> "none"
  /\ ByCb /\ UNCHANGED <<state, sem, timer, owed, result>>

\* Fault: the sender goes idle without a word to the session layer.
TimerCbReport_Silent ==
  /\ cb \in {"N_TIMEOUT_As", "N_TIMEOUT_Bs"}
  /\ cantp_sndr_set_state("IDLE") /\ cb' = "none"
  /\ ByCb /\ UNCHANGED <<timer, owed, result>>

TimerCbReport ==
  /\ cb \in {"N_TIMEOUT_As", "N_TIMEOUT_Bs"}
  /\ cantp_sndr_set_state("IDLE")
  /\ Conclude(cb) /\ cb' = "none"
  /\ ByCb /\ UNCHANGED timer

----------------------------------------------------------------------------
(* The CAN driver: a queued frame is sent and confirmed, or given up.       *)

DrvTransmit ==
  /\ Undisturbed /\ txq # <<>>
  /\ txq' = Tail(txq) /\ txdone' = txdone + 1
  /\ wire' = Append(wire, Head(txq))
  /\ UNCHANGED <<state, sem, transfer, timer, app, task, rx, cb, out, fc,
                 msg, owed, result, blk, fcs>>

DrvDrop ==
  /\ Undisturbed /\ txq # <<>>
  /\ txq' = Tail(txq)
  /\ UNCHANGED <<state, sem, transfer, timer, app, task, rx, cb, out, fc, txdone, history>>

----------------------------------------------------------------------------

AppStep  == (\E l \in Lens : cantp_send_SF(l) \/ cantp_send_FF(l)) \/ cantp_send_tx
TaskStep == \/ TaskPoll \/ TaskWake \/ TaskTxDone \/ TaskTxTimeout
            \/ ConfirmRead \/ ConfirmSF \/ ConfirmFF \/ ConfirmCF
            \/ NextCF \/ NextCF_tx
RxStep   == \/ FCCheck \/ FCWake \/ FCWaitTimeout \/ FCRecheck
            \/ sndr_rx_flow_control_frame \/ FirstCF_tx
CbStep   == TimerCbRead \/ TimerCbReport
PeerStep == \E f \in FCFrames : cantp_can_rx(f)
DrvStep  == DrvTransmit \/ DrvDrop

Next == AppStep \/ TaskStep \/ RxStep \/ PeerStep \/ TimerExpire \/ CbStep \/ DrvStep

Spec == Init /\ [][Next]_vars

\* Threads are scheduled, a running timer expires if nothing stops it, the
\* driver decides on every frame.  The session layer and the peer owe nothing.
Fairness ==
  /\ WF_vars(cantp_send_tx) /\ WF_vars(TaskStep) /\ WF_vars(RxStep)
  /\ WF_vars(TimerExpire) /\ WF_vars(CbStep) /\ WF_vars(DrvStep)

FairSpec == Spec /\ Fairness

----------------------------------------------------------------------------
(* Properties.                                                              *)

\* The frame that opened the current message tells its length.
MsgLen == out["app"].dl

\* The session layer is owed exactly one answer while a message is under way
\* and none while the sender is idle: no message ends twice or unreported
\* (cantp_cantx_confirm_cb and cantp_sndr_timer_cb both end messages).
OneConclusion == owed = IF state = "IDLE" THEN 0 ELSE 1

\* A state in which the sender waits for the driver or the peer has a timer
\* running or its callback under way, and CF_SENT has the task behind it, so
\* that each has a way out.  CF_FC_WAIT is not among them (see README).
NeverStranded ==
  /\ state \in Sending \cup {"FF_FC_WAIT"} => timer # "off" \/ cb # "none"
  /\ state = "CF_SENT" => task = "stmin"

\* What goes onto the bus for a message is a prefix of its segmentation: the
\* right bytes, in order, each Consecutive Frame under its sequence number,
\* whichever of the two threads composed it.
FrameStream ==
  /\ Len(wire) <= NumFrames(MsgLen)
  /\ \A k \in 1..Len(wire) : wire[k] = Segment(msg, MsgLen, k - 1)

\* The frames of the current message handed to the driver so far.
Handed == IF blk = 0 THEN 1 ELSE 1 + NumCFs(index)

\* The answer the session layer gets is true: success only when every frame
\* was transmitted, N_TIMEOUT_As only when one handed to the driver was not,
\* N_TIMEOUT_Bs only when the First Frame alone was.
HonestResult ==
  /\ result \in {"N_OK", "TX_DONE"} => Len(wire) = NumFrames(MsgLen)
  /\ result = "N_TIMEOUT_As" => Len(wire) < Handed
  /\ result = "N_TIMEOUT_Bs" => Len(wire) = 1 /\ NumFrames(MsgLen) > 1

\* No more Consecutive Frames follow a Flow Control frame than its BlockSize
\* allows, although bl_index may be left over from an aborted message.
BlockNotOverrun ==
  state \in {"CF_SENDING", "CF_SENT", "CF_FC_WAIT"} /\ bs_pair > 0 => blk <= bs_pair

\* can-tp.h, cantp_canrx_cb: a Flow Control frame of the data sending flow
\* sets the connection's parameters.  So one the sender is waiting for, or
\* is about to wait for, is not dropped.
AwaitedFCApplied ==
  [][(rx \in {"wait", "recheck"} /\ rx' = "poll")
       => state \notin {"FF_SENDING", "CF_FC_WAIT"}]_vars

\* The Sender implements the service: the parts of a message are its frames,
\* and they are out when the driver has transmitted them.
Service == INSTANCE SendService WITH
  busy    <- owed = 1,
  goal    <- NumFrames(MsgLen),
  done    <- Len(wire),
  verdict <- IF result = "none" THEN "none"
             ELSE IF result \in {"N_OK", "TX_DONE"} THEN "sent" ELSE "failed"
ImplementsService == Service!Spec

\* Every message ends, or the sender is parked in CF_FC_WAIT.
SendTerminates == owed = 1 ~> (owed = 0 \/ state = "CF_FC_WAIT")
=============================================================================
