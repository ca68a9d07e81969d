------------------------- MODULE CanTpSender_proofs -------------------------
(***************************************************************************)
(* Theorems about CanTpSender, for every set of message lengths, every set *)
(* of Flow Control frames and any number of messages.  Typing needs no     *)
(* assumption on timing; the safety theorems hold for a late link and for  *)
(* early Flow Control, but only while timers do not race with handlers;    *)
(* those about the stream of frames, for the timing the code was written   *)
(* for (no racing timers, no late link, no early Flow Control).            *)
(***************************************************************************)
EXTENDS CanTpSender, CanTpFrames_proofs, SequenceTheorems, TLAPS

InCF == {"CF_SENDING", "CF_SENT", "CF_FC_WAIT"}

\* What each thread has read is still so when it acts on it, and a timer
\* callback finds every other thread between two handlers.
ThreadsInv ==
  /\ task = "sf_done" => state = "SF_SENDING"
  /\ task = "ff_done" => state = "FF_SENDING"
  /\ task = "cf_done" => state \in {"CF_SENDING", "CF_SENT"}
  /\ task = "stmin"   => state = "CF_SENT"
  /\ rx = "fc"        => state = "FF_FC_WAIT"
  /\ cb = "N_TIMEOUT_As" => state \in Sending
  /\ cb = "N_TIMEOUT_Bs" => state = "FF_FC_WAIT"
  /\ cb # "none" => ~InHandler

\* A segmented message is longer than a First Frame, what has been composed
\* of it does not exceed it, and CF_SENT has more to compose.
IndexInv ==
  /\ state \in {"FF_SENDING", "FF_FC_WAIT"} \cup InCF => len > CANTP_SF_NUM_DATA_BYTES
  /\ state \in {"FF_FC_WAIT"} \cup InCF => index <= len
  /\ state = "CF_SENT" => index < len

\* bl_index counts at least the frames of the current block that are
\* confirmed; what an aborted message left in it only shortens the block.
BlockInv ==
  /\ bl_index < 255
  /\ bs_pair > 0 =>
       /\ state = "CF_SENDING" => blk <= bs_pair /\ blk <= bl_index + 1
       /\ state = "CF_SENT"    => blk <= bl_index /\ bl_index < bs_pair
       /\ state = "CF_FC_WAIT" => blk <= bs_pair

\* BlockInv is not part of it: nothing else depends on bl_index, which a node's
\* Receiver role writes to as well (CanTpNode).
Safe == ThreadsInv /\ IndexInv /\ OneConclusion /\ NeverStranded
IInv == TypeOK /\ Safe

----------------------------------------------------------------------------
(* Type correctness, by thread.                                             *)

\* The initial frames are well typed.
LEMMA InitTypes == NoFrame \in Frame /\ NoFC \in FlowControl
  <1>1. NoFrame \in Frame
    BY FrameTypes, StoredConstants DEF NoFrame
  <1>2. NoFC \in FlowControl
    BY StoredConstants DEF NoFC, FlowControl, FlowStatus
  <1> QED
    BY <1>1, <1>2

\* Composing a Consecutive Frame keeps out, index, timer, state and sem typed.
LEMMA PrepareCFTyped ==
  ASSUME TypeOK, NEW t \in {"task", "rx"}, PrepareCF(t)
  PROVE  /\ out' \in [{"app", "task", "rx"} -> Frame] /\ index' \in UInt16
         /\ timer' \in Timers /\ state' \in States
         /\ sem' \in Nat /\ sem' <= SemMax
  <1> DEFINE n == NToSend(len - index)
  <1>1. len - index \in Int /\ index \in Int /\ index \in UInt16 /\ sn \in SeqNum /\ msg \in Nat
    BY TypeRanges DEF TypeOK
  <1>2. n \in UInt8 /\ n \in Int
    BY <1>1, NToSendType, TypeRanges
  <1>3. ConsecutiveFrame(msg, sn, index, n) \in Frame
    BY <1>1, <1>2, FrameTypes, StoredConstants
  <1>4. U16(index + n) \in UInt16
    BY <1>1, <1>2, U16Type
  <1> HIDE DEF n
  <1>5. /\ out' = [out EXCEPT ![t] = ConsecutiveFrame(msg, sn, index, n)]
        /\ index' = U16(index + n)
    BY DEF PrepareCF, n
  <1>6. timer' = "N_As" /\ state' = "CF_SENDING"
        /\ sem' = IF sem < SemMax THEN sem + 1 ELSE sem
    BY DEF PrepareCF, cantp_sndr_set_state
  <1>7. out' \in [{"app", "task", "rx"} -> Frame]
    BY <1>3, <1>5 DEF TypeOK
  <1>8. sem' \in Nat /\ sem' <= SemMax
    BY <1>6, SemMaxAssumption DEF TypeOK
  <1> QED
    BY <1>4, <1>5, <1>6, <1>7, <1>8 DEF Timers, States, Sending

\* The session layer's thread.
LEMMA AppTyped == TypeOK /\ AppStep => TypeOK'
  <1> SUFFICES ASSUME TypeOK, AppStep PROVE TypeOK'
    OBVIOUS
  <1>1. ASSUME NEW l \in Lens, cantp_send_SF(l) PROVE TypeOK'
    <2>1. SingleFrame(msg + 1, l) \in Frame
      BY FrameTypes, StoredConstants, LensAssumption DEF TypeOK
    <2> QED
      BY <1>1, <2>1, SemMaxAssumption DEF TypeOK, cantp_send_SF, StartMessage,
         cantp_sndr_set_state, States, Sending, Timers, Results, driver
  <1>2. ASSUME NEW l \in Lens, cantp_send_FF(l) PROVE TypeOK'
    <2>1. FirstFrame(msg + 1, l) \in Frame /\ l \in UInt16
      BY FrameTypes, StoredConstants, LensAssumption DEF TypeOK
    <2> QED
      BY <1>2, <2>1, SemMaxAssumption DEF TypeOK, cantp_send_FF, StartMessage,
         cantp_sndr_set_state, States, Sending, Timers, Results, driver
  <1>3. ASSUME cantp_send_tx PROVE TypeOK'
    BY <1>3 DEF TypeOK, cantp_send_tx, cantp_can_tx_nb, transfer, history
  <1> QED
    BY <1>1, <1>2, <1>3 DEF AppStep

\* The task that waits for transmit confirmations.
LEMMA TaskTyped == TypeOK /\ TaskStep => TypeOK'
  <1> SUFFICES ASSUME TypeOK, TaskStep PROVE TypeOK'
    OBVIOUS
  <1> USE SemMaxAssumption DEF ByTask
  <1>1. ASSUME TaskPoll \/ TaskWake \/ TaskTxDone \/ TaskTxTimeout \/ ConfirmRead
        PROVE  TypeOK'
    BY <1>1 DEF TypeOK, TaskPoll, TaskWake, TaskTxDone, TaskTxTimeout, ConfirmRead, transfer
  <1>2. ASSUME ConfirmSF PROVE TypeOK'
    BY <1>2 DEF TypeOK, ConfirmSF, cantp_sndr_set_state, Conclude, transfer,
       States, Sending, Timers, Results
  <1>3. ASSUME ConfirmFF PROVE TypeOK'
    BY <1>3, StoredConstants DEF TypeOK, ConfirmFF, cantp_sndr_set_state,
       States, Sending, Timers
  <1>4. ASSUME ConfirmCF PROVE TypeOK'
    <2>1. bl_index + 1 \in Int
      BY TypeRanges DEF TypeOK
    <2>2. U8(bl_index + 1) \in UInt8 /\ NextSn(sn) \in SeqNum /\ 0 \in UInt8
      BY <2>1, U8Type, NextSnType, StoredConstants DEF TypeOK
    <2>3. CASE ConfirmLastCF \/ ConfirmPastEnd
      BY <1>4, <2>3 DEF TypeOK, ConfirmCF, ConfirmLastCF, ConfirmPastEnd,
         cantp_sndr_set_state, Conclude, States, Sending, Timers, Results
    <2>4. CASE ConfirmBlockEnd
      BY <1>4, <2>2, <2>4 DEF TypeOK, ConfirmCF, ConfirmBlockEnd,
         cantp_sndr_set_state, States, Sending, Timers
    <2>5. CASE ConfirmMore
      <3>1. bl_index' \in UInt8
        BY <2>2, <2>5 DEF TypeOK, ConfirmMore
      <3> QED
        BY <1>4, <2>2, <2>5, <3>1 DEF TypeOK, ConfirmCF, ConfirmMore,
           cantp_sndr_set_state, States, Sending, Timers
    <2> QED
      BY <1>4, <2>3, <2>4, <2>5 DEF ConfirmCF
  <1>5. ASSUME NextCF PROVE TypeOK'
    <2>1. PrepareCF("task")
      BY <1>5 DEF NextCF
    <2> QED
      BY <1>5, <2>1, PrepareCFTyped DEF TypeOK, NextCF
  <1>6. ASSUME NextCF_tx PROVE TypeOK'
    BY <1>6 DEF TypeOK, NextCF_tx, cantp_can_tx_nb, transfer, history
  <1> QED
    BY <1>1, <1>2, <1>3, <1>4, <1>5, <1>6 DEF TaskStep

\* A Flow Control frame is taken from the bus.
LEMMA FCTakenTyped == ASSUME TypeOK, NEW f \in FlowControl, cantp_can_rx(f) PROVE TypeOK'
  BY DEF TypeOK, cantp_can_rx, transfer, ByRx, driver

\* The receive thread and the frames the peer gives it.
LEMMA RxTyped == TypeOK /\ (RxStep \/ PeerStep) => TypeOK'
  <1> SUFFICES ASSUME TypeOK, RxStep \/ PeerStep PROVE TypeOK'
    OBVIOUS
  <1> USE SemMaxAssumption DEF ByRx, driver
  <1>1. ASSUME NEW f \in FCFrames, cantp_can_rx(f) PROVE TypeOK'
    BY <1>1, FCFramesAssumption, FCTakenTyped
  <1>2. ASSUME FCCheck \/ FCWake \/ FCWaitTimeout \/ FCRecheck PROVE TypeOK'
    BY <1>2 DEF TypeOK, FCCheck, FCWake, FCWaitTimeout, FCRecheck, transfer
  <1>3. ASSUME sndr_rx_flow_control_frame PROVE TypeOK'
    <2>1. fc.bs \in UInt8 /\ fc.st \in UInt8
      BY DEF TypeOK, FlowControl
    <2>2. st_tim_us' \in Nat
      BY <1>3, <2>1, StDecodeType DEF TypeOK, sndr_rx_flow_control_frame
    <2>3. bs_pair' \in UInt8 /\ UNCHANGED <<len, sn, bl_index, fc, fcs>>
          /\ UNCHANGED <<app, task, cb, driver, msg, owed, result, wire>>
      BY <1>3, <2>1 DEF sndr_rx_flow_control_frame
    <2>4. CASE PrepareCF("rx") /\ rx' = "tx" /\ blk' = 1
      BY <2>2, <2>3, <2>4, PrepareCFTyped DEF TypeOK
    <2>5. CASE /\ timer' \in {"N_As", "N_Bs", "N_Cs"} /\ rx' = "poll"
               /\ UNCHANGED <<state, sem, index, out, blk>>
      BY <2>2, <2>3, <2>5 DEF TypeOK, Timers
    <2> QED
      BY <1>3, <2>4, <2>5 DEF sndr_rx_flow_control_frame, ClearToSend, NotClearToSend
  <1>4. ASSUME FirstCF_tx PROVE TypeOK'
    BY <1>4 DEF TypeOK, FirstCF_tx, cantp_can_tx_nb, transfer, history
  <1> QED
    BY <1>1, <1>2, <1>3, <1>4 DEF RxStep, PeerStep

\* The timer callback and the driver.
LEMMA TimerDriverTyped == TypeOK /\ (TimerExpire \/ CbStep \/ DrvStep) => TypeOK'
  <1> SUFFICES ASSUME TypeOK, TimerExpire \/ CbStep \/ DrvStep PROVE TypeOK'
    OBVIOUS
  <1> USE SemMaxAssumption DEF ByCb, transfer, driver
  <1>1. ASSUME TimerExpire \/ TimerCbRead PROVE TypeOK'
    BY <1>1 DEF TypeOK, TimerExpire, TimerCbRead, Timers
  <1>2. ASSUME TimerCbReport PROVE TypeOK'
    BY <1>2 DEF TypeOK, TimerCbReport, cantp_sndr_set_state, Conclude, States, Results
  <1>3. ASSUME DrvTransmit \/ DrvDrop PROVE TypeOK'
    <2>1. txq \in Seq(Frame) /\ txq # <<>> /\ wire \in Seq(Frame) /\ txdone \in Nat
      BY <1>3 DEF TypeOK, DrvTransmit, DrvDrop
    <2>2. Head(txq) \in Frame /\ Tail(txq) \in Seq(Frame)
      BY <2>1
    <2>3. Append(wire, Head(txq)) \in Seq(Frame) /\ txdone + 1 \in Nat
      BY <2>1, <2>2
    <2>4. CASE DrvTransmit
      BY <2>2, <2>3, <2>4 DEF TypeOK, DrvTransmit
    <2>5. CASE DrvDrop
      BY <2>2, <2>5 DEF TypeOK, DrvDrop, history
    <2> QED
      BY <1>3, <2>4, <2>5
  <1> QED
    BY <1>1, <1>2, <1>3 DEF CbStep, DrvStep

LEMMA TypesStep == TypeOK /\ [Next]_vars => TypeOK'
  <1>1. TypeOK /\ UNCHANGED vars => TypeOK'
    BY DEF TypeOK, vars, transfer, driver, history
  <1> QED
    BY <1>1, AppTyped, TaskTyped, RxTyped, TimerDriverTyped DEF Next

\* Every variable of the Sender stays in its range, under every timing.
THEOREM Typing == Spec => []TypeOK
  <1>1. Init => TypeOK
    BY InitTypes, StoredConstants, SemMaxAssumption
       DEF Init, TypeOK, States, Sending, Timers, Results
  <1> QED
    BY <1>1, TypesStep, PTL DEF Spec

----------------------------------------------------------------------------
(* Safety, by thread: IInv is preserved while timers do not race.           *)

\* Where every thread but cb stands is what the invariant says of it.
LEMMA Disturbed == ASSUME ~RacyTimers, Undisturbed PROVE cb = "none"
  BY DEF Undisturbed

\* The session layer's thread starts a message only from IDLE.
LEMMA AppSafe == ASSUME ~RacyTimers, IInv, AppStep PROVE Safe'
  <1> USE DEF IInv, Safe, InCF, Sending, CANTP_SF_NUM_DATA_BYTES
  <1>1. ASSUME NEW l \in Lens, cantp_send_SF(l) PROVE Safe'
    <2>1. cb = "none" /\ cb' = "none" /\ state = "IDLE" /\ state' = "SF_SENDING"
      BY <1>1, Disturbed DEF cantp_send_SF, StartMessage, OneConclusion, cantp_sndr_set_state
    <2>2. /\ owed = 0 /\ owed' = 1 /\ timer' = "N_As"
          /\ UNCHANGED <<index, task, rx>>
      BY <1>1, <2>1 DEF cantp_send_SF, StartMessage, OneConclusion
    <2> QED
      BY <2>1, <2>2 DEF ThreadsInv, IndexInv, OneConclusion, NeverStranded
  <1>2. ASSUME NEW l \in Lens, cantp_send_FF(l) PROVE Safe'
    <2>1. cb = "none" /\ cb' = "none" /\ state = "IDLE" /\ state' = "FF_SENDING"
      BY <1>2, Disturbed DEF cantp_send_FF, StartMessage, OneConclusion, cantp_sndr_set_state
    <2>2. /\ owed = 0 /\ owed' = 1 /\ timer' = "N_As" /\ len' = l /\ l > 7
          /\ UNCHANGED <<index, task, rx>>
      BY <1>2, <2>1 DEF cantp_send_FF, StartMessage, OneConclusion
    <2> QED
      BY <2>1, <2>2 DEF ThreadsInv, IndexInv, OneConclusion, NeverStranded
  <1>3. ASSUME cantp_send_tx PROVE Safe'
    <2>1. cb = "none" /\ cb' = "none"
      BY <1>3, Disturbed DEF cantp_send_tx, cantp_can_tx_nb
    <2> QED
      BY <1>3, <2>1 DEF cantp_send_tx, cantp_can_tx_nb, transfer, history,
         ThreadsInv, IndexInv, OneConclusion, NeverStranded
  <1> QED
    BY <1>1, <1>2, <1>3 DEF AppStep

\* Steps of the task that only move it, and hand a frame over.
LEMMA TaskMovesSafe ==
  ASSUME ~RacyTimers, IInv,
         TaskPoll \/ TaskWake \/ TaskTxDone \/ TaskTxTimeout \/ ConfirmRead \/ NextCF_tx
  PROVE  Safe'
  <1>1. cb = "none" /\ cb' = "none" /\ rx' = rx
    BY Disturbed DEF TaskPoll, TaskWake, TaskTxDone, TaskTxTimeout, ConfirmRead,
       NextCF_tx, ByTask, cantp_can_tx_nb
  <1>2. UNCHANGED <<state, len, index, timer, owed>>
    BY DEF TaskPoll, TaskWake, TaskTxDone, TaskTxTimeout, ConfirmRead, NextCF_tx,
       cantp_can_tx_nb, transfer, history
  <1>3. state # "CF_SENT"
    BY DEF IInv, Safe, NeverStranded, TaskPoll, TaskWake, TaskTxDone, TaskTxTimeout,
       ConfirmRead, NextCF_tx
  <1>4. /\ task' = "sf_done" => state = "SF_SENDING"
        /\ task' = "ff_done" => state = "FF_SENDING"
        /\ task' = "cf_done" => state = "CF_SENDING"
        /\ task' # "stmin"
    BY <1>3 DEF TaskPoll, TaskWake, TaskTxDone, TaskTxTimeout, ConfirmRead, NextCF_tx
  <1> QED
    BY <1>1, <1>2, <1>3, <1>4 DEF IInv, Safe, ThreadsInv, IndexInv,
       OneConclusion, NeverStranded

\* A confirmed Consecutive Frame: the end is never passed.
LEMMA ConfirmCFSafe == ASSUME ~RacyTimers, IInv, ConfirmCF PROVE Safe'
  <1> USE DEF IInv, Safe, InCF, Sending
  <1>1. /\ cb = "none" /\ cb' = "none"
        /\ UNCHANGED <<len, index, bs_pair, rx>>
    BY Disturbed DEF ConfirmCF, ByTask
  <1>2. state = "CF_SENDING" /\ task = "cf_done" /\ index <= len /\ owed = 1 /\ rx # "fc"
    BY DEF ConfirmCF, ThreadsInv, NeverStranded, IndexInv, OneConclusion
  <1>3. index \in Nat /\ len \in Nat
    BY TypeRanges DEF TypeOK
  <1>5. CASE ConfirmLastCF
    <2>1. state' = "IDLE" /\ owed' = 0 /\ task' = "poll"
      BY <1>2, <1>5 DEF ConfirmLastCF, Conclude, cantp_sndr_set_state
    <2> QED
      BY <1>1, <1>2, <2>1 DEF ThreadsInv, IndexInv, OneConclusion, NeverStranded
  <1>6. ~ConfirmPastEnd
    BY <1>2, <1>3 DEF ConfirmPastEnd
  <1>7. CASE ConfirmBlockEnd
    <2>1. state' = "CF_FC_WAIT" /\ owed' = 1 /\ task' = "poll"
      BY <1>2, <1>7 DEF ConfirmBlockEnd, cantp_sndr_set_state
    <2>2. len > 7
      BY <1>2 DEF IndexInv, CANTP_SF_NUM_DATA_BYTES
    <2> QED
      BY <1>1, <1>2, <2>1, <2>2 DEF ThreadsInv, IndexInv, OneConclusion,
         NeverStranded, CANTP_SF_NUM_DATA_BYTES
  <1>8. CASE ConfirmMore
    <2>1. state' = "CF_SENT" /\ owed' = 1 /\ task' = "stmin"
      BY <1>2, <1>8 DEF ConfirmMore, cantp_sndr_set_state
    <2>2. index < len
      BY <1>3, <1>8 DEF ConfirmMore
    <2> QED
      BY <1>1, <1>2, <2>1, <2>2 DEF ThreadsInv, IndexInv, OneConclusion, NeverStranded
  <1> QED
    BY <1>5, <1>6, <1>7, <1>8 DEF ConfirmCF

\* A Consecutive Frame never takes more bytes than the message has left.
LEMMA PrepareCFIndex ==
  ASSUME TypeOK, NEW t \in {"task", "rx"}, PrepareCF(t), index < len
  PROVE  index' <= len
  <1> DEFINE n == NToSend(len - index)
  <1>1. index \in Nat /\ len \in Nat /\ len \in UInt16
    BY TypeRanges DEF TypeOK
  <1>2. len - index \in Nat /\ 0 < len - index
    BY <1>1
  <1>3. n \in Nat /\ n <= len - index
    BY <1>1, <1>2, NToSendRange, NToSendType, TypeRanges
  <1>4. index' = U16(index + n)
    BY DEF PrepareCF
  <1> HIDE DEF n
  <1>5. index + n \in Nat /\ index + n <= len
    BY <1>1, <1>3
  <1> QED
    BY <1>1, <1>4, <1>5, U16Below

\* The task's other steps that change the state.
LEMMA TaskSafe == ASSUME ~RacyTimers, IInv, TaskStep PROVE Safe'
  <1> USE DEF IInv, Safe, InCF, Sending
  <1>1. CASE TaskPoll \/ TaskWake \/ TaskTxDone \/ TaskTxTimeout \/ ConfirmRead \/ NextCF_tx
    BY <1>1, TaskMovesSafe
  <1>2. CASE ConfirmCF
    BY <1>2, ConfirmCFSafe
  <1>3. CASE ConfirmSF
    <2>1. cb = "none" /\ cb' = "none" /\ state = "SF_SENDING" /\ rx' = rx
      BY <1>3, Disturbed DEF ConfirmSF, ByTask, ThreadsInv
    <2>2. /\ state' = "IDLE" /\ owed' = 0 /\ task' = "poll"
          /\ UNCHANGED <<len, index>>
      BY <1>3, <2>1 DEF ConfirmSF, cantp_sndr_set_state, Conclude, OneConclusion, transfer
    <2> QED
      BY <2>1, <2>2 DEF ThreadsInv, IndexInv, OneConclusion, NeverStranded
  <1>4. CASE ConfirmFF
    <2>1. cb = "none" /\ cb' = "none" /\ state = "FF_SENDING" /\ rx' = rx
      BY <1>4, Disturbed DEF ConfirmFF, ByTask, ThreadsInv
    <2>2. /\ state' = "FF_FC_WAIT" /\ owed' = 1 /\ task' = "poll" /\ timer' = "N_Bs"
          /\ index' = 6 /\ UNCHANGED len
      BY <1>4, <2>1 DEF ConfirmFF, cantp_sndr_set_state, OneConclusion,
         CANTP_FF_NUM_DATA_BYTES
    <2>3. len > 7 /\ len \in Nat
      BY <2>1, TypeRanges DEF IndexInv, TypeOK, CANTP_SF_NUM_DATA_BYTES
    <2> QED
      BY <2>1, <2>2, <2>3 DEF ThreadsInv, IndexInv, OneConclusion, NeverStranded,
         CANTP_SF_NUM_DATA_BYTES
  <1>5. CASE NextCF
    <2>1. cb = "none" /\ cb' = "none" /\ state = "CF_SENT" /\ rx' = rx /\ rx # "fc"
      BY <1>5, Disturbed DEF NextCF, ByTask, ThreadsInv
    <2>2. /\ state' = "CF_SENDING" /\ owed' = 1 /\ task' = "tx" /\ timer' = "N_As"
          /\ UNCHANGED len
      BY <1>5, <2>1 DEF NextCF, PrepareCF, cantp_sndr_set_state, OneConclusion
    <2>3. index' <= len
      BY <1>5, <2>1, PrepareCFIndex DEF NextCF, IndexInv
    <2> QED
      BY <2>1, <2>2, <2>3 DEF ThreadsInv, IndexInv, OneConclusion, NeverStranded
  <1> QED
    BY <1>1, <1>2, <1>3, <1>4, <1>5 DEF TaskStep

LEMMA FCTakenSafe == ASSUME ~RacyTimers, IInv, NEW f, cantp_can_rx(f) PROVE Safe'
  <1> USE DEF IInv, Safe, InCF, Sending
  <1>1. cb = "none" /\ cb' = "none" /\ UNCHANGED <<app, task>> /\ rx' = "check"
    BY Disturbed DEF cantp_can_rx, ByRx
  <1>2. UNCHANGED <<state, len, index, timer, owed>>
    BY DEF cantp_can_rx, ByRx, transfer
  <1> QED
    BY <1>1, <1>2 DEF ThreadsInv, IndexInv, OneConclusion, NeverStranded

\* The receive thread: only Flow Control handling changes the state, from
\* FF_FC_WAIT to CF_SENDING, with the first frame of a block.
LEMMA RxSafe == ASSUME ~RacyTimers, IInv, RxStep \/ PeerStep PROVE Safe'
  <1> USE DEF IInv, Safe, InCF, Sending
  <1>1. CASE FCCheck \/ FCWake \/ FCWaitTimeout \/ FCRecheck \/ FirstCF_tx
    <2>1. cb = "none" /\ cb' = "none" /\ task' = task
      BY <1>1, Disturbed DEF FCCheck, FCWake, FCWaitTimeout, FCRecheck,
         FirstCF_tx, ByRx, cantp_can_tx_nb
    <2>2. UNCHANGED <<state, len, index, timer, owed>>
      BY <1>1 DEF FCCheck, FCWake, FCWaitTimeout, FCRecheck,
         FirstCF_tx, ByRx, cantp_can_tx_nb, transfer, history
    <2>3. rx' = "fc" => state = "FF_FC_WAIT"
      BY <1>1 DEF FCCheck, FCWake, FCWaitTimeout, FCRecheck, FirstCF_tx
    <2> QED
      BY <2>1, <2>2, <2>3 DEF ThreadsInv, IndexInv, OneConclusion, NeverStranded
  <1>2. CASE sndr_rx_flow_control_frame
    <2>1. /\ cb = "none" /\ cb' = "none" /\ state = "FF_FC_WAIT"
          /\ UNCHANGED <<task, len, owed>> /\ index <= len
      BY <1>2, Disturbed DEF sndr_rx_flow_control_frame, ByRx, ThreadsInv, IndexInv
    <2>2. task \notin {"sf_done", "ff_done", "cf_done", "stmin"} /\ owed = 1
      BY <2>1 DEF ThreadsInv, OneConclusion
    <2>3. CASE state' = state /\ index' = index /\ rx' = "poll" /\ timer' # "off"
      BY <2>1, <2>2, <2>3 DEF ThreadsInv, IndexInv, OneConclusion, NeverStranded
    <2>4. CASE len - index > 0 /\ PrepareCF("rx") /\ rx' = "tx" /\ blk' = 1
      <3>1. len \in Nat /\ index \in Nat
        BY TypeRanges DEF TypeOK
      <3>2. index' <= len
        BY <2>4, <3>1, PrepareCFIndex
      <3>3. state' = "CF_SENDING" /\ timer' = "N_As"
        BY <2>4 DEF PrepareCF, cantp_sndr_set_state
      <3> QED
        BY <2>1, <2>2, <2>4, <3>2, <3>3 DEF ThreadsInv, IndexInv, OneConclusion,
           NeverStranded
    <2>5. len \in Nat /\ index \in Nat
      BY TypeRanges DEF TypeOK
    <2> QED
      BY <1>2, <2>3, <2>4, <2>5 DEF sndr_rx_flow_control_frame, ClearToSend, NotClearToSend
  <1> QED
    BY <1>1, <1>2, FCTakenSafe DEF RxStep, PeerStep

\* The timer's callback runs between handlers and ends the message it found.
LEMMA TimerSafe == ASSUME ~RacyTimers, IInv, TimerExpire \/ CbStep PROVE Safe'
  <1> USE DEF IInv, Safe, InCF, Sending
  <1>1. /\ UNCHANGED <<len, index, task, rx, app>>
        /\ InHandler' = InHandler
    BY DEF TimerExpire, CbStep, TimerCbRead, TimerCbReport, ByCb, transfer, InHandler
  <1>2. ~InHandler
    BY DEF TimerExpire, CbStep, TimerCbRead, TimerCbReport, ThreadsInv
  <1>3. task \notin {"sf_done", "ff_done", "cf_done"} /\ rx # "fc"
    BY <1>2 DEF InHandler
  <1>4. CASE TimerExpire \/ TimerCbRead
    <2>1. UNCHANGED <<state, owed>>
      BY <1>4 DEF TimerExpire, TimerCbRead
    <2>2. /\ cb' = "N_TIMEOUT_As" => state \in Sending
          /\ cb' = "N_TIMEOUT_Bs" => state = "FF_FC_WAIT"
          /\ cb' = "none" => state \notin Sending \cup {"FF_FC_WAIT"}
      BY <1>4 DEF TimerExpire, TimerCbRead
    <2>3. ThreadsInv'
      BY <1>1, <1>2, <1>3, <2>1, <2>2 DEF ThreadsInv
    <2> QED
      BY <1>1, <2>1, <2>2, <2>3 DEF IndexInv, OneConclusion, NeverStranded
  <1>5. CASE TimerCbReport
    <2>1. state # "IDLE" /\ task # "stmin"
      BY <1>5 DEF TimerCbReport, ThreadsInv
    <2>2. state' = "IDLE" /\ owed' = 0 /\ cb' = "none"
      BY <1>5, <2>1 DEF TimerCbReport, cantp_sndr_set_state, Conclude, OneConclusion
    <2> QED
      BY <1>1, <1>3, <2>1, <2>2 DEF ThreadsInv, IndexInv, OneConclusion, NeverStranded
  <1> QED
    BY <1>4, <1>5 DEF CbStep

\* A step that touches nothing the invariant speaks of.
LEMMA StutterSafe ==
  ASSUME IInv, UNCHANGED <<state, len, index, timer, app, task, rx, cb, owed>> PROVE Safe'
  BY DEF IInv, Safe, InCF, Sending, InHandler, ThreadsInv, IndexInv, OneConclusion, NeverStranded

\* The driver's steps do not.
LEMMA DriverSafe == ASSUME ~RacyTimers, IInv, DrvStep \/ UNCHANGED vars PROVE Safe'
  <1>1. UNCHANGED <<state, len, index, timer, app, task, rx, cb, owed>>
    BY DEF DrvStep, DrvTransmit, DrvDrop, vars, transfer, history
  <1> QED
    BY <1>1, StutterSafe

LEMMA InitialIInv == Init => IInv
  BY InitTypes, StoredConstants, SemMaxAssumption
     DEF Init, IInv, Safe, TypeOK, States, Sending, Timers, Results, InCF, InHandler,
         ThreadsInv, IndexInv, OneConclusion, NeverStranded

\* IInv is inductive while timers do not race with handlers, however late the
\* link and however early the Flow Control.
LEMMA InvariantStep == ASSUME ~RacyTimers PROVE IInv /\ [Next]_vars => IInv'
  <1>1. IInv /\ [Next]_vars => TypeOK'
    BY TypesStep DEF IInv
  <1>2. IInv /\ [Next]_vars => Safe'
    BY AppSafe, TaskSafe, RxSafe, TimerSafe, DriverSafe DEF Next
  <1> QED
    BY <1>1, <1>2 DEF IInv

LEMMA Inductive == ASSUME ~RacyTimers PROVE Spec => []IInv
  BY InitialIInv, InvariantStep, PTL DEF Spec

\* The session layer hears exactly once how a message ended: a transmit
\* confirmation and the timer callback never both conclude it.
THEOREM Concluding == ASSUME ~RacyTimers PROVE Spec => []OneConclusion
  <1>1. IInv => OneConclusion
    BY DEF IInv, Safe
  <1> QED
    BY <1>1, Inductive, PTL

\* The sender never waits for the driver or the peer without a timer.
THEOREM Supervised == ASSUME ~RacyTimers PROVE Spec => []NeverStranded
  <1>1. IInv => NeverStranded
    BY DEF IInv, Safe
  <1> QED
    BY <1>1, Inductive, PTL

\* A Flow Control frame is taken from the bus.
LEMMA FCTakenBlock == ASSUME BlockInv, NEW f, cantp_can_rx(f) PROVE BlockInv'
  BY DEF cantp_can_rx, transfer, BlockInv

LEMMA InitialBlock == Init => BlockInv
  BY DEF Init, BlockInv

\* A block is counted until it is complete, and a Flow Control frame's opens
\* with one frame.
LEMMA BlockStep == ASSUME ~RacyTimers, IInv, BlockInv, [Next]_vars PROVE BlockInv'
  <1> USE DEF IInv, Safe, InCF, Sending
  <1>1. /\ bl_index \in Nat /\ bs_pair \in Nat /\ bs_pair <= 255 /\ blk \in Nat
        /\ U8(bl_index + 1) = bl_index + 1
    BY TypeRanges, U8Below DEF TypeOK, BlockInv
  <1>2. ASSUME bl_index' = bl_index,
               state' \notin InCF \/ UNCHANGED <<state, bs_pair, blk>>
        PROVE  BlockInv'
    BY <1>2 DEF BlockInv
  <1>3. CASE AppStep
    <2>1. ASSUME NEW l \in Lens, cantp_send_SF(l) \/ cantp_send_FF(l) PROVE BlockInv'
      <3>1. bl_index' = bl_index /\ state' \notin InCF
        BY <2>1 DEF cantp_send_SF, cantp_send_FF, StartMessage, cantp_sndr_set_state, transfer
      <3> QED
        BY <1>2, <3>1
    <2>2. ASSUME cantp_send_tx PROVE BlockInv'
      BY <1>2, <2>2 DEF cantp_send_tx, cantp_can_tx_nb, transfer, history
    <2> QED
      BY <1>3, <2>1, <2>2 DEF AppStep
  <1>4. CASE ConfirmCF
    <2>1. state = "CF_SENDING" /\ bs_pair' = bs_pair
      BY <1>4, Disturbed DEF ConfirmCF, ByTask, ThreadsInv, NeverStranded
    <2>2. CASE ConfirmLastCF \/ ConfirmPastEnd
      <3>1. bl_index' = bl_index /\ (state' \notin InCF \/ UNCHANGED <<state, blk>>)
        BY <2>2 DEF ConfirmLastCF, ConfirmPastEnd, cantp_sndr_set_state
      <3> QED
        BY <1>2, <2>1, <3>1
    <2>3. CASE ConfirmBlockEnd
      <3>1. state' = "CF_FC_WAIT" /\ bl_index' = 0 /\ blk' = blk
        BY <2>3 DEF ConfirmBlockEnd, cantp_sndr_set_state
      <3> QED
        BY <2>1, <3>1 DEF BlockInv
    <2>4. CASE ConfirmMore
      <3>1. /\ state' = "CF_SENT" /\ blk' = blk
            /\ bl_index' = IF bs_pair > 0 THEN bl_index + 1 ELSE bl_index
        BY <1>1, <2>4 DEF ConfirmMore, cantp_sndr_set_state
      <3>2. bs_pair > 0 => bl_index + 1 < bs_pair
        BY <1>1, <2>4 DEF ConfirmMore, BlockComplete
      <3> QED
        BY <1>1, <2>1, <3>1, <3>2 DEF BlockInv
    <2> QED
      BY <1>4, <2>2, <2>3, <2>4 DEF ConfirmCF
  <1>5. CASE NextCF
    <2>1. /\ state = "CF_SENT" /\ state' = "CF_SENDING" /\ blk' = blk + 1
          /\ UNCHANGED <<bs_pair, bl_index>>
      BY <1>5 DEF NextCF, PrepareCF, cantp_sndr_set_state, ThreadsInv
    <2> QED
      BY <1>1, <2>1 DEF BlockInv
  <1>6. CASE TaskStep /\ ~ConfirmCF /\ ~NextCF
    BY <1>2, <1>6 DEF TaskStep, TaskPoll, TaskWake, TaskTxDone, TaskTxTimeout, ConfirmRead,
       ConfirmSF, ConfirmFF, NextCF_tx, cantp_sndr_set_state, cantp_can_tx_nb, transfer, history
  <1>7. CASE sndr_rx_flow_control_frame
    <2>1. state = "FF_FC_WAIT" /\ bl_index' = bl_index
      BY <1>7 DEF sndr_rx_flow_control_frame, ThreadsInv
    <2>2. bs_pair' \in Nat
      BY <1>7, RxTyped, TypeRanges DEF TypeOK, RxStep
    <2>3. CASE state' = state
      BY <2>1, <2>3 DEF BlockInv
    <2>4. CASE PrepareCF("rx") /\ blk' = 1
      BY <1>1, <2>1, <2>2, <2>4 DEF PrepareCF, cantp_sndr_set_state, BlockInv
    <2> QED
      BY <1>7, <2>3, <2>4 DEF sndr_rx_flow_control_frame, ClearToSend, NotClearToSend
  <1>8. CASE PeerStep \/ (RxStep /\ ~sndr_rx_flow_control_frame)
    BY <1>2, <1>8, FCTakenBlock DEF RxStep, PeerStep, FCCheck, FCWake, FCWaitTimeout, FCRecheck,
       FirstCF_tx, ByRx, cantp_can_tx_nb, transfer, history
  <1>9. CASE TimerExpire \/ CbStep \/ DrvStep \/ UNCHANGED vars
    BY <1>2, <1>9 DEF TimerExpire, CbStep, TimerCbRead, TimerCbReport, cantp_sndr_set_state, ByCb,
       DrvStep, DrvTransmit, DrvDrop, vars, transfer, history
  <1> QED
    BY <1>3, <1>4, <1>5, <1>6, <1>7, <1>8, <1>9 DEF Next

\* A block never exceeds the BlockSize of its Flow Control frame, for every
\* BlockSize and whatever an aborted message left in bl_index.
THEOREM Blocks == ASSUME ~RacyTimers PROVE Spec => []BlockNotOverrun
  <1>1. IInv /\ BlockInv /\ [Next]_vars => BlockInv'
    BY BlockStep
  <1>2. IInv /\ BlockInv => BlockNotOverrun
    BY TypeRanges DEF IInv, BlockInv, BlockNotOverrun, TypeOK
  <1> QED
    BY InitialBlock, <1>1, <1>2, Inductive, PTL DEF Spec

----------------------------------------------------------------------------
(* What the Sender puts onto the bus, and what it tells the session layer. *)

\* The frame composed last, and where it may be.  Until it is confirmed, or
\* given up, it is in exactly one place and no other thread composes one.
LastFrame == Segment(msg, MsgLen, Handed - 1)
Quiet     == txq = <<>> /\ txdone = 0
Between   == {"poll", "idle", "wait_tx"}
Elsewhere == app = "ready" /\ rx # "tx" /\ task \in Between

Composed ==
  /\ \/ app = "tx" /\ rx # "tx" /\ task \in Between /\ out["app"] = LastFrame
     \/ app = "ready" /\ rx = "tx" /\ task \in Between /\ out["rx"] = LastFrame
     \/ app = "ready" /\ rx # "tx" /\ task = "tx" /\ out["task"] = LastFrame
  /\ Quiet /\ Len(wire) = Handed - 1 /\ cb = "none"
Queued ==
  /\ Elsewhere /\ txq = <<LastFrame>> /\ txdone = 0
  /\ Len(wire) = Handed - 1 /\ cb = "none"
Transmitted ==
  /\ Elsewhere /\ txq = <<>> /\ txdone = 1
  /\ Len(wire) = Handed /\ cb = "none"
Confirming ==
  /\ app = "ready" /\ rx # "tx" /\ task \in {"confirm", "sf_done", "ff_done", "cf_done"}
  /\ Quiet /\ Len(wire) = Handed /\ cb = "none"
GivenUp ==
  /\ Elsewhere /\ Quiet /\ Len(wire) = Handed - 1

FlightInv ==
  state \in Sending => Composed \/ Queued \/ Transmitted \/ Confirming \/ GivenUp

\* In the other states no frame is under way.
RestInv ==
  /\ state = "IDLE" => Elsewhere /\ Quiet
  /\ state = "FF_FC_WAIT" =>
       app = "ready" /\ task = "poll" /\ rx # "tx" /\ Quiet /\ Len(wire) = 1
  /\ state = "CF_SENT" =>
       app = "ready" /\ rx # "tx" /\ Quiet /\ Len(wire) = Handed
  /\ state = "CF_FC_WAIT" =>
       app = "ready" /\ task = "poll" /\ rx # "tx" /\ Quiet /\ Len(wire) = Handed

\* The frame that opened the message, and its length.
OpeningInv ==
  /\ state = "SF_SENDING" => MsgLen <= CANTP_SF_NUM_DATA_BYTES
  /\ state \in {"FF_SENDING", "FF_FC_WAIT"} \cup InCF => MsgLen = len
  /\ state # "IDLE" => out["app"] = Segment(msg, MsgLen, 0)

\* index and sn count the frames that are composed.
CountInv ==
  /\ state \in {"SF_SENDING", "FF_SENDING", "FF_FC_WAIT"} => blk = 0
  /\ state = "FF_FC_WAIT" => index = CFOffset(1) /\ sn = 1
  /\ state \in InCF =>
       /\ blk > 0 /\ Handed <= NumFrames(len)
       /\ index = IF Handed = NumFrames(len) THEN len ELSE CFOffset(Handed)
  /\ state = "CF_SENDING" => sn = (Handed - 1) % 16
  /\ state \in {"CF_SENT", "CF_FC_WAIT"} => sn = Handed % 16

\* A frame under way is supervised by N_As, and the task cannot miss its
\* confirmation.  While an answer is owed there is none yet.
Opened == {"IDLE", "SF_SENDING", "FF_SENDING"}
WaitInv ==
  /\ state \in Sending => timer \in {"N_As", "off"}
  /\ task = "idle" => state \in Opened
  /\ state # "IDLE" /\ task = "idle" => sem > 0
  /\ owed = 1 => result = "none"

Stream == FlightInv /\ RestInv /\ OpeningInv /\ CountInv /\ WaitInv /\ FrameStream /\ HonestResult
SInv == IInv /\ Stream

----------------------------------------------------------------------------
(* The arithmetic of a segmentation.                                        *)

\* NumCFs counts the whole sevens: of bytes composed, the Consecutive Frames.
LEMMA NumCFsBounds ==
  ASSUME NEW x \in Nat
  PROVE  NumCFs(x) \in Nat /\ 7 * NumCFs(x) <= x /\ x < 7 * NumCFs(x) + 7
  <1>1. x \div 7 \in Nat /\ 7 * (x \div 7) <= x /\ x < 7 * (x \div 7) + 7
    OBVIOUS
  <1>2. NumCFs(x) = x \div 7
    BY DEF NumCFs, CANTP_FF_NUM_DATA_BYTES, CANTP_CF_NUM_DATA_BYTES
  <1> QED
    BY <1>1, <1>2

LEMMA NumFramesBounds ==
  ASSUME NEW x \in Nat
  PROVE  /\ NumFrames(x) \in Nat /\ NumFrames(x) >= 1
         /\ x <= 7 => NumFrames(x) = 1
         /\ x > 7  => NumFrames(x) = 1 + NumCFs(x) /\ NumFrames(x) > 1
  <1>1. NumCFs(x) \in Nat /\ x < 7 * NumCFs(x) + 7
    BY NumCFsBounds
  <1>2. NumFrames(x) = IF x <= 7 THEN 1 ELSE 1 + NumCFs(x)
    BY DEF NumFrames, CANTP_SF_NUM_DATA_BYTES
  <1> QED
    BY <1>1, <1>2

\* The sequence number counts modulo 16.
LEMMA NextSnCounts == ASSUME NEW k \in Nat PROVE NextSn(k % 16) = (k + 1) % 16
  BY DEF NextSn

\* From the offset of Consecutive Frame h, the next frame takes what the
\* reference segmentation gives frame h, and leaves the offset of frame h + 1
\* or the end of the message.
LEMMA NextChunk ==
  ASSUME NEW l \in Nat, l > 7, NEW h \in Nat, h >= 1, CFOffset(h) < l
  PROVE  LET n == NToSend(l - CFOffset(h)) IN
         /\ n \in Nat /\ n = IF l - CFOffset(h) < 7 THEN l - CFOffset(h) ELSE 7
         /\ CFOffset(h) + n \in Nat /\ CFOffset(h) + n <= l
         /\ NumCFs(CFOffset(h) + n) = h
         /\ h + 1 <= NumFrames(l)
         /\ CFOffset(h) + n = IF h + 1 = NumFrames(l) THEN l ELSE CFOffset(h + 1)
  <1> DEFINE o == CFOffset(h)
             n == NToSend(l - o)
  <1>1. o \in Nat /\ o < l /\ o = 7 * h - 1 /\ CFOffset(h + 1) = 7 * h + 6
    BY DEF CFOffset, CANTP_FF_NUM_DATA_BYTES, CANTP_CF_NUM_DATA_BYTES
  <1>2. n = IF l - o < 7 THEN l - o ELSE 7
    BY <1>1 DEF NToSend, U8, CANTP_CF_NUM_DATA_BYTES
  <1> DEFINE q == NumCFs(l)
             r == NumCFs(o + n)
  <1>3. q \in Nat /\ 7 * q <= l /\ l < 7 * q + 7 /\ NumFrames(l) = 1 + q
    BY NumCFsBounds, NumFramesBounds
  <1> HIDE DEF o, n, q
  <1>4. n \in Nat /\ o + n \in Nat /\ o + n <= l
    BY <1>1, <1>2
  <1>5. r \in Nat /\ 7 * r <= o + n /\ o + n < 7 * r + 7
    BY <1>4, NumCFsBounds
  <1> HIDE DEF r
  <1>6. CASE l - o < 7
    <2>1. n = l - o /\ o + n = l
      BY <1>1, <1>2, <1>6
    <2>2. l <= 7 * h + 5
      BY <1>1, <1>6
    <2>3. l >= 7 * h
      BY <1>1
    <2>4. r = h /\ q = h
      BY <1>3, <1>5, <2>1, <2>2, <2>3
    <2> QED
      BY <1>1, <1>2, <1>3, <1>4, <2>1, <2>4 DEF o, n, q, r
  <1>7. CASE ~(l - o < 7)
    <2>1. n = 7 /\ o + n = 7 * h + 6
      BY <1>1, <1>2, <1>7
    <2>2. r = h
      BY <1>5, <2>1
    <2>3. h + 1 <= 1 + q /\ (h + 1 = 1 + q => o + n = l)
      BY <1>1, <1>3, <1>7, <2>1
    <2> QED
      BY <1>1, <1>2, <1>3, <1>4, <2>1, <2>2, <2>3 DEF o, n, q, r
  <1> QED
    BY <1>6, <1>7

----------------------------------------------------------------------------
(* What the invariant says of one state.                                    *)

\* The environment's timing that these theorems are about, and what is left
\* of it where early Flow Control is not ruled out but does not come before the
\* frame that opens the message is confirmed: it could take the token that the
\* task, idle until then, needs.
Timely  == ~RacyTimers /\ ~LateTx /\ ~EarlyFC
Orderly == ~RacyTimers /\ ~LateTx
RxInv   == state \in Opened => rx = "poll"

\* Frames and counts have their types.
LEMMA StreamTypes ==
  ASSUME TypeOK
  PROVE  /\ MsgLen \in Nat /\ Handed \in Nat /\ Handed >= 1 /\ NumFrames(MsgLen) \in Nat
         /\ len \in Nat /\ index \in Nat /\ msg \in Nat /\ blk \in Nat /\ Len(wire) \in Nat
         /\ blk = 0 => Handed = 1
  <1>1. out["app"] \in Frame /\ len \in UInt16 /\ index \in UInt16
    BY DEF TypeOK
  <1>2. MsgLen \in Nat
    BY <1>1, TypeRanges DEF MsgLen, Frame
  <1>3. len \in Nat /\ index \in Nat
    BY <1>1, TypeRanges
  <1>4. msg \in Nat /\ blk \in Nat /\ wire \in Seq(Frame)
    BY DEF TypeOK
  <1>5. NumCFs(index) \in Nat
    BY <1>3, NumCFsBounds
  <1>6. NumFrames(MsgLen) \in Nat /\ Len(wire) \in Nat
    BY <1>2, <1>4, NumFramesBounds, LenProperties
  <1>7. Handed = IF blk = 0 THEN 1 ELSE 1 + NumCFs(index)
    BY DEF Handed
  <1> QED
    BY <1>2, <1>3, <1>4, <1>5, <1>6, <1>7

\* A thread at its hand-over holds the last frame, and the driver has none.
LEMMA Whereabouts ==
  ASSUME SInv
  PROVE  /\ app = "tx" \/ rx = "tx" \/ task = "tx" => state \in Sending /\ Composed
         /\ task \in {"confirm", "sf_done", "ff_done", "cf_done"} => state \in Sending /\ Confirming
         /\ txq # <<>>  => state \in Sending /\ Queued
         /\ txdone > 0  => state \in Sending /\ Transmitted
         /\ task = "stmin" => state = "CF_SENT"
         /\ app \in {"ready", "tx"}
  <1>1. state \in Sending \cup {"IDLE", "FF_FC_WAIT", "CF_SENT", "CF_FC_WAIT"}
        /\ app \in {"ready", "tx"}
    BY DEF SInv, IInv, TypeOK, States
  <1>2. FlightInv /\ RestInv /\ (task = "stmin" => state = "CF_SENT")
        /\ (state = "CF_SENT" => task = "stmin")
    BY DEF SInv, Stream, IInv, Safe, ThreadsInv, NeverStranded
  <1>3. CASE state \in Sending
    BY <1>1, <1>2, <1>3 DEF FlightInv, Composed, Queued, Transmitted, Confirming, GivenUp,
       Elsewhere, Between, Quiet, Sending
  <1>4. CASE state \notin Sending
    BY <1>1, <1>2, <1>4 DEF RestInv, Elsewhere, Between, Quiet, Sending
  <1> QED
    BY <1>3, <1>4

\* What has been composed does not exceed the message.
LEMMA HandedBound ==
  ASSUME SInv, state # "IDLE" PROVE Handed <= NumFrames(MsgLen)
  <1>1. state \in Sending \cup {"FF_FC_WAIT", "CF_SENT", "CF_FC_WAIT"} /\ CountInv /\ OpeningInv
    BY DEF SInv, IInv, Stream, TypeOK, States
  <1>2. CASE state \in InCF
    BY <1>1, <1>2 DEF CountInv, OpeningInv
  <1>3. CASE state \notin InCF
    <2>1. blk = 0
      BY <1>1, <1>3 DEF CountInv, Sending, InCF
    <2> QED
      BY <2>1, StreamTypes, NumFramesBounds DEF SInv, IInv
  <1> QED
    BY <1>2, <1>3

\* The stream and the counts depend only on these variables.
LEMMA Same ==
  ASSUME UNCHANGED <<msg, out, blk, index, wire>>
  PROVE  /\ LastFrame' = LastFrame /\ Handed' = Handed /\ MsgLen' = MsgLen
         /\ FrameStream => FrameStream'
  BY DEF LastFrame, Handed, MsgLen, FrameStream

\* A token is on the semaphore after every change of the state.
LEMMA TokenGiven ==
  ASSUME TypeOK, NEW s, cantp_sndr_set_state(s) PROVE sem' > 0 /\ state' = s
  BY SemMaxAssumption DEF TypeOK, cantp_sndr_set_state

----------------------------------------------------------------------------
(* The session layer's thread.                                              *)

\* A message is opened with its one frame or its first, and an empty wire.
LEMMA MessageOpened ==
  ASSUME SInv, Orderly, StartMessage, NEW l \in Lens,
         NEW s \in {"SF_SENDING", "FF_SENDING"}, cantp_sndr_set_state(s),
         out' = [out EXCEPT !["app"] = Segment(msg + 1, l, 0)],
         Segment(msg + 1, l, 0).dl = l,
         s = "SF_SENDING" => l <= CANTP_SF_NUM_DATA_BYTES,
         s = "FF_SENDING" => len' = l
  PROVE  Stream'
  <1>1. TypeOK /\ cb = "none" /\ state = "IDLE" /\ Elsewhere /\ Quiet
    BY Disturbed DEF SInv, IInv, Safe, Stream, RestInv, StartMessage, OneConclusion, Orderly
  <1>2. /\ msg' = msg + 1 /\ result' = "none" /\ wire' = <<>> /\ blk' = 0
        /\ timer' = "N_As" /\ app' = "tx" /\ UNCHANGED <<task, rx, cb, txq, txdone>>
    BY DEF StartMessage, driver
  <1>3. out'["app"] = Segment(msg + 1, l, 0) /\ MsgLen' = l /\ Handed' = 1
    BY <1>1, <1>2 DEF TypeOK, MsgLen, Handed
  <1>4. LastFrame' = Segment(msg + 1, l, 0)
    BY <1>2, <1>3 DEF LastFrame
  <1>5. l \in Nat
    BY LensAssumption, TypeRanges
  <1>6. state' = s /\ sem' > 0
    BY <1>1, TokenGiven
  <1>7. Len(<<>>) = 0
    OBVIOUS
  <1>8. FlightInv'
    <2>1. Composed'
      BY <1>1, <1>2, <1>3, <1>4, <1>7 DEF Composed, Elsewhere, Quiet
    <2> QED
      BY <2>1 DEF FlightInv
  <1>9. RestInv'
    BY <1>6 DEF RestInv
  <1>10. OpeningInv'
    BY <1>2, <1>3, <1>6 DEF OpeningInv, InCF
  <1>11. CountInv'
    BY <1>2, <1>6 DEF CountInv, InCF
  <1>12. WaitInv'
    BY <1>2, <1>6 DEF WaitInv, Opened
  <1>13. FrameStream'
    BY <1>2, <1>3, <1>5, <1>7, NumFramesBounds DEF FrameStream
  <1>14. HonestResult'
    BY <1>2 DEF HonestResult
  <1> QED
    BY <1>8, <1>9, <1>10, <1>11, <1>12, <1>13, <1>14 DEF Stream

\* A frame handed over by the thread that composed it is queued.
LEMMA HandedOver ==
  ASSUME SInv, Orderly, NEW t \in {"app", "task", "rx"}, cantp_can_tx_nb(t),
         \/ t = "app"  /\ app = "tx" /\ app' = "ready" /\ UNCHANGED <<task, rx>>
         \/ t = "rx"   /\ rx = "tx" /\ rx' = "poll" /\ UNCHANGED <<task, app>>
         \/ t = "task" /\ task = "tx" /\ task' = "poll" /\ UNCHANGED <<app, rx>>,
         UNCHANGED <<state, sem, transfer, timer, cb, out, fc>>
  PROVE  Stream'
  <1>1. state \in Sending /\ Composed
    BY Whereabouts
  <1>2. txq = <<>> /\ out[t] = LastFrame /\ Len(wire) = Handed - 1 /\ txdone = 0 /\ cb = "none"
    BY <1>1 DEF Composed, Quiet, Between
  <1>3. txq' = <<LastFrame>> /\ txdone' = 0 /\ UNCHANGED <<msg, owed, result, wire, blk>>
    BY <1>2 DEF cantp_can_tx_nb, history
  <1>4. UNCHANGED <<state, sem, len, index, sn, timer, cb, out>>
    BY DEF transfer
  <1>5. /\ LastFrame' = LastFrame /\ Handed' = Handed /\ MsgLen' = MsgLen
        /\ FrameStream => FrameStream'
    BY <1>3, <1>4, Same
  <1>6. Elsewhere'
    BY <1>1 DEF Composed, Elsewhere, Between
  <1>7. FlightInv'
    <2>1. Queued'
      BY <1>2, <1>3, <1>4, <1>5, <1>6 DEF Queued
    <2> QED
      BY <2>1 DEF FlightInv
  <1>8. RestInv'
    BY <1>1, <1>4 DEF RestInv, Sending
  <1>9. OpeningInv' /\ CountInv'
    BY <1>3, <1>4, <1>5 DEF SInv, Stream, OpeningInv, CountInv, InCF
  <1>10. WaitInv'
    BY <1>3, <1>4 DEF SInv, Stream, WaitInv
  <1>11. FrameStream' /\ HonestResult'
    BY <1>3, <1>5 DEF SInv, Stream, HonestResult
  <1> QED
    BY <1>7, <1>8, <1>9, <1>10, <1>11 DEF Stream

LEMMA AppStream == ASSUME SInv, Orderly, AppStep PROVE Stream'
  <1>1. ASSUME NEW l \in Lens, cantp_send_SF(l) PROVE Stream'
    <2>1. Segment(msg + 1, l, 0) = SingleFrame(msg + 1, l) /\ l <= CANTP_SF_NUM_DATA_BYTES
      BY <1>1 DEF cantp_send_SF, Segment
    <2>2. SingleFrame(msg + 1, l).dl = l
      BY DEF SingleFrame
    <2> QED
      BY <1>1, <2>1, <2>2, MessageOpened DEF cantp_send_SF
  <1>2. ASSUME NEW l \in Lens, cantp_send_FF(l) PROVE Stream'
    <2>1. l \in UInt16 /\ l < 4096 /\ l \in Nat
      BY LensAssumption, TypeRanges
    <2>2. Segment(msg + 1, l, 0) = FirstFrame(msg + 1, l)
      BY <1>2, <2>1 DEF cantp_send_FF, Segment, CANTP_SF_NUM_DATA_BYTES
    <2>3. l % 4096 = l
      BY <2>1
    <2>4. FirstFrame(msg + 1, l).dl = l
      BY <2>3 DEF FirstFrame, FFLen
    <2> QED
      BY <1>2, <2>2, <2>4, MessageOpened DEF cantp_send_FF
  <1>3. ASSUME cantp_send_tx PROVE Stream'
    BY <1>3, HandedOver DEF cantp_send_tx
  <1> QED
    BY <1>1, <1>2, <1>3 DEF AppStep

----------------------------------------------------------------------------
(* Composing a Consecutive Frame, in either of the two threads.             *)

\* It is the next frame of the segmentation, and index and sn follow.
LEMMA Prepared ==
  ASSUME SInv, Orderly, NEW t \in {"task", "rx"}, PrepareCF(t),
         state \in {"FF_FC_WAIT", "CF_SENT"}, cb = "none", blk' > 0,
         UNCHANGED <<len, sn, cb, app, msg, wire, txq, txdone, owed, result>>,
         t = "task" => task' = "tx" /\ rx' = rx /\ state = "CF_SENT",
         t = "rx"   => rx' = "tx" /\ task' = task /\ state = "FF_FC_WAIT"
  PROVE  Stream' /\ Handed' = Handed + 1
  <1> DEFINE h == Handed
             n == NToSend(len - CFOffset(h))
  <1>1. /\ len \in Nat /\ len \in UInt16 /\ msg \in Nat /\ h \in Nat /\ h >= 1 /\ TypeOK
        /\ len > 7 /\ OneConclusion
    BY StreamTypes DEF SInv, IInv, Safe, TypeOK, IndexInv, InCF, CANTP_SF_NUM_DATA_BYTES
  <1>2. /\ index = CFOffset(h) /\ CFOffset(h) < len /\ sn = h % 16
        /\ Len(wire) = h /\ Quiet /\ MsgLen = len /\ app = "ready"
        /\ (state = "FF_FC_WAIT" => task = "poll") /\ (state = "CF_SENT" => rx # "tx")
        /\ out["app"] = Segment(msg, MsgLen, 0)
    <2>1. CASE state = "FF_FC_WAIT"
      <3>1. h = 1 /\ index = CFOffset(1) /\ sn = 1
        BY <2>1, StreamTypes DEF SInv, IInv, Stream, CountInv
      <3>2. CFOffset(1) = 6 /\ 1 % 16 = 1
        BY DEF CFOffset, CANTP_FF_NUM_DATA_BYTES, CANTP_CF_NUM_DATA_BYTES
      <3> QED
        BY <1>1, <2>1, <3>1, <3>2 DEF SInv, Stream, RestInv, OpeningInv
    <2>2. CASE state = "CF_SENT"
      <3>1. index < len /\ index \in Nat
        BY <2>2, StreamTypes DEF SInv, IInv, Safe, IndexInv
      <3>2. index = (IF h = NumFrames(len) THEN len ELSE CFOffset(h)) /\ sn = h % 16
        BY <2>2 DEF SInv, Stream, CountInv, InCF
      <3>3. index = CFOffset(h) /\ CFOffset(h) < len
        BY <1>1, <3>1, <3>2
      <3> QED
        BY <2>2, <3>2, <3>3 DEF SInv, Stream, RestInv, OpeningInv, InCF
    <2> QED
      BY <2>1, <2>2
  <1> HIDE DEF h
  <1>3. /\ n \in Nat /\ n = IF len - CFOffset(h) < 7 THEN len - CFOffset(h) ELSE 7
        /\ CFOffset(h) + n \in Nat /\ CFOffset(h) + n <= len
        /\ NumCFs(CFOffset(h) + n) = h
        /\ h + 1 <= NumFrames(len)
        /\ CFOffset(h) + n = IF h + 1 = NumFrames(len) THEN len ELSE CFOffset(h + 1)
    BY <1>1, <1>2, NextChunk
  <1>4. U16(CFOffset(h) + n) = CFOffset(h) + n
    BY <1>1, <1>3, U16Below
  <1>5. /\ out' = [out EXCEPT ![t] = ConsecutiveFrame(msg, h % 16, CFOffset(h), n)]
        /\ index' = CFOffset(h) + n /\ timer' = "N_As"
    BY <1>2, <1>4 DEF PrepareCF
  <1>6. ConsecutiveFrame(msg, h % 16, CFOffset(h), n) = Segment(msg, len, h)
    BY <1>1, <1>3 DEF Segment, CANTP_CF_NUM_DATA_BYTES
  <1>7. out'[t] = Segment(msg, len, h) /\ out'["app"] = out["app"]
    BY <1>1, <1>5, <1>6 DEF TypeOK
  <1>8. MsgLen' = len
    BY <1>2, <1>7 DEF MsgLen
  <1>9. blk' # 0
    OBVIOUS
  <1>10. Handed' = h + 1
    BY <1>1, <1>3, <1>5, <1>9 DEF Handed
  <1>11. LastFrame' = Segment(msg, len, h)
    BY <1>1, <1>8, <1>10 DEF LastFrame
  <1>12. state' = "CF_SENDING" /\ sem' > 0
    BY <1>1, TokenGiven DEF PrepareCF
  <1>13. FlightInv'
    <2>1. Composed'
      BY <1>1, <1>2, <1>7, <1>10, <1>11 DEF Composed, Quiet, Between
    <2> QED
      BY <2>1 DEF FlightInv
  <1>14. RestInv'
    BY <1>12 DEF RestInv
  <1>15. OpeningInv'
    BY <1>2, <1>7, <1>8, <1>12 DEF OpeningInv, InCF
  <1>16. CountInv'
    BY <1>1, <1>2, <1>3, <1>5, <1>10, <1>12 DEF CountInv, InCF
  <1>17. WaitInv'
    BY <1>2, <1>5, <1>12 DEF WaitInv, SInv, Stream
  <1>18. FrameStream'
    BY <1>2, <1>8 DEF FrameStream, SInv, Stream
  <1>19. HonestResult'
    BY <1>1 DEF HonestResult, WaitInv, OneConclusion, SInv, Stream
  <1> QED
    BY <1>10, <1>13, <1>14, <1>15, <1>16, <1>17, <1>18, <1>19 DEF Stream, h

----------------------------------------------------------------------------
(* The task.                                                                *)

\* Its steps between two handlers, up to the confirmation of a frame.
LEMMA TaskMovesStream ==
  ASSUME SInv, Orderly, TaskPoll \/ TaskWake \/ TaskTxDone \/ TaskTxTimeout \/ ConfirmRead
  PROVE  Stream'
  <1>1. UNCHANGED <<state, len, index, sn, timer, out, owed, result, blk, app, rx, cb,
                    txq, msg, wire>>
    BY DEF TaskPoll, TaskWake, TaskTxDone, TaskTxTimeout, ConfirmRead, ByTask, transfer
  <1>2. /\ LastFrame' = LastFrame /\ Handed' = Handed /\ MsgLen' = MsgLen
        /\ FrameStream => FrameStream'
    BY <1>1, Same
  <1>3. OpeningInv' /\ CountInv' /\ FrameStream' /\ HonestResult'
    BY <1>1, <1>2 DEF SInv, Stream, OpeningInv, CountInv, HonestResult, InCF
  <1>4. TypeOK /\ cb = "none"
    BY Disturbed DEF SInv, IInv, Orderly, ByTask, TaskPoll, TaskWake, TaskTxDone, TaskTxTimeout,
       ConfirmRead
  <1>5. CASE TaskPoll \/ TaskWake \/ TaskTxTimeout
    <2>1. task \in Between /\ task' \in Between /\ txdone' = txdone
      BY <1>5 DEF TaskPoll, TaskWake, TaskTxTimeout, Between
    <2>2. WaitInv'
      BY <1>1, <1>5, <2>1
         DEF SInv, Stream, WaitInv, TaskPoll, TaskWake, TaskTxTimeout, Sending, Opened
    <2>3. FlightInv'
      <3>1. Composed => Composed'
        BY <1>1, <1>2, <2>1 DEF Composed, Quiet, Between
      <3>2. Queued => Queued'
        BY <1>1, <1>2, <2>1 DEF Queued, Elsewhere
      <3>3. Transmitted => Transmitted'
        BY <1>1, <1>2, <2>1 DEF Transmitted, Elsewhere
      <3>4. GivenUp => GivenUp'
        BY <1>1, <1>2, <2>1 DEF GivenUp, Elsewhere, Quiet
      <3>5. ~Confirming
        BY <2>1 DEF Confirming, Between
      <3> QED
        BY <1>1, <3>1, <3>2, <3>3, <3>4, <3>5 DEF SInv, Stream, FlightInv
    <2>4. RestInv'
      <3>1. state \notin {"FF_FC_WAIT", "CF_FC_WAIT", "CF_SENT"}
        BY <1>5 DEF TaskPoll, TaskWake, TaskTxTimeout, SInv, Stream, RestInv, IInv, Safe,
           NeverStranded, Sending
      <3> QED
        BY <1>1, <2>1, <3>1 DEF SInv, Stream, RestInv, Elsewhere, Quiet
    <2> QED
      BY <1>3, <2>2, <2>3, <2>4 DEF Stream
  <1>6. CASE TaskTxDone
    <2>1. state \in Sending /\ Transmitted
      BY <1>6, Whereabouts DEF TaskTxDone
    <2>2. Confirming'
      BY <1>1, <1>2, <1>6, <2>1 DEF TaskTxDone, Transmitted, Confirming, Elsewhere, Quiet
    <2>3. FlightInv' /\ RestInv'
      BY <1>1, <2>1, <2>2 DEF FlightInv, RestInv, Sending
    <2>4. WaitInv'
      BY <1>1, <1>6 DEF TaskTxDone, SInv, Stream, WaitInv
    <2> QED
      BY <1>3, <2>3, <2>4 DEF Stream
  <1>7. CASE ConfirmRead
    <2>1. state \in Sending /\ Confirming
      BY <1>7, Whereabouts DEF ConfirmRead
    <2>2. Confirming'
      BY <1>1, <1>2, <1>7, <2>1 DEF ConfirmRead, Confirming, Quiet, Sending
    <2>3. FlightInv' /\ RestInv'
      BY <1>1, <2>1, <2>2 DEF FlightInv, RestInv, Sending
    <2>4. WaitInv'
      BY <1>1, <1>7, <2>1 DEF ConfirmRead, SInv, Stream, WaitInv, Sending
    <2> QED
      BY <1>3, <2>3, <2>4 DEF Stream
  <1> QED
    BY <1>5, <1>6, <1>7

\* A confirmation that is the last of its message: every frame is out.
LEMMA Sent ==
  ASSUME SInv, Orderly, state \in Sending, Confirming, Handed = NumFrames(MsgLen),
         NEW r \in {"N_OK", "TX_DONE"}, Conclude(r), cantp_sndr_set_state("IDLE"),
         task' = "poll",
         UNCHANGED <<len, index, out, blk, app, rx, cb, txq, txdone, msg, wire>>
  PROVE  Stream'
  <1>1. /\ LastFrame' = LastFrame /\ Handed' = Handed /\ MsgLen' = MsgLen
        /\ FrameStream => FrameStream'
    BY Same
  <1>2. state' = "IDLE" /\ owed' = 0 /\ result' = r
    BY DEF cantp_sndr_set_state, Conclude, SInv, IInv, Safe, OneConclusion, Sending
  <1>3. FlightInv' /\ OpeningInv' /\ CountInv'
    BY <1>2 DEF FlightInv, OpeningInv, CountInv, Sending, InCF
  <1>4. RestInv'
    BY <1>2 DEF RestInv, Elsewhere, Between, Confirming, Quiet
  <1>5. WaitInv'
    BY <1>2 DEF WaitInv, Sending
  <1>6. HonestResult'
    BY <1>1, <1>2 DEF HonestResult, Confirming
  <1> QED
    BY <1>1, <1>3, <1>4, <1>5, <1>6 DEF Stream, SInv

\* A confirmation after which the sender rests, with every composed frame out.
LEMMA Rested ==
  ASSUME SInv, Orderly, state \in Sending, Confirming,
         NEW s \in {"FF_FC_WAIT", "CF_SENT", "CF_FC_WAIT"}, cantp_sndr_set_state(s),
         s = "FF_FC_WAIT" => /\ state = "FF_SENDING" /\ index' = CFOffset(1) /\ sn' = 1,
         s # "FF_FC_WAIT" => /\ state = "CF_SENDING" /\ sn' = NextSn(sn) /\ index' = index,
         task' = IF s = "CF_SENT" THEN "stmin" ELSE "poll",
         UNCHANGED <<len, out, blk, app, rx, cb, txq, txdone, msg, wire, owed, result>>
  PROVE  Stream'
  <1>1. state' = s
    BY DEF cantp_sndr_set_state
  <1>2. /\ Handed' = Handed /\ MsgLen' = MsgLen /\ Len(wire) = Handed
        /\ FrameStream'
    BY DEF Handed, MsgLen, FrameStream, Confirming, SInv, Stream, CountInv
  <1>3. FlightInv'
    BY <1>1 DEF FlightInv, Sending
  <1>4. OpeningInv'
    BY <1>1, <1>2 DEF OpeningInv, SInv, Stream, InCF, Sending
  <1>5. CountInv'
    <2>1. CASE s = "FF_FC_WAIT"
      BY <1>1, <1>2, <2>1 DEF CountInv, SInv, Stream, InCF
    <2>2. CASE s # "FF_FC_WAIT"
      <3>1. Handed \in Nat /\ Handed - 1 \in Nat
        BY StreamTypes DEF SInv, IInv
      <3>2. sn = (Handed - 1) % 16
        BY <2>2 DEF CountInv, SInv, Stream
      <3>3. sn' = Handed % 16
        BY <2>2, <3>1, <3>2, NextSnCounts
      <3> QED
        BY <1>1, <1>2, <2>2, <3>3 DEF CountInv, SInv, Stream, InCF
    <2> QED
      BY <2>1, <2>2
  <1>6. RestInv'
    <2>1. s = "FF_FC_WAIT" => Len(wire) = 1
      BY <1>2, StreamTypes DEF CountInv, SInv, IInv, Stream
    <2> QED
      BY <1>1, <1>2, <2>1 DEF RestInv, Confirming, Quiet
  <1>7. WaitInv'
    BY <1>1 DEF WaitInv, SInv, Stream, Sending
  <1>8. HonestResult'
    BY <1>2 DEF HonestResult, WaitInv, SInv, IInv, Safe, OneConclusion, Stream, Sending
  <1> QED
    BY <1>2, <1>3, <1>4, <1>5, <1>6, <1>7, <1>8 DEF Stream

LEMMA TaskStream == ASSUME SInv, Orderly, TaskStep PROVE Stream'
  <1> USE DEF SInv, IInv, Safe
  <1>1. CASE TaskPoll \/ TaskWake \/ TaskTxDone \/ TaskTxTimeout \/ ConfirmRead
    BY <1>1, TaskMovesStream
  <1>2. CASE ConfirmSF
    <2>1. state = "SF_SENDING" /\ state \in Sending /\ Confirming
      BY <1>2, Whereabouts DEF ConfirmSF, ThreadsInv
    <2>2. Handed = NumFrames(MsgLen)
      <3>1. MsgLen <= 7 /\ blk = 0
        BY <2>1 DEF Stream, OpeningInv, CountInv, CANTP_SF_NUM_DATA_BYTES
      <3> QED
        BY <3>1, StreamTypes, NumFramesBounds
    <2> QED
      BY <1>2, <2>1, <2>2, Sent DEF ConfirmSF, ByTask, transfer
  <1>3. CASE ConfirmFF
    <2>1. state = "FF_SENDING" /\ state \in Sending /\ Confirming
      BY <1>3, Whereabouts DEF ConfirmFF, ThreadsInv
    <2>2. index' = CFOffset(1) /\ sn' = 1
      BY <1>3 DEF ConfirmFF, CFOffset, CANTP_FF_NUM_DATA_BYTES, CANTP_CF_NUM_DATA_BYTES
    <2> QED
      BY <1>3, <2>1, <2>2, Rested DEF ConfirmFF, ByTask
  <1>4. CASE ConfirmCF
    <2>1. state = "CF_SENDING" /\ state \in Sending /\ Confirming
      BY <1>4, Whereabouts DEF ConfirmCF, ThreadsInv, Sending
    <2>2. len \in Nat /\ index \in Nat /\ index <= len /\ Handed \in Nat /\ len > 7
      BY <2>1, StreamTypes DEF IndexInv, InCF, CANTP_SF_NUM_DATA_BYTES
    <2>3. CASE ConfirmLastCF
      <3>1. index = len /\ MsgLen = len
        BY <2>1, <2>2, <2>3 DEF ConfirmLastCF, Stream, OpeningInv, InCF
      <3>2. index = IF Handed = NumFrames(len) THEN len ELSE CFOffset(Handed)
        BY <2>1 DEF Stream, CountInv, InCF
      <3>3. ASSUME Handed # NumFrames(len) PROVE FALSE
        <4>1. len = 7 * Handed - 1
          BY <2>2, <3>1, <3>2, <3>3 DEF CFOffset, CANTP_FF_NUM_DATA_BYTES,
             CANTP_CF_NUM_DATA_BYTES
        <4>2. NumFrames(len) = 1 + NumCFs(len)
          BY <2>2, NumFramesBounds
        <4>3. NumCFs(len) \in Nat /\ 7 * NumCFs(len) <= len /\ len < 7 * NumCFs(len) + 7
          BY <2>2, NumCFsBounds
        <4> QED
          BY <2>2, <3>3, <4>1, <4>2, <4>3
      <3> QED
        BY <1>4, <2>1, <2>3, <3>1, <3>3, Sent DEF ConfirmCF, ConfirmLastCF, ByTask
    <2>4. ~ConfirmPastEnd
      BY <2>2 DEF ConfirmPastEnd
    <2>5. CASE ConfirmBlockEnd
      BY <1>4, <2>1, <2>5, Rested DEF ConfirmCF, ConfirmBlockEnd, ByTask
    <2>6. CASE ConfirmMore
      BY <1>4, <2>1, <2>6, Rested DEF ConfirmCF, ConfirmMore, ByTask
    <2> QED
      BY <1>4, <2>3, <2>4, <2>5, <2>6 DEF ConfirmCF
  <1>5. CASE NextCF
    <2>1. state = "CF_SENT" /\ cb = "none" /\ blk \in Nat /\ blk + 1 > 0
      BY <1>5, Disturbed, StreamTypes DEF NextCF, ByTask, ThreadsInv, Orderly
    <2> QED
      BY <1>5, <2>1, Prepared DEF NextCF, ByTask
  <1>6. CASE NextCF_tx
    BY <1>6, HandedOver DEF NextCF_tx
  <1> QED
    BY <1>1, <1>2, <1>3, <1>4, <1>5, <1>6 DEF TaskStep

----------------------------------------------------------------------------
(* The receive thread.                                                      *)

\* While the receive thread listens, nothing else depends on where it is.
LEMMA Listens ==
  ASSUME SInv, RxInv, rx # "poll" \/ state \notin Opened, rx # "tx", rx' # "tx",
         state \in Sending => timer' = timer,
         UNCHANGED <<state, len, index, sn, out, blk, app, task, cb, txq, txdone,
                     msg, owed, result, wire>>
  PROVE  Stream'
  <1>1. /\ LastFrame' = LastFrame /\ Handed' = Handed /\ MsgLen' = MsgLen
        /\ FrameStream => FrameStream'
    BY Same
  <1>2. OpeningInv' /\ CountInv' /\ FrameStream' /\ HonestResult'
    BY <1>1 DEF SInv, Stream, OpeningInv, CountInv, HonestResult, InCF
  <1>3. FlightInv' /\ RestInv'
    BY <1>1 DEF SInv, Stream, FlightInv, RestInv, Composed, Queued, Transmitted, Confirming,
       GivenUp, Elsewhere, Quiet
  <1>4. state \notin Opened
    BY DEF RxInv
  <1>5. WaitInv'
    BY <1>4 DEF SInv, Stream, WaitInv
  <1> QED
    BY <1>2, <1>3, <1>5 DEF Stream

LEMMA RxStream == ASSUME SInv, Orderly, RxInv, RxStep PROVE Stream'
  <1> USE DEF SInv, IInv, Safe
  <1>1. CASE FCCheck \/ FCWake \/ FCWaitTimeout \/ FCRecheck
    BY <1>1, Listens DEF FCCheck, FCWake, FCWaitTimeout, FCRecheck, ByRx, transfer, driver
  <1>2. CASE sndr_rx_flow_control_frame
    <2>1. /\ state = "FF_FC_WAIT" /\ cb = "none" /\ task = "poll"
          /\ UNCHANGED <<len, sn, app, task, cb, txq, txdone, msg, owed, result, wire>>
      BY <1>2, Disturbed DEF sndr_rx_flow_control_frame, ByRx, ThreadsInv, Stream, RestInv,
         driver, Orderly
    <2>2. CASE rx' = "poll" /\ UNCHANGED <<state, sem, index, out, blk>>
      BY <1>2, <2>1, <2>2, Listens DEF sndr_rx_flow_control_frame, Opened, Sending
    <2>3. CASE PrepareCF("rx") /\ rx' = "tx" /\ blk' = 1
      BY <2>1, <2>3, Prepared
    <2>4. ~(len - index <= 0)
      <3>1. index = 6 /\ len > 7 /\ len \in Nat
        BY <2>1, StreamTypes DEF IndexInv, Stream, CountInv, CFOffset,
           CANTP_FF_NUM_DATA_BYTES, CANTP_CF_NUM_DATA_BYTES, CANTP_SF_NUM_DATA_BYTES
      <3> QED
        BY <3>1
    <2> QED
      BY <1>2, <2>2, <2>3, <2>4 DEF sndr_rx_flow_control_frame, ClearToSend, NotClearToSend
  <1>3. CASE FirstCF_tx
    BY <1>3, HandedOver DEF FirstCF_tx
  <1> QED
    BY <1>1, <1>2, <1>3 DEF RxStep

\* A Flow Control frame is taken.
LEMMA TakenStream ==
  ASSUME SInv, RxInv, NEW f, cantp_can_rx(f), state \notin Opened PROVE Stream'
  BY Listens DEF cantp_can_rx, ByRx, transfer, driver

----------------------------------------------------------------------------
(* The timer's callback and the driver.                                     *)

\* N_As expires only when the frame it supervises was given up.
LEMMA ExpiredGivenUp == ASSUME SInv, Orderly, TimerExpire, state \in Sending PROVE GivenUp
  <1>1. timer = "N_As" /\ ~InHandler /\ ~TxPending /\ FlightInv /\ WaitInv
    BY DEF SInv, Stream, WaitInv, TimerExpire, Orderly
  <1>2. ~Composed /\ ~Confirming
    BY <1>1 DEF InHandler, Composed, Confirming
  <1>3. ~Queued
    <2>1. <<LastFrame>> # <<>>
      OBVIOUS
    <2> QED
      BY <1>1, <2>1 DEF TxPending, Queued
  <1>4. ~Transmitted
    BY <1>1 DEF TxPending, Transmitted, WaitInv, Sending
  <1> QED
    BY <1>1, <1>2, <1>3, <1>4 DEF FlightInv

LEMMA TimerStream == ASSUME SInv, Orderly, TimerExpire \/ CbStep PROVE Stream'
  <1> USE DEF SInv, IInv, Safe
  <1>1. UNCHANGED <<len, index, sn, out, blk, app, task, rx, txq, txdone, msg, wire>>
    BY DEF TimerExpire, CbStep, TimerCbRead, TimerCbReport, ByCb, transfer, driver
  <1>2. /\ LastFrame' = LastFrame /\ Handed' = Handed /\ MsgLen' = MsgLen
        /\ FrameStream => FrameStream'
    BY <1>1, Same
  <1>3. state \in Sending => GivenUp
    BY ExpiredGivenUp DEF CbStep, TimerCbRead, TimerCbReport, Stream, FlightInv, Composed,
       Queued, Transmitted, Confirming
  <1>4. CASE TimerExpire \/ TimerCbRead
    <2>1. UNCHANGED <<state, sem, owed, result>> /\ (timer' = timer \/ timer' = "off")
      BY <1>4 DEF TimerExpire, TimerCbRead
    <2>2. FlightInv'
      BY <1>1, <1>2, <1>3, <2>1 DEF FlightInv, GivenUp, Elsewhere, Quiet
    <2>3. RestInv' /\ OpeningInv' /\ CountInv' /\ WaitInv' /\ HonestResult'
      BY <1>1, <1>2, <2>1 DEF Stream, RestInv, OpeningInv, CountInv, WaitInv, HonestResult,
         Elsewhere, Quiet, InCF
    <2> QED
      BY <1>2, <2>2, <2>3 DEF Stream
  <1>5. CASE TimerCbReport
    <2>1. /\ state' = "IDLE" /\ result' = cb
          /\ cb = "N_TIMEOUT_As" => state \in Sending
          /\ cb = "N_TIMEOUT_Bs" => state = "FF_FC_WAIT"
          /\ cb \in {"N_TIMEOUT_As", "N_TIMEOUT_Bs"}
      BY <1>5 DEF TimerCbReport, ThreadsInv, cantp_sndr_set_state, Conclude
    <2>2. owed' = 0
      BY <1>5, <2>1 DEF TimerCbReport, Conclude, OneConclusion, Sending
    <2>3. ~InHandler
      BY <2>1 DEF ThreadsInv
    <2>4. Elsewhere /\ Quiet
      BY <1>3, <2>1, <2>3 DEF GivenUp, Stream, RestInv, Elsewhere, Between, InHandler
    <2>5. HonestResult'
      <3>1. CASE cb = "N_TIMEOUT_As"
        <4>1. Len(wire) = Handed - 1
          BY <1>3, <2>1, <3>1 DEF GivenUp
        <4>2. Len(wire) < Handed
          BY <4>1, StreamTypes
        <4> QED
          BY <1>1, <1>2, <2>1, <3>1, <4>2 DEF HonestResult
      <3>2. CASE cb = "N_TIMEOUT_Bs"
        <4>1. Len(wire) = 1 /\ MsgLen = len /\ len > 7
          BY <2>1, <3>2 DEF Stream, RestInv, OpeningInv, IndexInv, CANTP_SF_NUM_DATA_BYTES
        <4>2. NumFrames(MsgLen) > 1
          BY <4>1, StreamTypes, NumFramesBounds
        <4> QED
          BY <1>1, <1>2, <2>1, <3>2, <4>1, <4>2 DEF HonestResult
      <3> QED
        BY <2>1, <3>1, <3>2
    <2>6. FlightInv' /\ OpeningInv' /\ CountInv' /\ WaitInv'
      BY <2>1, <2>2 DEF FlightInv, OpeningInv, CountInv, WaitInv, Sending, InCF, Opened
    <2>7. RestInv'
      BY <1>1, <2>1, <2>4 DEF RestInv, Elsewhere, Quiet
    <2> QED
      BY <1>2, <2>5, <2>6, <2>7 DEF Stream
  <1> QED
    BY <1>4, <1>5 DEF CbStep

\* The driver puts the next frame of the segmentation onto the bus, or none.
LEMMA DriverStream == ASSUME SInv, Orderly, DrvStep PROVE Stream'
  <1> USE DEF SInv, IInv
  <1>1. /\ UNCHANGED <<state, sem, len, index, sn, timer, app, task, rx, cb, out, msg, owed,
                       result, blk>>
        /\ txq # <<>> /\ txq' = Tail(txq)
    BY DEF DrvStep, DrvTransmit, DrvDrop, transfer, history
  <1>2. state \in Sending /\ Queued
    BY <1>1, Whereabouts
  <1>3. /\ LastFrame' = LastFrame /\ Handed' = Handed /\ MsgLen' = MsgLen
    BY <1>1 DEF LastFrame, Handed, MsgLen
  <1>4. Head(txq) = LastFrame /\ txq' = <<>>
    BY <1>1, <1>2 DEF Queued
  <1>5. OpeningInv' /\ CountInv' /\ WaitInv' /\ RestInv'
    BY <1>1, <1>2, <1>3 DEF Stream, OpeningInv, CountInv, WaitInv, RestInv, InCF, Sending
  <1>6. HonestResult'
    BY <1>1, <1>2 DEF Stream, WaitInv, HonestResult, Safe, OneConclusion, Sending
  <1>7. CASE DrvDrop
    <2>1. txdone' = txdone /\ wire' = wire
      BY <1>7 DEF DrvDrop, history
    <2>2. GivenUp'
      BY <1>1, <1>2, <1>3, <1>4, <2>1 DEF Queued, GivenUp, Elsewhere, Quiet
    <2>3. FrameStream'
      BY <1>1, <1>3, <2>1 DEF Stream, FrameStream
    <2> QED
      BY <1>5, <1>6, <2>2, <2>3 DEF Stream, FlightInv
  <1>8. CASE DrvTransmit
    <2>1. txdone' = txdone + 1 /\ wire' = Append(wire, LastFrame)
      BY <1>4, <1>8 DEF DrvTransmit
    <2>2. wire \in Seq(Frame) /\ LastFrame \in Frame /\ Handed \in Nat
      BY <1>1, <1>4, HeadTailProperties, StreamTypes DEF TypeOK
    <2>3. /\ Len(wire') = Handed /\ wire'[Handed] = LastFrame
          /\ \A k \in 1..Len(wire) : wire'[k] = wire[k]
      BY <1>2, <2>1, <2>2, AppendProperties, LenProperties DEF Queued
    <2>4. Handed <= NumFrames(MsgLen)
      BY <1>2, HandedBound DEF Sending
    <2>5. FrameStream'
      <3>1. ASSUME NEW k \in 1..Len(wire') PROVE wire'[k] = Segment(msg, MsgLen, k - 1)
        <4>1. k = Handed \/ k \in 1..Len(wire)
          BY <1>2, <2>2, <2>3 DEF Queued
        <4> QED
          BY <2>3, <4>1 DEF LastFrame, Stream, FrameStream
      <3> QED
        BY <1>1, <1>3, <2>3, <2>4, <3>1 DEF FrameStream
    <2>6. Transmitted'
      BY <1>1, <1>2, <1>3, <1>4, <2>1, <2>3 DEF Queued, Transmitted, Elsewhere
    <2> QED
      BY <1>5, <1>6, <2>5, <2>6 DEF Stream, FlightInv
  <1> QED
    BY <1>7, <1>8 DEF DrvStep

----------------------------------------------------------------------------
(* The invariant and what it is for.                                        *)

\* A step that touches nothing of the stream.
LEMMA StillStream ==
  ASSUME SInv,
         UNCHANGED <<state, sem, len, index, sn, timer, app, task, rx, cb, out, txq, txdone,
                     msg, owed, result, wire, blk>>
  PROVE  Stream'
  <1>1. /\ LastFrame' = LastFrame /\ Handed' = Handed /\ MsgLen' = MsgLen
        /\ FrameStream => FrameStream'
    BY Same
  <1> QED
    BY <1>1 DEF SInv, Stream, FlightInv, RestInv, OpeningInv, CountInv, WaitInv,
       HonestResult, Composed, Queued, Transmitted, Confirming, GivenUp, Elsewhere, Quiet, InCF

LEMMA StutterStream == ASSUME SInv, UNCHANGED vars PROVE Stream'
  BY StillStream DEF vars, transfer, driver, history

\* SInv holds initially, and with IInv known to be an invariant every step
\* preserves the rest of it.
LEMMA StreamInit == Init => Stream
  <1> SUFFICES ASSUME Init PROVE Stream
    OBVIOUS
  <1>1. MsgLen = 0 /\ wire = <<>> /\ state = "IDLE"
    BY DEF Init, MsgLen, NoFrame, SingleFrame
  <1>2. FrameStream
    BY <1>1, NumFramesBounds, EmptySeq DEF FrameStream
  <1>3. HonestResult
    BY DEF Init, HonestResult
  <1> QED
    BY <1>1, <1>2, <1>3 DEF Init, Stream, FlightInv, RestInv, OpeningInv, CountInv, WaitInv,
       Sending, InCF, Elsewhere, Between, Quiet

LEMMA OrderlyStep == ASSUME Orderly PROVE SInv /\ RxInv /\ [Next /\ ~PeerStep]_vars => Stream'
  BY AppStream, TaskStream, RxStream, TimerStream, DriverStream, StutterStream DEF Next

\* Without early Flow Control a frame is taken only where it is awaited, and
\* has been dealt with when the sender moves on.
Awaited ==
  /\ RxInv
  /\ rx \in {"check", "fc"} => state \in {"FF_FC_WAIT", "CF_FC_WAIT"}
  /\ rx \in {"wait", "recheck"} => state = "CF_FC_WAIT"

LEMMA AwaitedStep == ASSUME Timely, SInv, Awaited, [Next]_vars PROVE Awaited'
  <1> USE DEF SInv, IInv, Safe
  <1>1. CASE AppStep
    BY <1>1, Whereabouts DEF AppStep, cantp_send_SF, cantp_send_FF, cantp_send_tx, StartMessage,
       cantp_sndr_set_state, OneConclusion, Awaited, RxInv, Opened
  <1>2. CASE TaskStep
    <2>1. rx # "poll" => task \in Between
      BY <1>2, Whereabouts DEF Awaited, Composed, Stream, RestInv, Between, TypeOK
    <2>2. rx' = rx /\ (task \in Between => state' = state)
      BY <1>2 DEF TaskStep, TaskPoll, TaskWake, TaskTxDone, TaskTxTimeout, ConfirmRead,
         ConfirmSF, ConfirmFF, ConfirmCF, NextCF, NextCF_tx, ByTask, Between
    <2> QED
      BY <2>1, <2>2 DEF Awaited, RxInv
  <1>3. CASE RxStep
    BY <1>3 DEF RxStep, FCCheck, FCWake, FCWaitTimeout, FCRecheck, sndr_rx_flow_control_frame,
       ClearToSend, NotClearToSend, PrepareCF, cantp_sndr_set_state, FirstCF_tx, Awaited, RxInv,
       Opened
  <1>4. CASE PeerStep
    BY <1>4 DEF PeerStep, cantp_can_rx, Timely, Awaited, RxInv, Opened
  <1>5. CASE TimerExpire \/ CbStep
    <2>1. rx' = rx /\ (state' = state \/ (cb \in {"N_TIMEOUT_As", "N_TIMEOUT_Bs"}))
      BY <1>5 DEF TimerExpire, CbStep, TimerCbRead, TimerCbReport, ByCb
    <2>2. cb \in {"N_TIMEOUT_As", "N_TIMEOUT_Bs"} => rx = "poll"
      BY DEF ThreadsInv, InHandler, Awaited, Sending, TypeOK
    <2> QED
      BY <2>1, <2>2 DEF Awaited, RxInv
  <1>6. CASE DrvStep \/ UNCHANGED vars
    BY <1>6 DEF DrvStep, DrvTransmit, DrvDrop, vars, transfer, Awaited, RxInv
  <1> QED
    BY <1>1, <1>2, <1>3, <1>4, <1>5, <1>6 DEF Next

LEMMA StreamNext == ASSUME Timely PROVE SInv /\ Awaited /\ [Next]_vars => (Stream /\ Awaited)'
  <1> SUFFICES ASSUME SInv, Awaited, [Next]_vars PROVE Stream' /\ Awaited'
    OBVIOUS
  <1>1. Orderly /\ RxInv
    BY DEF Timely, Orderly, Awaited
  <1>2. CASE PeerStep
    <2>1. PICK f \in FCFrames : cantp_can_rx(f)
      BY <1>2 DEF PeerStep
    <2>2. state \notin Opened
      BY <2>1 DEF cantp_can_rx, Timely, Opened
    <2> QED
      BY <1>1, <2>1, <2>2, TakenStream, AwaitedStep
  <1>3. CASE ~PeerStep
    BY <1>1, <1>3, OrderlyStep, AwaitedStep
  <1> QED
    BY <1>2, <1>3

LEMMA StreamInductive == ASSUME Timely PROVE Spec => []SInv
  <1>1. Spec => []IInv
    BY Inductive DEF Timely
  <1>2. IInv /\ (Stream /\ Awaited) /\ [Next]_vars => (Stream /\ Awaited)'
    BY StreamNext DEF SInv
  <1>3. Init => Stream /\ Awaited
    BY StreamInit DEF Init, Awaited, RxInv
  <1>4. Spec => [](Stream /\ Awaited)
    BY <1>1, <1>2, <1>3, PTL DEF Spec
  <1> QED
    BY <1>1, <1>4, PTL DEF SInv

\* The frames on the bus are a prefix of the message's segmentation, whichever
\* thread composed them and however often Flow Control made it wait.
THEOREM Segmentation == ASSUME Timely PROVE Spec => []FrameStream
  <1>1. SInv => FrameStream
    BY DEF SInv, Stream
  <1> QED
    BY <1>1, StreamInductive, PTL

\* What the session layer hears of a message is true of the bus.
THEOREM Honesty == ASSUME Timely PROVE Spec => []HonestResult
  <1>1. SInv => HonestResult
    BY DEF SInv, Stream
  <1> QED
    BY <1>1, StreamInductive, PTL

----------------------------------------------------------------------------
(* What a step of the Sender's own looks like from the other end of the bus. *)

\* How the receive thread comes by a Flow Control frame or leaves it.
Listening ==
  \/ rx' = rx
  \/ rx \in {"tx", "wait", "recheck"} /\ rx' = "poll"
  \/ rx = "check" /\ rx' = IF state = "FF_FC_WAIT" THEN "fc" ELSE "wait"
  \/ rx = "wait" /\ rx' = "recheck"
  \/ rx = "recheck" /\ rx' = "fc"

Unseen ==
  /\ UNCHANGED <<state, blk, bs_pair, bl_index>> /\ Handed' = Handed /\ Listening
  /\ state = "FF_FC_WAIT" /\ (cb' # "none" \/ timer' # "N_Bs")
       => cb # "none" \/ timer # "N_Bs" \/ TimerExpire
Refused ==
  /\ rx = "fc" /\ rx' = "poll"
  /\ UNCHANGED <<state, blk, bl_index>> /\ Handed' = Handed
FFConfirmed ==
  /\ state = "FF_SENDING" /\ state' = "FF_FC_WAIT" /\ Len(wire) = 1
  /\ timer' = "N_Bs" /\ cb' = "none" /\ UNCHANGED <<blk, bl_index, rx>>
Ended ==
  /\ state' = "IDLE" /\ rx # "tx"
  /\ \/ state = "SF_SENDING"
     \/ state = "FF_SENDING" /\ Len(wire) = 0
     \/ state = "FF_FC_WAIT" /\ cb # "none"
     \/ state = "CF_SENDING" /\ (Len(wire) = NumFrames(MsgLen) \/ Len(wire) = Handed - 1)
  /\ UNCHANGED <<blk, bl_index, rx>> /\ Handed' = Handed
Continued ==
  /\ state = "CF_SENDING" /\ state' = "CF_SENT" /\ ~BlockComplete
  /\ bl_index' = IF bs_pair > 0 THEN U8(bl_index + 1) ELSE bl_index
  /\ UNCHANGED <<blk, bs_pair, rx>> /\ Handed' = Handed
BlockEnded ==
  /\ state = "CF_SENDING" /\ state' = "CF_FC_WAIT" /\ BlockComplete
  /\ Len(wire) = Handed /\ Handed < NumFrames(MsgLen)
  /\ bl_index' = 0 /\ UNCHANGED <<blk, bs_pair, rx>> /\ Handed' = Handed
NextComposed ==
  /\ state = "CF_SENT" /\ state' = "CF_SENDING"
  /\ blk' = blk + 1 /\ Handed' = Handed + 1 /\ UNCHANGED <<bs_pair, bl_index, rx>>
FirstComposed ==
  /\ rx = "fc" /\ rx' = "tx" /\ state = "FF_FC_WAIT" /\ state' = "CF_SENDING"
  /\ blk' = 1 /\ Handed' = Handed + 1 /\ bs_pair' = fc.bs /\ bl_index' = bl_index

Seen == \/ Unseen \/ Refused \/ FFConfirmed \/ Ended
        \/ Continued \/ BlockEnded \/ NextComposed \/ FirstComposed

\* The composing threads do not touch the frame that opened the message.
LEMMA PrepareKeepsOpening ==
  ASSUME TypeOK, NEW t \in {"task", "rx"}, PrepareCF(t) PROVE MsgLen' = MsgLen
  <1>1. \E f : out' = [out EXCEPT ![t] = f]
    BY DEF PrepareCF
  <1> QED
    BY <1>1 DEF TypeOK, MsgLen

LEMMA TaskSeen ==
  ASSUME SInv, Orderly, TaskStep
  PROVE  UNCHANGED <<msg, wire, fc>> /\ MsgLen' = MsgLen /\ Seen
  <1> USE DEF SInv, IInv, Safe
  <1>1. CASE TaskPoll \/ TaskWake \/ TaskTxDone \/ TaskTxTimeout \/ ConfirmRead \/ NextCF_tx
    <2>1. UNCHANGED <<state, blk, index, bs_pair, bl_index, rx, cb, timer, out, msg, wire, fc>>
      BY <1>1 DEF TaskPoll, TaskWake, TaskTxDone, TaskTxTimeout, ConfirmRead, NextCF_tx,
         cantp_can_tx_nb, ByTask, transfer, history
    <2> QED
      BY <2>1 DEF Seen, Unseen, Listening, Handed, MsgLen
  <1>2. CASE ConfirmSF
    <2>1. state = "SF_SENDING" /\ Confirming
      BY <1>2, Whereabouts DEF ConfirmSF, ThreadsInv
    <2>2. state' = "IDLE" /\ UNCHANGED <<blk, index, bl_index, rx, out, msg, wire, fc>>
      BY <1>2 DEF ConfirmSF, ByTask, transfer, cantp_sndr_set_state
    <2> QED
      BY <2>1, <2>2 DEF Seen, Ended, Confirming, Handed, MsgLen
  <1>3. CASE ConfirmFF
    <2>1. state = "FF_SENDING" /\ Confirming /\ cb = "none" /\ blk = 0 /\ Handed = 1
      BY <1>3, Whereabouts, StreamTypes DEF ConfirmFF, ThreadsInv, Confirming, Stream, CountInv
    <2>2. /\ state' = "FF_FC_WAIT" /\ timer' = "N_Bs"
          /\ UNCHANGED <<blk, bl_index, rx, cb, out, msg, wire, fc>>
      BY <1>3 DEF ConfirmFF, ByTask, cantp_sndr_set_state
    <2> QED
      BY <2>1, <2>2 DEF Seen, FFConfirmed, Confirming, MsgLen
  <1>4. CASE ConfirmCF
    <2>1. state = "CF_SENDING" /\ state \in Sending /\ Confirming
      BY <1>4, Whereabouts DEF ConfirmCF, ThreadsInv, Sending
    <2>2. UNCHANGED <<blk, index, bs_pair, rx, out, msg, wire, fc>>
      BY <1>4 DEF ConfirmCF, ConfirmLastCF, ConfirmPastEnd, ConfirmBlockEnd, ConfirmMore, ByTask
    <2>3. Handed' = Handed /\ MsgLen' = MsgLen /\ Len(wire) = Handed /\ rx # "tx"
      BY <2>1, <2>2 DEF Handed, MsgLen, Confirming
    <2>4. len \in Nat /\ index \in Nat /\ index <= len /\ MsgLen = len /\ Handed \in Nat
          /\ NumFrames(MsgLen) \in Nat
      BY <2>1, StreamTypes DEF IndexInv, InCF, Stream, OpeningInv
    <2>5. CASE ConfirmLastCF
      <3>1. Stream'
        BY <1>4, TaskStream DEF TaskStep
      <3>2. result' = "TX_DONE" /\ state' = "IDLE" /\ bl_index' = bl_index
        BY <2>5 DEF ConfirmLastCF, Conclude, cantp_sndr_set_state
      <3>3. Len(wire) = NumFrames(MsgLen)
        BY <2>2, <2>3, <3>1, <3>2 DEF Stream, HonestResult
      <3> QED
        BY <2>1, <2>2, <2>3, <3>2, <3>3 DEF Seen, Ended
    <2>6. ~ConfirmPastEnd
      BY <2>4 DEF ConfirmPastEnd
    <2>7. CASE ConfirmBlockEnd
      <3>1. index < len
        BY <2>4, <2>7 DEF ConfirmBlockEnd
      <3>2. Handed # NumFrames(len) /\ Handed <= NumFrames(len)
        BY <2>1, <2>4, <3>1 DEF Stream, CountInv, InCF
      <3>3. state' = "CF_FC_WAIT" /\ bl_index' = 0 /\ BlockComplete
        BY <2>7 DEF ConfirmBlockEnd, cantp_sndr_set_state
      <3> QED
        BY <2>1, <2>2, <2>3, <2>4, <3>2, <3>3 DEF Seen, BlockEnded
    <2>8. CASE ConfirmMore
      BY <2>1, <2>2, <2>3, <2>8 DEF ConfirmMore, cantp_sndr_set_state, Seen, Continued
    <2> QED
      BY <1>4, <2>5, <2>6, <2>7, <2>8 DEF ConfirmCF
  <1>5. CASE NextCF
    <2>1. state = "CF_SENT" /\ cb = "none" /\ blk \in Nat /\ blk + 1 > 0
      BY <1>5, Disturbed, StreamTypes DEF NextCF, ByTask, ThreadsInv, Orderly
    <2>2. Handed' = Handed + 1
      BY <1>5, <2>1, Prepared DEF NextCF, ByTask
    <2>3. MsgLen' = MsgLen
      BY <1>5, PrepareKeepsOpening DEF NextCF
    <2> QED
      BY <1>5, <2>1, <2>2, <2>3 DEF NextCF, ByTask, PrepareCF, cantp_sndr_set_state, Seen,
         NextComposed
  <1> QED
    BY <1>1, <1>2, <1>3, <1>4, <1>5 DEF TaskStep

LEMMA RxSeen ==
  ASSUME SInv, Orderly, RxStep
  PROVE  UNCHANGED <<msg, wire, fc>> /\ MsgLen' = MsgLen /\ Seen
  <1> USE DEF SInv, IInv, Safe
  <1>1. CASE FCCheck \/ FCWake \/ FCWaitTimeout \/ FCRecheck \/ FirstCF_tx
    <2>1. UNCHANGED <<state, blk, index, bs_pair, bl_index, cb, timer, out, msg, wire, fc>>
      BY <1>1 DEF FCCheck, FCWake, FCWaitTimeout, FCRecheck, FirstCF_tx, cantp_can_tx_nb, ByRx,
         transfer, history
    <2>2. Listening
      BY <1>1 DEF FCCheck, FCWake, FCWaitTimeout, FCRecheck, FirstCF_tx, Listening
    <2> QED
      BY <2>1, <2>2 DEF Seen, Unseen, Handed, MsgLen
  <1>2. CASE sndr_rx_flow_control_frame
    <2>1. /\ state = "FF_FC_WAIT" /\ cb = "none" /\ task = "poll" /\ rx = "fc" /\ bs_pair' = fc.bs
          /\ UNCHANGED <<len, sn, bl_index, app, task, cb, txq, txdone, msg, owed, result, wire, fc>>
      BY <1>2, Disturbed DEF sndr_rx_flow_control_frame, ByRx, ThreadsInv, Stream, RestInv,
         driver, Orderly
    <2>2. CASE rx' = "poll" /\ UNCHANGED <<state, sem, index, out, blk>>
      BY <2>1, <2>2 DEF Seen, Refused, Handed, MsgLen
    <2>3. CASE PrepareCF("rx") /\ rx' = "tx" /\ blk' = 1
      <3>1. Handed' = Handed + 1
        BY <2>1, <2>3, Prepared
      <3>2. MsgLen' = MsgLen
        BY <2>3, PrepareKeepsOpening
      <3>3. state' = "CF_SENDING"
        BY <2>3 DEF PrepareCF, cantp_sndr_set_state
      <3> QED
        BY <2>1, <2>3, <3>1, <3>2, <3>3 DEF Seen, FirstComposed
    <2> QED
      BY <1>2, <2>2, <2>3 DEF sndr_rx_flow_control_frame, ClearToSend, NotClearToSend
  <1> QED
    BY <1>1, <1>2 DEF RxStep

LEMMA OthersSeen ==
  ASSUME SInv, Orderly, cantp_send_tx \/ CbStep \/ TimerExpire \/ DrvDrop
  PROVE  UNCHANGED <<msg, wire, fc>> /\ MsgLen' = MsgLen /\ Seen
  <1> USE DEF SInv, IInv, Safe
  <1>1. CASE cantp_send_tx \/ TimerCbRead \/ TimerExpire \/ DrvDrop
    <2>1. UNCHANGED <<state, blk, index, bs_pair, bl_index, rx, out, msg, wire, fc>>
      BY <1>1 DEF cantp_send_tx, TimerCbRead, TimerExpire, DrvDrop, cantp_can_tx_nb, ByCb,
         transfer, history
    <2>2. \/ UNCHANGED <<cb, timer>> \/ TimerExpire \/ cb # "none"
      BY <1>1 DEF cantp_send_tx, TimerCbRead, TimerExpire, DrvDrop
    <2> QED
      BY <2>1, <2>2 DEF Seen, Unseen, Listening, Handed, MsgLen
  <1>2. CASE TimerCbReport
    <2>1. /\ state' = "IDLE" /\ UNCHANGED <<blk, index, bl_index, rx, out, msg, wire, fc>>
          /\ cb \in {"N_TIMEOUT_As", "N_TIMEOUT_Bs"}
      BY <1>2 DEF TimerCbReport, ByCb, transfer, cantp_sndr_set_state
    <2>2. rx # "tx"
      BY <2>1 DEF ThreadsInv, InHandler
    <2>3. CASE cb = "N_TIMEOUT_Bs"
      BY <2>1, <2>2, <2>3 DEF ThreadsInv, Seen, Ended, Handed, MsgLen
    <2>4. CASE cb = "N_TIMEOUT_As"
      <3>1. state \in Sending /\ GivenUp
        BY <2>4 DEF ThreadsInv, Stream, FlightInv, Composed, Queued, Transmitted, Confirming
      <3>2. Len(wire) = Handed - 1 /\ (state = "FF_SENDING" => Len(wire) = 0)
        BY <3>1, StreamTypes DEF GivenUp, Stream, CountInv
      <3> QED
        BY <2>1, <2>2, <3>1, <3>2 DEF Seen, Ended, Handed, MsgLen, Sending
    <2> QED
      BY <2>1, <2>3, <2>4
  <1> QED
    BY <1>1, <1>2 DEF CbStep

----------------------------------------------------------------------------
(* The Sender implements the service.                                       *)

\* A step that concerns neither the answer nor the frames sent is none of the
\* service.
LEMMA Stutters ==
  ASSUME owed' = owed, result' = result, wire' = wire, MsgLen' = MsgLen
  PROVE  UNCHANGED Service!svars
  BY DEF Service!svars

\* cantp_send is the request.
LEMMA RequestMapped ==
  ASSUME SInv, StartMessage, NEW l \in Lens, MsgLen' = l
  PROVE  Service!Next
  <1>1. owed = 0 /\ owed' = 1 /\ result' = "none" /\ wire' = <<>>
    BY DEF StartMessage
  <1>2. NumFrames(l) \in Nat \ {0}
    BY LensAssumption, TypeRanges, NumFramesBounds
  <1>3. Len(<<>>) = 0
    OBVIOUS
  <1>4. Service!Request
    BY <1>1, <1>2, <1>3 DEF Service!Request
  <1> QED
    BY <1>4 DEF Service!Next

LEMMA AppMapped == ASSUME SInv, AppStep PROVE [Service!Next]_(Service!svars)
  <1>1. ASSUME NEW l \in Lens, cantp_send_SF(l) PROVE Service!Next
    <2>1. out' = [out EXCEPT !["app"] = SingleFrame(msg + 1, l)]
      BY <1>1 DEF cantp_send_SF
    <2>2. MsgLen' = l
      BY <2>1 DEF MsgLen, SingleFrame, SInv, IInv, TypeOK
    <2> QED
      BY <1>1, <2>2, RequestMapped DEF cantp_send_SF
  <1>2. ASSUME NEW l \in Lens, cantp_send_FF(l) PROVE Service!Next
    <2>1. out' = [out EXCEPT !["app"] = FirstFrame(msg + 1, l)]
      BY <1>2 DEF cantp_send_FF
    <2>2. l \in Nat /\ l < 4096
      BY LensAssumption, TypeRanges
    <2>3. FFLen(l) = l
      BY <2>2 DEF FFLen
    <2>4. MsgLen' = l
      BY <2>1, <2>3 DEF MsgLen, FirstFrame, SInv, IInv, TypeOK
    <2> QED
      BY <1>2, <2>4, RequestMapped DEF cantp_send_FF
  <1>3. ASSUME cantp_send_tx PROVE UNCHANGED Service!svars
    BY <1>3, Stutters DEF cantp_send_tx, cantp_can_tx_nb, history, MsgLen
  <1> QED
    BY <1>1, <1>2, <1>3 DEF AppStep

\* A success reported is the service's, with every part out.
LEMMA ConfirmMapped ==
  ASSUME SInv, SInv', state # "IDLE", owed' = owed - 1, result' \in {"N_OK", "TX_DONE"},
         wire' = wire, MsgLen' = MsgLen
  PROVE  Service!Next
  <1>1. owed = 1 /\ owed' = 0 /\ result = "none"
    BY DEF SInv, IInv, Safe, OneConclusion, Stream, WaitInv
  <1>2. Len(wire) = NumFrames(MsgLen)
    BY DEF SInv, Stream, HonestResult
  <1>3. Service!Confirm
    BY <1>1, <1>2 DEF Service!Confirm
  <1> QED
    BY <1>3 DEF Service!Next

LEMMA TaskMapped == ASSUME SInv, SInv', TaskStep PROVE [Service!Next]_(Service!svars)
  <1> USE DEF SInv, IInv, Safe
  <1>1. CASE TaskPoll \/ TaskWake \/ TaskTxDone \/ TaskTxTimeout \/ ConfirmRead \/ ConfirmFF
             \/ NextCF_tx
    BY <1>1, Stutters DEF TaskPoll, TaskWake, TaskTxDone, TaskTxTimeout, ConfirmRead,
       ConfirmFF, NextCF_tx, cantp_can_tx_nb, ByTask, history, MsgLen
  <1>2. CASE ConfirmSF
    BY <1>2, ConfirmMapped DEF ConfirmSF, ByTask, Conclude, MsgLen, ThreadsInv
  <1>3. CASE ConfirmCF
    <2>1. CASE ConfirmLastCF
      BY <1>3, <2>1, ConfirmMapped DEF ConfirmCF, ConfirmLastCF, ByTask, Conclude, MsgLen,
         ThreadsInv
    <2>2. CASE ~ConfirmLastCF
      BY <1>3, <2>2, Stutters DEF ConfirmCF, ConfirmPastEnd, ConfirmBlockEnd, ConfirmMore,
         ByTask, MsgLen
    <2> QED
      BY <2>1, <2>2
  <1>4. CASE NextCF
    BY <1>4, Stutters, PrepareKeepsOpening DEF NextCF, ByTask
  <1> QED
    BY <1>1, <1>2, <1>3, <1>4 DEF TaskStep

LEMMA RxMapped == ASSUME SInv, RxStep \/ PeerStep PROVE UNCHANGED Service!svars
  <1>1. owed' = owed /\ result' = result /\ wire' = wire
    BY DEF RxStep, PeerStep, cantp_can_rx, FCCheck, FCWake, FCWaitTimeout, FCRecheck,
       sndr_rx_flow_control_frame, FirstCF_tx, cantp_can_tx_nb, ByRx, history
  <1>2. CASE sndr_rx_flow_control_frame /\ PrepareCF("rx")
    BY <1>1, <1>2, Stutters, PrepareKeepsOpening DEF SInv, IInv
  <1>3. CASE ~(sndr_rx_flow_control_frame /\ PrepareCF("rx"))
    <2>1. out' = out
      BY <1>3 DEF RxStep, PeerStep, cantp_can_rx, FCCheck, FCWake, FCWaitTimeout, FCRecheck,
         sndr_rx_flow_control_frame, ClearToSend, NotClearToSend, FirstCF_tx
    <2> QED
      BY <1>1, <2>1, Stutters DEF MsgLen
  <1> QED
    BY <1>2, <1>3

\* A timeout reported is the service's failure, with a part missing.
LEMMA TimerMapped ==
  ASSUME SInv, TimerExpire \/ CbStep PROVE [Service!Next]_(Service!svars)
  <1> USE DEF SInv, IInv, Safe
  <1>1. CASE TimerExpire \/ TimerCbRead
    BY <1>1, Stutters DEF TimerExpire, TimerCbRead, ByCb, MsgLen
  <1>2. CASE TimerCbReport
    <2>1. /\ state # "IDLE" /\ wire' = wire /\ MsgLen' = MsgLen /\ owed' = owed - 1
          /\ result' \in {"N_TIMEOUT_As", "N_TIMEOUT_Bs"}
      BY <1>2 DEF TimerCbReport, ByCb, Conclude, ThreadsInv, Sending, MsgLen
    <2>2. owed = 1 /\ owed' = 0 /\ result = "none"
      BY <2>1 DEF OneConclusion, Stream, WaitInv
    <2>3. Len(wire) < NumFrames(MsgLen)
      <3>1. CASE state \in Sending
        <4>1. GivenUp
          BY <1>2, <3>1 DEF TimerCbReport, Stream, FlightInv, Composed, Queued, Transmitted,
             Confirming
        <4> QED
          BY <2>1, <4>1, HandedBound, StreamTypes DEF GivenUp
      <3>2. CASE state = "FF_FC_WAIT"
        <4>1. Len(wire) = 1 /\ MsgLen = len /\ len > 7
          BY <3>2 DEF Stream, RestInv, OpeningInv, IndexInv, CANTP_SF_NUM_DATA_BYTES
        <4> QED
          BY <4>1, StreamTypes, NumFramesBounds
      <3> QED
        BY <1>2, <3>1, <3>2 DEF TimerCbReport, ThreadsInv
    <2>4. Service!TimeOut
      BY <2>1, <2>2, <2>3 DEF Service!TimeOut
    <2> QED
      BY <2>4 DEF Service!Next
  <1> QED
    BY <1>1, <1>2 DEF CbStep

\* A frame the driver transmits is one part out.
LEMMA DriverMapped == ASSUME SInv, DrvStep PROVE [Service!Next]_(Service!svars)
  <1>1. CASE DrvDrop
    BY <1>1, Stutters DEF DrvDrop, history, MsgLen
  <1>2. CASE DrvTransmit
    <2>1. state \in Sending /\ Queued /\ state # "IDLE"
      BY <1>2, Whereabouts DEF DrvTransmit, Sending
    <2>2. owed = 1 /\ owed' = 1 /\ result' = result /\ MsgLen' = MsgLen
      BY <1>2, <2>1 DEF DrvTransmit, SInv, IInv, Safe, OneConclusion, MsgLen
    <2>3. Len(wire) < NumFrames(MsgLen)
      BY <2>1, HandedBound, StreamTypes DEF Queued, SInv, IInv
    <2>4. Len(wire') = Len(wire) + 1
      <3>1. wire \in Seq(Frame) /\ Head(txq) \in Frame
        BY <1>2, HeadTailProperties DEF DrvTransmit, SInv, IInv, TypeOK
      <3> QED
        BY <1>2, <3>1, AppendProperties DEF DrvTransmit
    <2>5. Service!Progress
      BY <2>2, <2>3, <2>4 DEF Service!Progress
    <2> QED
      BY <2>5 DEF Service!Next
  <1> QED
    BY <1>1, <1>2 DEF DrvStep

\* The Sender, with its frames, timers and threads, is the service promised to
\* the session layer.
THEOREM Implementation == ASSUME Timely PROVE Spec => ImplementsService
  <1>1. Init => Service!Init
    <2> SUFFICES ASSUME Init PROVE Service!Init
      OBVIOUS
    <2>1. MsgLen = 0 /\ wire = <<>> /\ owed = 0 /\ result = "none"
      BY DEF Init, MsgLen, NoFrame, SingleFrame
    <2>2. NumFrames(0) \in Nat /\ Len(<<>>) = 0
      BY NumFramesBounds
    <2> QED
      BY <2>1, <2>2 DEF Service!Init
  <1>2. SInv /\ SInv' /\ [Next]_vars => [Service!Next]_(Service!svars)
    <2>1. ASSUME UNCHANGED vars PROVE UNCHANGED Service!svars
      BY <2>1, Stutters DEF vars, history, MsgLen
    <2> QED
      BY <2>1, AppMapped, TaskMapped, RxMapped, TimerMapped, DriverMapped DEF Next
  <1> QED
    BY <1>1, <1>2, StreamInductive, PTL DEF Spec, ImplementsService, Service!Spec
=============================================================================
