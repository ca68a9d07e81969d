--------------------------- MODULE CanTpNode_proofs ---------------------------
(***************************************************************************)
(* Theorems about CanTpNode, for any message lengths, Flow Control frames  *)
(* and parameters: which of the roles' properties one node's two roles     *)
(* keep although they share bl_index, the receive thread and the result    *)
(* callback.  The lemmas about the roles are those of the roles' own       *)
(* proofs: SP!Op and S!Op are the same formula, and so are RP!Op and R!Op. *)
(***************************************************************************)
EXTENDS CanTpNode, CanTpFrames_proofs, TLAPS

\* The Sender role, with its theorems.
SP == INSTANCE CanTpSender_proofs WITH
  SemMax <- 1, RacyTimers <- FALSE, LateTx <- FALSE, EarlyFC <- FALSE

\* The Receiver role, with its theorems.
RP == INSTANCE CanTpReassembly_proofs WITH
  rx <- rrx, Lens <- PeerLens, MaxMsgs <- MaxPeerMsgs, LateFC <- FALSE

----------------------------------------------------------------------------
(* The instances meet the assumptions of their modules.                    *)

\* The lengths, Flow Control frames and parameters of the C types: what the
\* modules of the two roles assume.
Setting ==
  /\ \A l \in Lens : l \in UInt16 /\ l < 4096
  /\ PeerLens \in [Peers -> SUBSET (0..4095)] /\ Self \notin Peers
  /\ FCFrames \subseteq FlowControl
  /\ Params \subseteq [block_size : UInt8, st_min : UInt8, wft_num : UInt8]
  /\ {MaxMsgs, MaxFCs, MaxPeerMsgs, MaxLost, MaxTxFail} \subseteq Nat

\* Those of CanTpSender.
LEMMA SenderAssumptions == Setting =>
  /\ \A l \in Lens : l \in SP!UInt16 /\ l < 4096
  /\ FCFrames \subseteq SP!FlowControl
  /\ 1 \in Nat \ {0}
  /\ MaxMsgs \in Nat /\ MaxFCs \in Nat
  /\ {FALSE, FALSE, FALSE} \subseteq BOOLEAN
  <1>1. SP!UInt16 = UInt16
    BY DEF SP!UInt16, UInt16
  <1>2. SP!FlowControl = FlowControl
    BY DEF SP!FlowControl, SP!FlowStatus, SP!UInt8, FlowControl, FlowStatus, UInt8
  <1>3. 1 \in Nat \ {0} /\ {FALSE, FALSE, FALSE} \subseteq BOOLEAN
    OBVIOUS
  <1> QED
    BY <1>1, <1>2, <1>3 DEF Setting

\* Those of CanTpReceiver.
LEMMA ReceiverAssumptions == Setting =>
  /\ Self \notin Peers
  /\ PeerLens \in [Peers -> SUBSET RP!Lengths]
  /\ Params \subseteq [block_size : RP!UInt8, st_min : RP!UInt8, wft_num : RP!UInt8]
  /\ FALSE \in BOOLEAN
  /\ MaxPeerMsgs \in Nat /\ MaxLost \in Nat /\ MaxTxFail \in Nat
  <1>1. RP!Lengths = 0..4095 /\ RP!UInt8 = UInt8
    BY DEF RP!Lengths, RP!UInt8, UInt8
  <1> QED
    BY <1>1 DEF Setting

----------------------------------------------------------------------------
(* The actions of the instances.                                           *)

\* The frames a message is cut into.
LEMMA SenderFrames ==
  /\ \A l : S!NumCFs(l) = SP!NumCFs(l) /\ S!NumFrames(l) = SP!NumFrames(l)
  /\ \A m, l, k : S!Segment(m, l, k) = SP!Segment(m, l, k)
  BY DEF
         S!NumCFs, SP!NumCFs, S!NumFrames, SP!NumFrames, S!Segment, SP!Segment,
         S!CFOffset, SP!CFOffset, S!SingleFrame, SP!SingleFrame, S!FirstFrame,
         SP!FirstFrame, S!FFLen, SP!FFLen, S!ConsecutiveFrame, SP!ConsecutiveFrame,
         S!CANTP_SF_NUM_DATA_BYTES, SP!CANTP_SF_NUM_DATA_BYTES, S!CANTP_FF_NUM_DATA_BYTES,
         SP!CANTP_FF_NUM_DATA_BYTES, S!CANTP_CF_NUM_DATA_BYTES, SP!CANTP_CF_NUM_DATA_BYTES

LEMMA ReceiverFrames ==
  /\ \A l : R!NumFrames(l) = RP!NumFrames(l)
  /\ \A m, l, k : R!Segment(m, l, k) = RP!Segment(m, l, k)
  /\ \A k : R!CFOffset(k) = RP!CFOffset(k)
  /\ \A f : R!ChunkOf(f) = RP!ChunkOf(f)
  BY DEF
         R!NumCFs, RP!NumCFs, R!NumFrames, RP!NumFrames, R!Segment, RP!Segment,
         R!CFOffset, RP!CFOffset, R!SingleFrame, RP!SingleFrame, R!FirstFrame,
         RP!FirstFrame, R!FFLen, RP!FFLen, R!ConsecutiveFrame, RP!ConsecutiveFrame,
         R!ChunkOf, RP!ChunkOf,
         R!CANTP_SF_NUM_DATA_BYTES, RP!CANTP_SF_NUM_DATA_BYTES, R!CANTP_FF_NUM_DATA_BYTES,
         RP!CANTP_FF_NUM_DATA_BYTES, R!CANTP_CF_NUM_DATA_BYTES, RP!CANTP_CF_NUM_DATA_BYTES

\* The Sender's start, and each of its steps.
LEMMA SenderInit == S!Init => SP!Init
  BY DEF S!Init, SP!Init, S!NoFrame, SP!NoFrame, S!NoFC, SP!NoFC, S!SingleFrame, SP!SingleFrame

LEMMA SenderStarts ==
  ASSUME NEW l, S!cantp_send_SF(l) \/ S!cantp_send_FF(l)
  PROVE  SP!cantp_send_SF(l) \/ SP!cantp_send_FF(l)
  BY DEF
         S!cantp_send_SF, SP!cantp_send_SF, S!cantp_send_FF, SP!cantp_send_FF,
         S!StartMessage, SP!StartMessage, S!Undisturbed, SP!Undisturbed,
         S!cantp_sndr_set_state, SP!cantp_sndr_set_state, S!driver, SP!driver,
         S!SingleFrame, SP!SingleFrame, S!FirstFrame, SP!FirstFrame, S!FFLen, SP!FFLen,
         S!CANTP_SF_NUM_DATA_BYTES, SP!CANTP_SF_NUM_DATA_BYTES

LEMMA SenderHandsOver == S!cantp_send_tx => SP!cantp_send_tx
  BY DEF
         S!cantp_send_tx, SP!cantp_send_tx, S!cantp_can_tx_nb, SP!cantp_can_tx_nb,
         S!Undisturbed, SP!Undisturbed, S!transfer, SP!transfer, S!history, SP!history

LEMMA SenderTask == S!TaskStep => SP!TaskStep
  BY DEF
         S!TaskStep, SP!TaskStep, S!TaskPoll, SP!TaskPoll, S!TaskWake, SP!TaskWake,
         S!TaskTxDone, SP!TaskTxDone, S!TaskTxTimeout, SP!TaskTxTimeout, S!ConfirmRead,
         SP!ConfirmRead, S!ConfirmSF, SP!ConfirmSF, S!ConfirmFF, SP!ConfirmFF, S!ConfirmCF,
         SP!ConfirmCF, S!ConfirmLastCF, SP!ConfirmLastCF, S!ConfirmPastEnd,
         SP!ConfirmPastEnd, S!ConfirmBlockEnd, SP!ConfirmBlockEnd, S!ConfirmMore,
         SP!ConfirmMore, S!NextCF, SP!NextCF, S!NextCF_tx, SP!NextCF_tx, S!PrepareCF,
         SP!PrepareCF, S!cantp_can_tx_nb, SP!cantp_can_tx_nb, S!cantp_sndr_set_state,
         SP!cantp_sndr_set_state, S!Conclude, SP!Conclude, S!Undisturbed, SP!Undisturbed,
         S!ByTask, SP!ByTask, S!transfer, SP!transfer, S!history, SP!history, S!driver,
         SP!driver, S!Sending, SP!Sending, S!BlockComplete, SP!BlockComplete, S!U8, SP!U8,
         S!U16, SP!U16, S!NextSn, SP!NextSn, S!NToSend, SP!NToSend, S!ConsecutiveFrame,
         SP!ConsecutiveFrame, S!CANTP_FF_NUM_DATA_BYTES, SP!CANTP_FF_NUM_DATA_BYTES,
         S!CANTP_CF_NUM_DATA_BYTES, SP!CANTP_CF_NUM_DATA_BYTES

LEMMA SenderRx == S!RxStep => SP!RxStep
  BY DEF
         S!RxStep, SP!RxStep, S!FCCheck, SP!FCCheck, S!FCWake, SP!FCWake, S!FCWaitTimeout,
         SP!FCWaitTimeout, S!FCRecheck, SP!FCRecheck, S!sndr_rx_flow_control_frame,
         SP!sndr_rx_flow_control_frame, S!ClearToSend, SP!ClearToSend, S!NotClearToSend,
         SP!NotClearToSend, S!FirstCF_tx, SP!FirstCF_tx, S!PrepareCF, SP!PrepareCF,
         S!cantp_can_tx_nb, SP!cantp_can_tx_nb, S!cantp_sndr_set_state,
         SP!cantp_sndr_set_state, S!Undisturbed, SP!Undisturbed, S!ByRx, SP!ByRx,
         S!transfer, SP!transfer, S!history, SP!history, S!driver, SP!driver, S!U8, SP!U8,
         S!U16, SP!U16, S!NToSend, SP!NToSend, S!StValid, SP!StValid, S!StDecode,
         SP!StDecode, S!ConsecutiveFrame, SP!ConsecutiveFrame, S!CANTP_CF_NUM_DATA_BYTES,
         SP!CANTP_CF_NUM_DATA_BYTES

LEMMA SenderTakesFC == ASSUME NEW f, S!cantp_can_rx(f) PROVE SP!cantp_can_rx(f)
  BY DEF
         S!cantp_can_rx, SP!cantp_can_rx, S!Undisturbed, SP!Undisturbed, S!ByRx, SP!ByRx,
         S!transfer, SP!transfer, S!driver, SP!driver

LEMMA SenderTimer == (S!CbStep => SP!CbStep) /\ (S!TimerExpire => SP!TimerExpire)
  BY DEF
         S!CbStep, SP!CbStep, S!TimerCbRead, SP!TimerCbRead, S!TimerCbReport,
         SP!TimerCbReport, S!TimerExpire, SP!TimerExpire, S!InHandler, SP!InHandler,
         S!TxPending, SP!TxPending, S!ByCb, SP!ByCb, S!cantp_sndr_set_state,
         SP!cantp_sndr_set_state, S!Conclude, SP!Conclude, S!transfer, SP!transfer,
         S!driver, SP!driver, S!Sending, SP!Sending

LEMMA SenderDriver ==
  (S!DrvTransmit => SP!DrvTransmit) /\ (S!DrvDrop => SP!DrvDrop)
  BY DEF
         S!DrvTransmit, SP!DrvTransmit, S!DrvDrop, SP!DrvDrop, S!Undisturbed,
         SP!Undisturbed, S!transfer, SP!transfer, S!history, SP!history

LEMMA SenderNext == S!Next => SP!Next
  BY SenderStarts, SenderHandsOver, SenderTask, SenderRx, SenderTakesFC, SenderTimer, SenderDriver
     DEF S!Next, SP!Next, S!AppStep, SP!AppStep, S!PeerStep, SP!PeerStep, S!DrvStep, SP!DrvStep

\* The Receiver's start, and each of its steps.
LEMMA ReceiverInit == R!Init => RP!Init
  BY DEF R!Init, RP!Init, R!RoleInit, RP!RoleInit

LEMMA ReceiverHandles == ASSUME NEW f, NEW p, R!cantp_canrx_cb(f, p) PROVE RP!cantp_canrx_cb(f, p)
  BY DEF
         R!cantp_canrx_cb, RP!cantp_canrx_cb, R!rx_single_frame, RP!rx_single_frame,
         R!FFRefused, RP!FFRefused, R!rcvr_rx_first_frame, RP!rcvr_rx_first_frame,
         R!FFRejected, RP!FFRejected, R!FFNoBuffer, RP!FFNoBuffer, R!FFAccepted,
         RP!FFAccepted, R!NewReception, RP!NewReception, R!CFIgnored, RP!CFIgnored,
         R!rcvr_rx_consecutive_frame, RP!rcvr_rx_consecutive_frame, R!CFDiscarded,
         RP!CFDiscarded, R!CFAccepted, RP!CFAccepted, R!CFExpected, RP!CFExpected,
         R!InSequence, RP!InSequence, R!LastCF, RP!LastCF, R!cantp_received_cb,
         RP!cantp_received_cb, R!ChunkOf, RP!ChunkOf, R!rvars, RP!rvars, R!U8, RP!U8, R!U16,
         RP!U16, R!NextSn, RP!NextSn, R!NToSend, RP!NToSend, R!CANTP_FF_NUM_DATA_BYTES,
         RP!CANTP_FF_NUM_DATA_BYTES, R!CANTP_CF_NUM_DATA_BYTES, RP!CANTP_CF_NUM_DATA_BYTES

LEMMA ReceiverSends ==
  ASSUME NEW ok
  PROVE  /\ R!SendCTS(ok) => RP!SendCTS(ok)
         /\ R!SendWait(ok) => RP!SendWait(ok)
  BY DEF R!SendCTS, RP!SendCTS, R!SendWait, RP!SendWait, R!CTSFrame, RP!CTSFrame,
         R!WaitFrame, RP!WaitFrame, R!cantp_can_tx, RP!cantp_can_tx, R!U8, RP!U8

LEMMA ReceiverCounts == R!EndBlock \/ R!AwaitNextCF => RP!EndBlock \/ RP!AwaitNextCF
  BY DEF
         R!EndBlock, RP!EndBlock, R!AwaitNextCF, RP!AwaitNextCF, R!BlockFull, RP!BlockFull,
         R!U8, RP!U8

\* What the peers and the bus do.
LEMMA PeersNext ==
  ASSUME NEW p
  PROVE  /\ \A l : R!PeerStart(p, l) => RP!PeerStart(p, l)
         /\ R!FrameLost(p) => RP!FrameLost(p)
         /\ R!cantp_rx_task(p) => RP!cantp_rx_task(p)
         /\ \A o : R!CTSOut(o) => RP!CTSOut(o)
  <1>1. /\ \A o : R!CTSOut(o) => RP!CTSOut(o)
        /\ \A l : R!PeerStart(p, l) => RP!PeerStart(p, l)
    BY DEF R!CTSOut, RP!CTSOut, R!PeerStart, RP!PeerStart, R!rvars, RP!rvars
  <1>2. /\ R!HasFrame(p) => RP!HasFrame(p)
        /\ R!Advance(p) => RP!Advance(p)
        /\ R!NextFrame(p) = RP!NextFrame(p)
    BY ReceiverFrames DEF R!HasFrame, RP!HasFrame, R!Advance, RP!Advance, R!NextFrame, RP!NextFrame
  <1>3. R!FrameLost(p) => RP!FrameLost(p)
    BY <1>2 DEF R!FrameLost, RP!FrameLost, R!rvars, RP!rvars
  <1>4. R!cantp_rx_task(p) => RP!cantp_rx_task(p)
    BY <1>2, ReceiverHandles DEF R!cantp_rx_task, RP!cantp_rx_task
  <1> QED
    BY <1>1, <1>3, <1>4

LEMMA ReceiverNext == R!Next => RP!Next
  BY PeersNext, ReceiverSends, ReceiverCounts
     DEF R!Next, RP!Next, R!bus, RP!bus, R!cantp_rcvr_timer_cb, RP!cantp_rcvr_timer_cb

----------------------------------------------------------------------------
(* The invariant.  Neither role's own invariant speaks of the other's      *)
(* state, and of bl_index only its type; the Sender's holds until a        *)
(* failure of the Receiver's is reported as its own.                       *)

Typed      == SP!TypeOK /\ RP!TypedInv
SendInv    == SP!SInv /\ SP!Awaited
NodeInv    == Typed /\ (failed = 0 => SendInv)
ReceiveInv == RP!BufferInv /\ RP!NCrArmed /\ RP!DeliveredInv

\* Every message's length fits the uint8_t in which cantp_received_cb takes it.
Short == \A p \in Peers : \A l \in PeerLens[p] : l <= 255

\* What a step of the one role leaves alone.
ReceiverStill == bl_index' \in UInt8 /\ UNCHANGED received
SenderStill ==
  /\ bl_index' \in UInt8
  /\ UNCHANGED <<state, sem, len, index, sn, bs_pair, st_tim_us,
                 timer, app, task, rx, cb, out, fc, txq, txdone, msg, wire, blk, fcs>>

\* What the Sender does to bl_index is nothing to the Receiver's invariants.
LEMMA ReceiverKept ==
  ASSUME ReceiverStill
  PROVE  (RP!TypedInv => RP!TypedInv') /\ (ReceiveInv => ReceiveInv')
  <1>1. RP!UInt8 = UInt8
    BY DEF RP!UInt8, UInt8
  <1>2. RP!TypedInv => RP!TypedInv'
    BY <1>1 DEF ReceiverStill, received, RP!TypedInv, RP!TypeOK, RP!RoleTypeOK, RP!BusTypeOK,
                RP!ControlOK
  <1>3. ASSUME ReceiveInv PROVE ReceiveInv'
    <2>1. (RP!PeerIds /\ RP!Announced /\ RP!BufferIntact /\ RP!Following)'
      BY <1>3 DEF ReceiveInv, ReceiverStill, received, RP!BufferInv, RP!PeerIds, RP!Announced,
                  RP!Message, RP!BufferIntact, RP!Following
    <2>2. RP!NCrArmed' /\ RP!DeliveredInv'
      BY <1>3 DEF ReceiveInv, ReceiverStill, received, RP!NCrArmed, RP!DeliveredInv,
                  RP!DeliveredIntact
    <2> QED
      BY <1>2, <1>3, <2>1, <2>2 DEF ReceiveInv, RP!BufferInv
  <1> QED
    BY <1>2, <1>3

\* What the Receiver does to bl_index is nothing to the Sender's.
LEMMA SenderKept ==
  ASSUME Setting, SendInv, SenderStill, UNCHANGED <<owed, result>> PROVE SendInv'
  <1>1. SP!UInt8 = UInt8
    BY DEF SP!UInt8, UInt8
  <1>2. SP!TypeOK'
    BY <1>1 DEF SendInv, SenderStill, SP!SInv, SP!IInv, SP!TypeOK
  <1>3. SP!Safe'
    BY SenderAssumptions, SP!StutterSafe DEF SendInv, SenderStill, SP!SInv
  <1>4. SP!Stream'
    BY SenderAssumptions, SP!StillStream DEF SendInv, SenderStill
  <1>5. SP!Awaited'
    BY DEF SendInv, SenderStill, SP!Awaited, SP!RxInv
  <1> QED
    BY <1>2, <1>3, <1>4, <1>5 DEF SendInv, SP!SInv, SP!IInv

\* A step of the Sender role.
LEMMA SenderMoves ==
  ASSUME Setting, NodeInv, SenderStep PROVE NodeInv' /\ ReceiverStill
  <1>1. SP!Next /\ UNCHANGED received
    BY SenderNext DEF SenderStep
  <1>2. SP!TypeOK'
    BY <1>1, SenderAssumptions, SP!TypesStep DEF NodeInv, Typed
  <1>3. ReceiverStill
    BY <1>1, <1>2 DEF ReceiverStill, SP!TypeOK, SP!UInt8, UInt8
  <1>4. RP!TypedInv'
    BY <1>3, ReceiverKept DEF NodeInv, Typed
  <1>5. ASSUME failed' = 0 PROVE SendInv'
    <2>1. SP!IInv /\ SP!Stream /\ SP!Awaited /\ SP!SInv
      BY <1>1, <1>5 DEF NodeInv, received, SendInv, SP!SInv
    <2>2. SP!Timely
      BY DEF SP!Timely
    <2>3. SP!IInv'
      BY <1>1, <2>1, SenderAssumptions, SP!InvariantStep
    <2>4. (SP!Stream /\ SP!Awaited)'
      BY <1>1, <2>1, <2>2, SenderAssumptions, SP!StreamNext
    <2> QED
      BY <2>3, <2>4 DEF SendInv, SP!SInv
  <1> QED
    BY <1>2, <1>3, <1>4, <1>5 DEF NodeInv, Typed

\* The Receiver never takes a failure back.
LEMMA Failures == RP!Next => failed' = failed \/ failed' = failed + 1
  BY DEF RP!Next, RP!PeerStart, RP!FrameLost, RP!cantp_rx_task, RP!cantp_canrx_cb,
         RP!rx_single_frame, RP!FFRefused, RP!rcvr_rx_first_frame, RP!FFRejected, RP!FFNoBuffer,
         RP!FFAccepted, RP!CFIgnored, RP!rcvr_rx_consecutive_frame, RP!CFDiscarded, RP!CFAccepted,
         RP!SendCTS, RP!SendWait, RP!cantp_can_tx, RP!EndBlock, RP!AwaitNextCF,
         RP!cantp_rcvr_timer_cb, RP!rvars

\* A step of the Receiver role.
LEMMA ReceiverMoves == ASSUME Setting, NodeInv, ReceiverStep PROVE NodeInv'
  <1>1. RP!Next /\ Reported
    BY ReceiverNext DEF ReceiverStep
  <1>2. RP!TypedInv'
    BY <1>1, ReceiverAssumptions, RP!TypedStep DEF NodeInv, Typed
  <1>3. SenderStill
    <2>1. bl_index' \in UInt8
      BY <1>2 DEF RP!TypedInv, RP!TypeOK, RP!RoleTypeOK, RP!UInt8, UInt8
    <2> QED
      BY <2>1 DEF ReceiverStep, SenderStill
  <1>4. result' \in SP!Results /\ owed' \in Int
    BY <1>1 DEF Reported, S!Conclude, NodeInv, Typed, SP!TypeOK, SP!Results
  <1>5. SP!TypeOK'
    <2>1. SP!UInt8 = UInt8
      BY DEF SP!UInt8, UInt8
    <2> QED
      BY <1>3, <1>4, <2>1 DEF NodeInv, Typed, SenderStill, SP!TypeOK
  <1>6. ASSUME failed' = 0 PROVE SendInv'
    <2>1. failed \in Nat
      BY DEF Setting, NodeInv, Typed, RP!TypedInv, RP!TypeOK, RP!RoleTypeOK
    <2>2. failed = 0
      BY <1>1, <1>6, <2>1, Failures
    <2>3. UNCHANGED <<owed, result>>
      BY <1>1, <1>6, <2>2 DEF Reported
    <2> QED
      BY <1>3, <2>2, <2>3, SenderKept DEF NodeInv
  <1> QED
    BY <1>2, <1>5, <1>6 DEF NodeInv, Typed

\* A step in which nothing happens.
LEMMA Unmoved == ASSUME Setting, NodeInv, UNCHANGED vars PROVE NodeInv' /\ ReceiverStill
  <1>1. bl_index \in UInt8
    BY DEF NodeInv, Typed, SP!TypeOK, SP!UInt8, UInt8
  <1>2. ReceiverStill /\ SenderStill /\ UNCHANGED <<owed, result, failed>>
    BY <1>1 DEF vars, sndr, received, ReceiverStill, SenderStill
  <1>3. SP!TypeOK'
    BY <1>2 DEF NodeInv, Typed, vars, sndr, SP!TypeOK
  <1> QED
    BY <1>2, <1>3, ReceiverKept, SenderKept DEF NodeInv, Typed

LEMMA NodeInit == ASSUME Setting, Init PROVE NodeInv
  <1>1. SP!Init /\ RP!Init
    BY SenderInit, ReceiverInit DEF Init
  <1>2. SP!IInv /\ SP!Stream /\ RP!TypedInv
    BY <1>1, SenderAssumptions, ReceiverAssumptions, SP!InitialIInv, SP!StreamInit, RP!TypedInit
  <1>3. SP!Awaited
    BY <1>1 DEF SP!Init, SP!Awaited, SP!RxInv
  <1> QED
    BY <1>2, <1>3 DEF NodeInv, Typed, SendInv, SP!SInv, SP!IInv

LEMMA NodeStep == ASSUME Setting, NodeInv, [Next]_vars PROVE NodeInv'
  BY SenderMoves, ReceiverMoves, Unmoved DEF Next

\* Until the node fails to send a Flow Control frame, its session layer hears
\* the truth about each message, once, and the bus carries the message's
\* frames, whatever the node receives meanwhile and however many blocks it
\* counts in the Sender's bl_index.
THEOREM Sending ==
  ASSUME Setting PROVE Spec => []SendsUndisturbed
  <1>1. ASSUME NodeInv PROVE SendsUndisturbed
    <2> SUFFICES ASSUME failed = 0
                 PROVE  S!FrameStream /\ S!HonestResult /\ S!OneConclusion /\ S!NeverStranded
      BY DEF SendsUndisturbed
    <2>1. SP!FrameStream /\ SP!HonestResult /\ SP!OneConclusion /\ SP!NeverStranded
      BY <1>1 DEF NodeInv, SendInv, SP!SInv, SP!IInv, SP!Safe, SP!Stream
    <2>2. S!FrameStream
      BY <2>1, SenderFrames DEF S!FrameStream, SP!FrameStream, S!MsgLen, SP!MsgLen
    <2>3. S!HonestResult
      BY <2>1, SenderFrames DEF S!HonestResult, SP!HonestResult, S!MsgLen, SP!MsgLen,
                                S!Handed, SP!Handed
    <2>4. S!OneConclusion /\ S!NeverStranded
      BY <2>1 DEF S!OneConclusion, SP!OneConclusion, S!NeverStranded, SP!NeverStranded,
                  S!Sending, SP!Sending
    <2> QED
      BY <2>2, <2>3, <2>4
  <1>2. (Init => NodeInv) /\ (NodeInv /\ [Next]_vars => NodeInv')
    BY NodeInit, NodeStep
  <1> QED
    BY <1>1, <1>2, PTL DEF Spec

\* What the Receiver keeps for itself, through every step of the node.
LEMMA ReceiveStep ==
  ASSUME Setting, MaxLost < 16, Short, NodeInv, ReceiveInv, [Next]_vars PROVE ReceiveInv'
  <1>1. CASE SenderStep
    BY <1>1, SenderMoves, ReceiverKept
  <1>2. CASE ReceiverStep
    <2>1. RP!Next /\ RP!Short
      BY <1>2, ReceiverNext DEF ReceiverStep, Short, RP!Short
    <2>2. RP!BufferInv /\ RP!NCrArmed /\ RP!DeliveredInv
      BY DEF ReceiveInv
    <2>3. RP!BufferInv' /\ RP!NCrArmed'
      BY <2>1, <2>2, ReceiverAssumptions, RP!BufferStep, RP!ArmedStep
    <2>4. RP!DeliveredInv'
      BY <2>1, <2>2, ReceiverAssumptions, RP!DeliveredStep
    <2> QED
      BY <2>3, <2>4 DEF ReceiveInv
  <1>3. CASE UNCHANGED vars
    BY <1>3, Unmoved, ReceiverKept
  <1> QED
    BY <1>1, <1>2, <1>3 DEF Next

LEMMA ReceiveInit == ASSUME Setting, Init PROVE ReceiveInv
  <1>1. RP!Init
    BY ReceiverInit DEF Init
  <1>2. RP!BufferInv
    BY <1>1, ReceiverAssumptions, RP!BufferInit
  <1> QED
    BY <1>1, <1>2 DEF ReceiveInv, RP!Init, RP!RoleInit, RP!NCrArmed, RP!DeliveredInv,
                      RP!DeliveredIntact

\* Whatever the node sends meanwhile, it keeps and hands over the bytes of
\* whole messages, and N_Cr watches over its waits, if no peer's message is
\* longer than 255 bytes and fewer than 16 frames are lost.
THEOREM Receiving ==
  ASSUME Setting, MaxLost < 16, Short PROVE Spec => []ReceivesUndisturbed
  <1>1. /\ Init => NodeInv /\ ReceiveInv
        /\ NodeInv /\ ReceiveInv /\ [Next]_vars => NodeInv' /\ ReceiveInv'
    BY NodeInit, NodeStep, ReceiveInit, ReceiveStep
  <1>2. ASSUME ReceiveInv PROVE ReceivesUndisturbed
    <2>1. RP!BufferIntact /\ RP!NCrArmed /\ RP!DeliveredIntact
      BY <1>2 DEF ReceiveInv, RP!BufferInv, RP!DeliveredInv
    <2>2. R!BufferIntact
      BY <2>1, ReceiverFrames DEF R!BufferIntact, RP!BufferIntact
    <2>3. R!DeliveredIntact
      BY <2>1, ReceiverFrames DEF R!DeliveredIntact, RP!DeliveredIntact
    <2>4. R!NCrArmed
      BY <2>1 DEF R!NCrArmed, RP!NCrArmed
    <2> QED
      BY <2>2, <2>3, <2>4 DEF ReceivesUndisturbed
  <1> QED
    BY <1>1, <1>2, PTL DEF Spec
=============================================================================
