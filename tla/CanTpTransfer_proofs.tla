------------------------ MODULE CanTpTransfer_proofs ------------------------
(***************************************************************************)
(* Theorems about CanTpTransfer, for any message lengths and requests.     *)
(* The lemmas about the roles are those of the roles' own proofs, taken    *)
(* over for the instances that CanTpTransfer composes: SP!Op and S!Op are  *)
(* the same formula, and so are RP!Op and R!Op, PP!Op and P!Op.            *)
(***************************************************************************)
EXTENDS CanTpTransfer, CanTpFrames_proofs, SequenceTheorems, FiniteSetTheorems, TLAPS

\* A's role, with its theorems.
SP == INSTANCE CanTpSender_proofs WITH
  FCFrames <- {}, SemMax <- 1, MaxFCs <- 1000,
  RacyTimers <- FALSE, LateTx <- FALSE, EarlyFC <- TRUE

\* B's parameters, with theirs.
PP == INSTANCE CanTpParams_proofs

\* What B may be started with.
BParams == {P!cantp_rcvr_params_init(q) : q \in {r \in Requests : P!Accepted(r)}}

\* B's role, with its theorems.
RP == INSTANCE CanTpReassembly_proofs WITH
  Peers <- {"A"}, Self <- "B", LateFC <- FALSE, Lens <- [p \in {"A"} |-> Lens],
  Params <- BParams, bl_index <- rbl_index, rx <- rrx, peer <- <<>>

----------------------------------------------------------------------------
(* The instances meet the assumptions of their modules.                    *)

\* Those of CanTpSender.
LEMMA SenderAssumptions ==
  /\ \A l \in Lens : l \in SP!UInt16 /\ l < 4096
  /\ {} \subseteq SP!FlowControl
  /\ 1 \in Nat \ {0}
  /\ MaxMsgs \in Nat /\ 1000 \in Nat
  /\ {FALSE, FALSE, TRUE} \subseteq BOOLEAN
  <1>1. ASSUME NEW l \in Lens PROVE l \in SP!UInt16 /\ l < 4096
    <2>1. l \in R!Lengths
      BY LensAssumption
    <2>2. l \in SP!UInt16
      BY <2>1 DEF R!Lengths, SP!UInt16
    <2>3. l < 4096
      BY <2>1 DEF R!Lengths
    <2> QED
      BY <2>2, <2>3
  <1>2. 1 \in Nat \ {0} /\ {FALSE, FALSE, TRUE} \subseteq BOOLEAN
    OBVIOUS
  <1>3. {} \subseteq SP!FlowControl
    OBVIOUS
  <1>4. MaxMsgs \in Nat /\ 1000 \in Nat
    BY BoundsAssumption
  <1> QED
    BY <1>1, <1>2, <1>3, <1>4

\* What CanTpParams makes of a request B starts with, in either instance.
LEMMA ParamsOf ==
  ASSUME NEW q \in Requests, P!Accepted(q)
  PROVE  /\ PP!Accepted(q) /\ q \in PP!Request
         /\ PP!cantp_rcvr_params_init(q) = P!cantp_rcvr_params_init(q)
         /\ PP!NeedsWait(q) = P!NeedsWait(q)
  <1>1. PP!Request = P!Request
    BY DEF PP!Request, P!Request, PP!UInt8, P!UInt8
  <1> QED
    BY <1>1, RequestsAssumption
       DEF
         P!Accepted, PP!Accepted, P!cantp_rcvr_params_init, PP!cantp_rcvr_params_init,
         P!NeedsWait, PP!NeedsWait, P!WftNum, PP!WftNum, P!STminByte, PP!STminByte, P!Coded,
         PP!Coded, P!U8, PP!U8

\* Those of CanTpReceiver.
LEMMA ReceiverAssumptions ==
  /\ "B" \notin {"A"}
  /\ [p \in {"A"} |-> Lens] \in [{"A"} -> SUBSET RP!Lengths]
  /\ BParams \subseteq [block_size : RP!UInt8, st_min : RP!UInt8, wft_num : RP!UInt8]
  /\ FALSE \in BOOLEAN
  /\ MaxMsgs \in Nat /\ MaxLost \in Nat /\ MaxTxFail \in Nat
  <1>1. Lens \in SUBSET RP!Lengths
    BY LensAssumption DEF RP!Lengths, R!Lengths
  <1>2. ASSUME NEW q \in Requests, P!Accepted(q)
        PROVE  P!cantp_rcvr_params_init(q)
                 \in [block_size : RP!UInt8, st_min : RP!UInt8, wft_num : RP!UInt8]
    <2>1. PP!cantp_rcvr_params_init(q)
            \in [block_size : PP!UInt8, st_min : PP!UInt8, wft_num : PP!UInt8]
      BY <1>2, ParamsOf, PP!ParamsTyped
    <2>2. PP!UInt8 = RP!UInt8
      BY DEF PP!UInt8, RP!UInt8
    <2> QED
      BY <1>2, <2>1, <2>2, ParamsOf
  <1>3. BParams \subseteq [block_size : RP!UInt8, st_min : RP!UInt8, wft_num : RP!UInt8]
    BY <1>2 DEF BParams
  <1> QED
    BY <1>1, <1>3, BoundsAssumption

----------------------------------------------------------------------------
(* The actions of the instances.                                           *)

\* A's start.
LEMMA SenderInit == S!Init => SP!Init
  BY DEF S!Init, SP!Init, S!NoFrame, SP!NoFrame, S!NoFC, SP!NoFC, S!SingleFrame, SP!SingleFrame

\* cantp_send, up to the state change.
LEMMA SenderStarts ==
  ASSUME NEW l, S!cantp_send_SF(l) \/ S!cantp_send_FF(l)
  PROVE  SP!cantp_send_SF(l) \/ SP!cantp_send_FF(l)
  BY DEF
         S!cantp_send_SF, SP!cantp_send_SF, S!cantp_send_FF, SP!cantp_send_FF,
         S!StartMessage, SP!StartMessage, S!Undisturbed, SP!Undisturbed,
         S!cantp_sndr_set_state, SP!cantp_sndr_set_state, S!driver, SP!driver,
         S!SingleFrame, SP!SingleFrame, S!FirstFrame, SP!FirstFrame, S!FFLen, SP!FFLen,
         S!CANTP_SF_NUM_DATA_BYTES, SP!CANTP_SF_NUM_DATA_BYTES

\* cantp_send, the frame handed to the driver.
LEMMA SenderHandsOver == S!cantp_send_tx => SP!cantp_send_tx
  BY DEF
         S!cantp_send_tx, SP!cantp_send_tx, S!cantp_can_tx_nb, SP!cantp_can_tx_nb,
         S!Undisturbed, SP!Undisturbed, S!transfer, SP!transfer, S!history, SP!history

\* cantp_sndr_task.
LEMMA SenderTask == S!TaskStep => SP!TaskStep
  BY DEF
         S!TaskStep, SP!TaskStep, S!TaskPoll, SP!TaskPoll, S!TaskWake, SP!TaskWake,
         S!TaskTxDone, SP!TaskTxDone, S!TaskTxTimeout, SP!TaskTxTimeout, S!ConfirmRead,
         SP!ConfirmRead, S!ConfirmSF, SP!ConfirmSF, S!ConfirmFF, SP!ConfirmFF, S!ConfirmCF,
         SP!ConfirmCF, S!ConfirmLastCF, SP!ConfirmLastCF, S!ConfirmPastEnd,
         SP!ConfirmPastEnd, S!ConfirmBlockEnd, SP!ConfirmBlockEnd, S!ConfirmMore,
         SP!ConfirmMore, S!NextCF, SP!NextCF, S!NextCF_tx, SP!NextCF_tx, S!PrepareCF,
         SP!PrepareCF, S!cantp_can_tx_nb, SP!cantp_can_tx_nb, S!cantp_sndr_set_state,
         SP!cantp_sndr_set_state, S!Conclude, SP!Conclude, S!Undisturbed, SP!Undisturbed,
         S!ByTask, SP!ByTask, S!transfer, SP!transfer, S!history, SP!history, S!driver,
         SP!driver, S!Sending, SP!Sending, S!BlockComplete, SP!BlockComplete, S!U8, SP!U8,
         S!U16, SP!U16, S!NextSn, SP!NextSn, S!NToSend, SP!NToSend, S!ConsecutiveFrame,
         SP!ConsecutiveFrame, S!CANTP_FF_NUM_DATA_BYTES, SP!CANTP_FF_NUM_DATA_BYTES,
         S!CANTP_CF_NUM_DATA_BYTES, SP!CANTP_CF_NUM_DATA_BYTES

\* The Flow Control branch of cantp_canrx_cb.
LEMMA SenderRx == S!RxStep => SP!RxStep
  BY DEF
         S!RxStep, SP!RxStep, S!FCCheck, SP!FCCheck, S!FCWake, SP!FCWake, S!FCWaitTimeout,
         SP!FCWaitTimeout, S!FCRecheck, SP!FCRecheck, S!sndr_rx_flow_control_frame,
         SP!sndr_rx_flow_control_frame, S!ClearToSend, SP!ClearToSend, S!NotClearToSend,
         SP!NotClearToSend, S!FirstCF_tx, SP!FirstCF_tx, S!PrepareCF, SP!PrepareCF,
         S!cantp_can_tx_nb, SP!cantp_can_tx_nb, S!cantp_sndr_set_state,
         SP!cantp_sndr_set_state, S!Undisturbed, SP!Undisturbed, S!ByRx, SP!ByRx,
         S!transfer, SP!transfer, S!history, SP!history, S!driver, SP!driver, S!U8, SP!U8,
         S!U16, SP!U16, S!NToSend, SP!NToSend, S!StValid, SP!StValid, S!StDecode,
         SP!StDecode, S!ConsecutiveFrame, SP!ConsecutiveFrame, S!CANTP_CF_NUM_DATA_BYTES,
         SP!CANTP_CF_NUM_DATA_BYTES

\* A Flow Control frame is read.
LEMMA SenderTakesFC == ASSUME NEW f, S!cantp_can_rx(f) PROVE SP!cantp_can_rx(f)
  BY DEF
         S!cantp_can_rx, SP!cantp_can_rx, S!Undisturbed, SP!Undisturbed, S!ByRx, SP!ByRx,
         S!transfer, SP!transfer, S!driver, SP!driver

\* The timer and its callback.
LEMMA SenderTimer == (S!CbStep => SP!CbStep) /\ (S!TimerExpire => SP!TimerExpire)
  BY DEF
         S!CbStep, SP!CbStep, S!TimerCbRead, SP!TimerCbRead, S!TimerCbReport,
         SP!TimerCbReport, S!TimerExpire, SP!TimerExpire, S!InHandler, SP!InHandler,
         S!TxPending, SP!TxPending, S!ByCb, SP!ByCb, S!cantp_sndr_set_state,
         SP!cantp_sndr_set_state, S!Conclude, SP!Conclude, S!transfer, SP!transfer,
         S!driver, SP!driver, S!Sending, SP!Sending

\* The driver transmits or gives up.
LEMMA SenderDriver ==
  (S!DrvTransmit => SP!DrvTransmit) /\ (S!DrvDrop => SP!DrvDrop)
  BY DEF
         S!DrvTransmit, SP!DrvTransmit, S!DrvDrop, SP!DrvDrop, S!Undisturbed,
         SP!Undisturbed, S!transfer, SP!transfer, S!history, SP!history

\* B's start.
LEMMA ReceiverInit == R!RoleInit => RP!RoleInit
  BY DEF R!RoleInit, RP!RoleInit, BParams

\* cantp_canrx_cb on B.
LEMMA ReceiverHandles == ASSUME NEW f, R!cantp_canrx_cb(f, "A") PROVE RP!cantp_canrx_cb(f, "A")
  BY DEF
         R!cantp_canrx_cb, RP!cantp_canrx_cb, R!rx_single_frame, RP!rx_single_frame,
         R!FFRefused, RP!FFRefused, R!rcvr_rx_first_frame, RP!rcvr_rx_first_frame,
         R!FFRejected, RP!FFRejected, R!FFNoBuffer, RP!FFNoBuffer, R!FFAccepted,
         RP!FFAccepted, R!NewReception, RP!NewReception, R!CFIgnored, RP!CFIgnored,
         R!rcvr_rx_consecutive_frame, RP!rcvr_rx_consecutive_frame, R!CFDiscarded,
         RP!CFDiscarded, R!CFAccepted, RP!CFAccepted, R!CFExpected, RP!CFExpected,
         R!InSequence, RP!InSequence, R!LastCF, RP!LastCF, R!cantp_received_cb,
         RP!cantp_received_cb, R!ChunkOf, RP!ChunkOf, R!rvars, RP!rvars, R!U8, RP!U8, R!U16,
         RP!U16, R!NextSn, RP!NextSn, R!NToSend, RP!NToSend, R!CANTP_FF_NUM_DATA_BYTES,
         RP!CANTP_FF_NUM_DATA_BYTES, R!CANTP_CF_NUM_DATA_BYTES, RP!CANTP_CF_NUM_DATA_BYTES

\* B's Flow Control frames.
LEMMA ReceiverSends ==
  ASSUME NEW ok
  PROVE  /\ R!SendCTS(ok) => RP!SendCTS(ok)
         /\ R!SendWait(ok) => RP!SendWait(ok)
         /\ R!CTSFrame = RP!CTSFrame /\ R!WaitFrame = RP!WaitFrame
  BY DEF
         R!SendCTS, RP!SendCTS, R!SendWait, RP!SendWait, R!CTSFrame, RP!CTSFrame,
         R!WaitFrame, RP!WaitFrame, R!cantp_can_tx, RP!cantp_can_tx, R!U8, RP!U8

\* B's block count.
LEMMA ReceiverCounts == R!EndBlock \/ R!AwaitNextCF => RP!EndBlock \/ RP!AwaitNextCF
  BY DEF
         R!EndBlock, RP!EndBlock, R!AwaitNextCF, RP!AwaitNextCF, R!BlockFull, RP!BlockFull,
         R!U8, RP!U8

\* A step in which nothing happens.
LEMMA Unmoved ==
  ASSUME UNCHANGED vars
  PROVE  /\ UNCHANGED A /\ UNCHANGED B /\ UNCHANGED bus /\ UNCHANGED <<request, sent>>
         /\ UNCHANGED SP!vars /\ UNCHANGED RP!rvars
  BY DEF vars, A, B, bus, SP!vars, SP!transfer, SP!driver, SP!history, RP!rvars

----------------------------------------------------------------------------
(* Types: each role keeps its invariant, whatever the other one does.      *)

\* Each role's own invariant, and the types of the bus.
Typed ==
  /\ SP!IInv /\ SP!BlockInv /\ RP!RoleTypeOK /\ RP!ControlOK /\ RP!FlowInv
  /\ toA \in Seq(FlowControl) /\ toB \in Seq(Frame)

\* Both roles have the same frames.
LEMMA SameFrames ==
  /\ SP!Frame = Frame /\ SP!FlowControl = FlowControl /\ RP!FlowControl = FlowControl
  /\ \A f \in Frame : /\ RP!ChunkOf(f) \in RP!Chunk /\ f.msg \in Nat
                      /\ f.dl \in RP!UInt16
  <1>1. SP!Frame = Frame /\ SP!FlowControl = FlowControl /\ RP!FlowControl = FlowControl
    BY DEF SP!Frame, SP!UInt16, SP!SeqNum, SP!FlowControl, SP!FlowStatus, SP!UInt8,
           RP!FlowControl, RP!FlowStatus, RP!UInt8,
           Frame, UInt16, SeqNum, FlowControl, FlowStatus, UInt8
  <1>2. RP!UInt16 = UInt16
    BY DEF RP!UInt16, UInt16
  <1>3. ASSUME NEW f \in Frame
        PROVE  RP!ChunkOf(f) \in RP!Chunk /\ f.msg \in Nat /\ f.dl \in UInt16
    BY DEF RP!ChunkOf, RP!Chunk, Frame
  <1> QED
    BY <1>1, <1>2, <1>3

\* The Sender's part of each step.
SenderMoves ==
  \/ \E l \in Lens : SP!cantp_send_SF(l) \/ SP!cantp_send_FF(l)
  \/ SP!cantp_send_tx \/ SP!TaskStep \/ SP!RxStep \/ SP!CbStep \/ SP!TimerExpire
  \/ SP!DrvTransmit \/ SP!DrvDrop
  \/ toA # <<>> /\ SP!cantp_can_rx(Head(toA))
  \/ UNCHANGED SP!vars

\* A role's invariant is kept by its part of a step.
LEMMA SenderKept ==
  ASSUME SP!IInv, toA \in Seq(FlowControl), SenderMoves PROVE SP!IInv'
  <1>1. SP!TypeOK
    BY DEF SP!IInv
  <1>2. CASE SP!AppStep
    BY <1>1, <1>2, SenderAssumptions, SP!AppTyped, SP!AppSafe DEF SP!IInv
  <1>3. CASE SP!TaskStep
    BY <1>1, <1>3, SenderAssumptions, SP!TaskTyped, SP!TaskSafe DEF SP!IInv
  <1>4. CASE SP!RxStep
    BY <1>1, <1>4, SenderAssumptions, SP!RxTyped, SP!RxSafe DEF SP!IInv
  <1>5. CASE SP!CbStep \/ SP!TimerExpire
    BY <1>1, <1>5, SenderAssumptions, SP!TimerDriverTyped, SP!TimerSafe DEF SP!IInv
  <1>6. CASE SP!DrvStep
    BY <1>1, <1>6, SenderAssumptions, SP!TimerDriverTyped, SP!DriverSafe DEF SP!IInv
  <1>7. ASSUME toA # <<>>, SP!cantp_can_rx(Head(toA)) PROVE SP!IInv'
    <2>1. Head(toA) \in SP!FlowControl
      BY <1>7, SameFrames
    <2> QED
      BY <1>1, <1>7, <2>1, SenderAssumptions, SP!FCTakenTyped, SP!FCTakenSafe DEF SP!IInv
  <1>8. CASE UNCHANGED SP!vars
    <2>1. SP!TypeOK'
      BY <1>1, <1>8 DEF SP!TypeOK, SP!vars, SP!transfer, SP!driver, SP!history
    <2> QED
      BY <1>8, <2>1, SenderAssumptions, SP!DriverSafe DEF SP!IInv
  <1> QED
    BY <1>2, <1>3, <1>4, <1>5, <1>6, <1>7, <1>8 DEF SenderMoves, SP!AppStep, SP!DrvStep

\* So is its count of the block.
LEMMA BlockKept ==
  ASSUME SP!IInv, SP!BlockInv, SenderMoves PROVE SP!BlockInv'
  <1>1. CASE toA # <<>> /\ SP!cantp_can_rx(Head(toA))
    BY <1>1, SenderAssumptions, SP!FCTakenBlock
  <1>2. CASE [SP!Next]_(SP!vars)
    BY <1>2, SenderAssumptions, SP!BlockStep
  <1>3. SP!DrvTransmit \/ SP!DrvDrop => SP!DrvStep
    BY DEF SP!DrvStep
  <1>4. (\E l \in Lens : SP!cantp_send_SF(l) \/ SP!cantp_send_FF(l)) \/ SP!cantp_send_tx
          => SP!AppStep
    BY DEF SP!AppStep
  <1> QED
    BY <1>1, <1>2, <1>3, <1>4 DEF SenderMoves, SP!Next

\* The Receiver's part of each step.
ReceiverMoves ==
  \/ rrx = "poll" /\ toB # <<>> /\ RP!cantp_canrx_cb(Head(toB), "A")
  \/ \E ok \in BOOLEAN : RP!SendCTS(ok) \/ RP!SendWait(ok)
  \/ RP!EndBlock \/ RP!AwaitNextCF
  \/ UNCHANGED RP!rvars

\* The same of B.
LEMMA ReceiverKept ==
  ASSUME RP!RoleTypeOK, RP!ControlOK, RP!FlowInv, toB \in Seq(Frame), ReceiverMoves
  PROVE  (RP!RoleTypeOK /\ RP!ControlOK /\ RP!FlowInv)'
  <1>1. ASSUME rrx = "poll", toB # <<>>, RP!cantp_canrx_cb(Head(toB), "A")
        PROVE  (RP!RoleTypeOK /\ RP!ControlOK /\ RP!FlowInv)'
    <2> DEFINE f == Head(toB)
    <2>0. f \in Frame
      BY <1>1
    <2> HIDE DEF f
    <2>1. RP!ChunkOf(f) \in RP!Chunk /\ f.msg \in Nat /\ f.dl \in RP!UInt16
      BY <2>0, SameFrames
    <2>2. RP!RoleTypeOK'
      BY <1>1, <2>1, ReceiverAssumptions, RP!HandlerTyped DEF f
    <2>3. RP!ControlOK'
      BY <1>1, <2>1, ReceiverAssumptions, RP!HandlerControlled DEF f
    <2>4. RP!FlowInv'
      BY <1>1, <2>1, ReceiverAssumptions, RP!HandlerFlow DEF f
    <2> QED
      BY <2>2, <2>3, <2>4
  <1>2. ASSUME \/ \E ok \in BOOLEAN : RP!SendCTS(ok) \/ RP!SendWait(ok)
               \/ RP!EndBlock \/ RP!AwaitNextCF
        PROVE  (RP!RoleTypeOK /\ RP!ControlOK /\ RP!FlowInv)'
    BY <1>2, ReceiverAssumptions, RP!ThreadTyped, RP!ThreadControlled, RP!ThreadFlow
  <1>3. CASE UNCHANGED RP!rvars
    <2>1. RP!RoleTypeOK' /\ RP!ControlOK'
      BY <1>3 DEF RP!rvars, RP!RoleTypeOK, RP!ControlOK
    <2>2. RP!FlowInv'
      BY <1>3, ReceiverAssumptions, RP!FlowKept DEF RP!rvars
    <2> QED
      BY <2>1, <2>2
  <1> QED
    BY <1>1, <1>2, <1>3 DEF ReceiverMoves

\* Every step is a step of one role or of both.
LEMMA StepIs ==
  ASSUME Typed, [Next]_vars
  PROVE  /\ SenderMoves /\ ReceiverMoves /\ request' = request
         /\ \/ toA' = toA
            \/ toA # <<>> /\ toA' = Tail(toA)
            \/ toA' = Append(toA, RP!CTSFrame)
            \/ rrx = "wait" /\ toA' = Append(toA, RP!WaitFrame)
         /\ \/ toB' = toB
            \/ toB # <<>> /\ toB' = Tail(toB)
            \/ txq # <<>> /\ toB' = Append(toB, Head(txq))
  <1>1. /\ UNCHANGED A => UNCHANGED SP!vars
        /\ UNCHANGED B => UNCHANGED RP!rvars
    BY DEF A, B, SP!vars, SP!transfer, SP!driver, SP!history, RP!rvars
  <1>2. ASSUME NEW l \in Lens, Send(l)
        PROVE  SenderMoves /\ UNCHANGED B /\ UNCHANGED bus
    BY <1>2, SenderStarts DEF Send, SenderMoves, Others
  <1>3. ASSUME HandOver \/ Task \/ Rx \/ Cb \/ Expire
        PROVE  SenderMoves /\ UNCHANGED B /\ UNCHANGED bus
    BY <1>3, SenderHandsOver, SenderTask, SenderRx, SenderTimer
       DEF HandOver, Task, Rx, Cb, Expire, SenderMoves, Others
  <1>4. ASSUME Transmit
        PROVE  /\ SenderMoves /\ UNCHANGED B /\ toA' = toA
               /\ toB' = toB \/ (txq # <<>> /\ toB' = Append(toB, Head(txq)))
    BY <1>4, SenderDriver DEF Transmit, SenderMoves, Others, S!DrvTransmit
  <1>5. ASSUME GiveUp
        PROVE  SenderMoves /\ UNCHANGED B /\ toA' = toA /\ toB' = toB
    BY <1>5, SenderDriver DEF GiveUp, SenderMoves, Others
  <1>6. ASSUME TakeFC
        PROVE  /\ SenderMoves /\ UNCHANGED B /\ toB' = toB
               /\ toA # <<>> /\ toA' = Tail(toA)
    <2>1. toA # <<>> /\ toA' = Tail(toA) /\ S!cantp_can_rx(Head(toA)) /\ toB' = toB
      BY <1>6 DEF TakeFC
    <2> QED
      BY <1>6, <2>1, SenderTakesFC DEF TakeFC, SenderMoves, Others
  <1>7. ASSUME Receive
        PROVE  /\ ReceiverMoves /\ UNCHANGED A /\ toA' = toA
               /\ toB # <<>> /\ toB' = Tail(toB)
    <2>1. rrx = "poll" /\ toB # <<>> /\ toB' = Tail(toB) /\ R!cantp_canrx_cb(Head(toB), "A")
      BY <1>7 DEF Receive
    <2> QED
      BY <1>7, <2>1, ReceiverHandles DEF Receive, ReceiverMoves
  <1>8. ASSUME SendFC
        PROVE  /\ ReceiverMoves /\ UNCHANGED A /\ toB' = toB
               /\ \/ toA' = toA
                  \/ toA' = Append(toA, RP!CTSFrame)
                  \/ rrx = "wait" /\ toA' = Append(toA, RP!WaitFrame)
    BY <1>8, ReceiverSends DEF SendFC, Answer, ReceiverMoves, RP!SendWait
  <1>9. ASSUME CountBlock
        PROVE  ReceiverMoves /\ UNCHANGED A /\ toA' = toA /\ toB' = toB
    BY <1>9, ReceiverCounts DEF CountBlock, ReceiverMoves, bus
  <1>10. UNCHANGED B => ReceiverMoves
    BY <1>1 DEF ReceiverMoves
  <1>11. UNCHANGED A => SenderMoves
    BY <1>1 DEF SenderMoves
  <1>12. ASSUME UNCHANGED vars PROVE UNCHANGED A /\ UNCHANGED B /\ UNCHANGED bus
    BY <1>12 DEF vars
  <1>13. UNCHANGED bus => toA' = toA /\ toB' = toB
    BY DEF bus
  <1>14. Next \/ UNCHANGED vars
    OBVIOUS
  <1>20. request' = request
    BY <1>14 DEF Next, Send, HandOver, Task, Rx, Cb, Expire, Transmit, GiveUp, TakeFC,
                 Receive, SendFC, CountBlock, Others, vars
  <1> HIDE DEF vars, bus
  <1>15. CASE \E l \in Lens : Send(l)
    BY <1>2, <1>10, <1>13, <1>15, <1>20
  <1>16. CASE HandOver \/ Task \/ Rx \/ Cb \/ Expire
    BY <1>3, <1>10, <1>13, <1>16, <1>20
  <1>17. CASE Transmit \/ GiveUp \/ TakeFC
    BY <1>4, <1>5, <1>6, <1>10, <1>17, <1>20
  <1>18. CASE Receive \/ SendFC \/ CountBlock
    BY <1>7, <1>8, <1>9, <1>11, <1>18, <1>20
  <1>19. CASE UNCHANGED vars
    BY <1>10, <1>11, <1>12, <1>13, <1>19, <1>20
  <1> QED
    BY <1>14, <1>15, <1>16, <1>17, <1>18, <1>19, <1>20 DEF Next

\* The two nodes at their start.
LEMMA TypedInit == Init => Typed
  <1> SUFFICES ASSUME Init PROVE Typed
    OBVIOUS
  <1>1. SP!Init /\ RP!RoleInit
    BY SenderInit, ReceiverInit DEF Init
  <1>2. SP!IInv /\ SP!BlockInv
    BY <1>1, SenderAssumptions, SP!InitialIInv, SP!InitialBlock
  <1>3. RP!RoleTypeOK /\ RP!ControlOK /\ RP!FlowInv
    BY <1>1, ReceiverAssumptions, RP!RoleInitTyped, RP!RoleInitFlow
  <1> QED
    BY <1>2, <1>3, EmptySeq DEF Init, Typed

\* Each step keeps both roles' invariants.
LEMMA TypedStep == ASSUME Typed, [Next]_vars PROVE Typed'
  <1>1. SP!IInv' /\ SP!BlockInv'
    BY StepIs, SenderKept, BlockKept DEF Typed
  <1>2. (RP!RoleTypeOK /\ RP!ControlOK /\ RP!FlowInv)'
    BY StepIs, ReceiverKept DEF Typed
  <1>3. toA' \in Seq(FlowControl)
    <2>1. RP!CTSFrame \in FlowControl /\ RP!WaitFrame \in FlowControl
      BY ReceiverAssumptions, SameFrames, RP!FlowFrames DEF Typed
    <2>2. toA \in Seq(FlowControl)
      BY DEF Typed
    <2>3. toA # <<>> => Tail(toA) \in Seq(FlowControl)
      BY <2>2
    <2> QED
      BY <2>1, <2>2, <2>3, StepIs, AppendProperties
  <1>4. toB' \in Seq(Frame)
    <2>1. toB \in Seq(Frame) /\ txq \in Seq(Frame)
      BY SameFrames DEF Typed, SP!IInv, SP!TypeOK
    <2>2. txq # <<>> => Append(toB, Head(txq)) \in Seq(Frame)
      BY <2>1, AppendProperties
    <2>3. toB # <<>> => Tail(toB) \in Seq(Frame)
      BY <2>1
    <2> QED
      BY <2>1, <2>2, <2>3, StepIs
  <1> QED
    BY <1>1, <1>2, <1>3, <1>4 DEF Typed

----------------------------------------------------------------------------
(* The separation time.  Without FC.WAIT every Flow Control frame on its   *)
(* way to A, or taken by it, bears B's STmin byte; so A has decoded it by  *)
(* the time it sends Consecutive Frames (theorem Pacing, below).           *)

\* What the STmin byte can say: not 901 to 999 microseconds.
Expressible(q) == ~(q.st_min_us > 900 /\ q.st_min_us < 1000)

\* A Flow Control frame that bears B's STmin byte.
Paced(f) == f.fs = "CTS" /\ f.st = params.st_min

\* Where STmin is on its way from the request to st_tim_us.
PaceInv ==
  /\ request \in Requests /\ P!Accepted(request)
  /\ params = P!cantp_rcvr_params_init(request)
  /\ ~P!NeedsWait(request) =>
       /\ \A i \in DOMAIN toA : Paced(toA[i])
       /\ rx \in {"check", "wait", "recheck", "fc"} => Paced(fc)
       /\ state \in SP!InCF \/ task \in {"cf_done", "stmin", "tx"}
            => st_tim_us = StDecode(params.st_min)

\* A token is Paced when A takes it, and what A decodes from it is B's STmin.
LEMMA SenderPaced ==
  ASSUME Typed, SenderMoves, NEW st,
         toA # <<>> => Head(toA).fs = "CTS" /\ Head(toA).st = st,
         rx \in {"check", "wait", "recheck", "fc"} => fc.fs = "CTS" /\ fc.st = st,
         state \in SP!InCF \/ task \in {"cf_done", "stmin", "tx"} => st_tim_us = StDecode(st)
  PROVE  /\ rx' \in {"check", "wait", "recheck", "fc"} => fc'.fs = "CTS" /\ fc'.st = st
         /\ state' \in SP!InCF \/ task' \in {"cf_done", "stmin", "tx"}
              => st_tim_us' = StDecode(st)
  <1> USE DEF SP!InCF
  <1>1. ASSUME NEW l \in Lens, SP!cantp_send_SF(l) \/ SP!cantp_send_FF(l)
        PROVE  state' \notin SP!InCF /\ UNCHANGED <<rx, fc, task, st_tim_us>>
    BY <1>1 DEF SP!cantp_send_SF, SP!cantp_send_FF, SP!StartMessage, SP!cantp_sndr_set_state
  <1>2. ASSUME SP!TaskStep
        PROVE  /\ UNCHANGED <<rx, fc, st_tim_us>>
               /\ state' \in SP!InCF \/ task' \in {"cf_done", "stmin", "tx"}
                    => state \in SP!InCF \/ task \in {"cf_done", "stmin", "tx"}
    <2>1. CASE SP!TaskPoll \/ SP!TaskWake \/ SP!TaskTxDone \/ SP!TaskTxTimeout \/ SP!ConfirmRead
      BY <2>1 DEF SP!TaskPoll, SP!TaskWake, SP!TaskTxDone, SP!TaskTxTimeout, SP!ConfirmRead,
                  SP!ByTask, SP!transfer
    <2>2. CASE SP!ConfirmSF \/ SP!ConfirmFF
      BY <2>2 DEF SP!ConfirmSF, SP!ConfirmFF, SP!ByTask, SP!transfer, SP!cantp_sndr_set_state
    <2>3. CASE SP!ConfirmCF
      BY <2>3 DEF SP!ConfirmCF, SP!ByTask
    <2>4. CASE SP!NextCF
      BY <2>4 DEF SP!NextCF, SP!ByTask
    <2>5. CASE SP!NextCF_tx
      BY <2>5 DEF SP!NextCF_tx, SP!transfer
    <2> QED
      BY <1>2, <2>1, <2>2, <2>3, <2>4, <2>5 DEF SP!TaskStep
  <1>3. CASE SP!RxStep
    <2>1. CASE SP!FCCheck \/ SP!FCWake \/ SP!FCWaitTimeout \/ SP!FCRecheck
      BY <2>1 DEF SP!FCCheck, SP!FCWake, SP!FCWaitTimeout, SP!FCRecheck, SP!ByRx, SP!transfer
    <2>2. CASE SP!FirstCF_tx
      BY <2>2 DEF SP!FirstCF_tx, SP!transfer
    <2>3. CASE SP!sndr_rx_flow_control_frame
      <3>1. /\ rx = "fc" /\ rx' \in {"poll", "tx"} /\ task' = task
            /\ \/ st_tim_us' = SP!StDecode(fc.st)
               \/ st_tim_us' = st_tim_us /\ state' = state
        BY <2>3 DEF SP!sndr_rx_flow_control_frame, SP!ClearToSend, SP!NotClearToSend, SP!ByRx
      <3>2. SP!StDecode(st) = StDecode(st)
        BY DEF SP!StDecode, StDecode
      <3> QED
        BY <3>1, <3>2
    <2> QED
      BY <1>3, <2>1, <2>2, <2>3 DEF SP!RxStep
  <1>4. ASSUME SP!CbStep \/ SP!TimerExpire
        PROVE  /\ UNCHANGED <<rx, fc, task, st_tim_us>>
               /\ state' \in SP!InCF => state \in SP!InCF
    BY <1>4 DEF SP!CbStep, SP!TimerCbRead, SP!TimerCbReport, SP!TimerExpire, SP!ByCb,
                SP!transfer, SP!cantp_sndr_set_state
  <1>5. ASSUME SP!cantp_send_tx \/ SP!DrvTransmit \/ SP!DrvDrop \/ UNCHANGED SP!vars
        PROVE  UNCHANGED <<rx, fc, task, state, st_tim_us>>
    BY <1>5 DEF SP!cantp_send_tx, SP!Undisturbed, SP!DrvTransmit, SP!DrvDrop, SP!vars,
                SP!transfer
  <1>6. ASSUME toA # <<>>, SP!cantp_can_rx(Head(toA))
        PROVE  fc' = Head(toA) /\ UNCHANGED <<task, state, st_tim_us>>
    BY <1>6 DEF SP!cantp_can_rx, SP!ByRx, SP!transfer
  <1> HIDE DEF SP!InCF
  <1> QED
    BY <1>1, <1>2, <1>3, <1>4, <1>5, <1>6 DEF SenderMoves

\* B never changes its parameters.
LEMMA ParamsKept == ASSUME ReceiverMoves PROVE params' = params
  <1>1. ASSUME NEW f, NEW id, RP!cantp_canrx_cb(f, id) PROVE params' = params
    <2>1. ASSUME RP!rx_single_frame(f, id) PROVE params' = params
      BY <2>1 DEF RP!rx_single_frame
    <2>2. ASSUME RP!rcvr_rx_first_frame(f, id) PROVE params' = params
      BY <2>2 DEF RP!rcvr_rx_first_frame, RP!FFRejected, RP!FFNoBuffer, RP!FFAccepted
    <2>3. ASSUME RP!rcvr_rx_consecutive_frame(f, id) PROVE params' = params
      BY <2>3 DEF RP!rcvr_rx_consecutive_frame, RP!CFDiscarded, RP!CFAccepted
    <2>4. ASSUME RP!FFRefused(f) \/ RP!CFIgnored(f, id) PROVE params' = params
      BY <2>4 DEF RP!FFRefused, RP!CFIgnored, RP!rvars
    <2> QED
      BY <1>1, <2>1, <2>2, <2>3, <2>4 DEF RP!cantp_canrx_cb
  <1>2. ASSUME NEW ok, RP!SendCTS(ok) \/ RP!SendWait(ok) PROVE params' = params
    BY <1>2 DEF RP!SendCTS, RP!SendWait, RP!cantp_can_tx
  <1>3. ASSUME RP!EndBlock \/ RP!AwaitNextCF PROVE params' = params
    BY <1>3 DEF RP!EndBlock, RP!AwaitNextCF
  <1>4. ASSUME UNCHANGED RP!rvars PROVE params' = params
    BY <1>4 DEF RP!rvars
  <1> QED
    BY <1>1, <1>2, <1>3, <1>4 DEF ReceiverMoves

\* Each step keeps the pace.
LEMMA PaceStep == ASSUME Typed, PaceInv, [Next]_vars PROVE PaceInv'
  <1>1. request' = request /\ params' = params /\ SenderMoves
    BY StepIs, ParamsKept
  <1>2. SUFFICES ASSUME ~P!NeedsWait(request)
                 PROVE  /\ \A i \in DOMAIN toA' : Paced(toA'[i])
                        /\ rx' \in {"check", "wait", "recheck", "fc"} => Paced(fc')
                        /\ state' \in SP!InCF \/ task' \in {"cf_done", "stmin", "tx"}
                             => st_tim_us' = StDecode(params.st_min)
    <2>1. P!NeedsWait(request)' = P!NeedsWait(request)
      BY <1>1 DEF P!NeedsWait
    <2>2. P!Accepted(request)' /\ params' = P!cantp_rcvr_params_init(request')
      BY <1>1 DEF PaceInv
    <2> QED
      BY <1>1, <2>1, <2>2 DEF PaceInv, Paced
  <1>3. /\ \A i \in DOMAIN toA : Paced(toA[i])
        /\ rx \in {"check", "wait", "recheck", "fc"} => Paced(fc)
        /\ state \in SP!InCF \/ task \in {"cf_done", "stmin", "tx"}
             => st_tim_us = StDecode(params.st_min)
    BY <1>2 DEF PaceInv
  <1>4. toA \in Seq(FlowControl)
    BY DEF Typed
  <1>5. /\ toA # <<>> => /\ Head(toA) = toA[1] /\ 1 \in DOMAIN toA
                         /\ \A i \in DOMAIN Tail(toA) : i + 1 \in DOMAIN toA /\ Tail(toA)[i] = toA[i + 1]
    BY <1>4, HeadTailProperties, LenProperties
  <1>6. rrx # "wait"
    <2>1. params.wft_num = 0
      BY <1>2 DEF PaceInv, P!cantp_rcvr_params_init
    <2>2. rrx = "wait" => RP!Sending
      BY DEF Typed, RP!FlowInv, RP!ControlOK
    <2>3. rcvr.wft_cntr \in RP!UInt8
      BY DEF Typed, RP!RoleTypeOK
    <2>4. ~(rcvr.wft_cntr < 0)
      BY <2>3 DEF RP!UInt8
    <2> QED
      BY <2>1, <2>2, <2>4 DEF RP!Sending
  <1>7. \A i \in DOMAIN toA' : Paced(toA'[i])
    <2>1. CASE toA' = Append(toA, RP!CTSFrame)
      <3>1. RP!CTSFrame \in FlowControl
        BY ReceiverAssumptions, SameFrames, RP!FlowFrames DEF Typed
      <3>2. /\ DOMAIN toA' = 1..Len(toA) + 1 /\ DOMAIN toA = 1..Len(toA) /\ Len(toA) \in Nat
            /\ toA'[Len(toA) + 1] = RP!CTSFrame
            /\ \A i \in 1..Len(toA) : toA'[i] = toA[i]
        BY <1>4, <2>1, <3>1, AppendProperties, LenProperties
      <3>3. Paced(RP!CTSFrame)
        BY DEF Paced, RP!CTSFrame
      <3>4. ASSUME NEW i \in DOMAIN toA' PROVE i = Len(toA) + 1 \/ i \in 1..Len(toA)
        BY <3>2
      <3> QED
        BY <1>3, <3>2, <3>3, <3>4
    <2>2. CASE toA' = toA \/ (toA # <<>> /\ toA' = Tail(toA))
      BY <1>3, <1>5, <2>2
    <2> QED
      BY <1>6, <2>1, <2>2, StepIs
  <1>8. toA # <<>> => Head(toA).fs = "CTS" /\ Head(toA).st = params.st_min
    BY <1>3, <1>5 DEF Paced
  <1> QED
    BY <1>1, <1>3, <1>7, <1>8, SenderPaced DEF Paced

----------------------------------------------------------------------------
(* End to end.  The invariant says where a message stands on its way from  *)
(* A to B.  A's First Frame is answered once, by a CTS that finds A waiting *)
(* for it; a later Flow Control frame finds A deaf, at the end of a block   *)
(* that nothing leaves.                                                     *)

\* B's BlockSize.
bs == params.block_size

\* The message B is receiving, or has received last, is the one A is sending.
Paired == buf # <<>> /\ msg = buf[1].msg

\* A awaits the answer to its First Frame; A is at the end of a block before
\* that of the message; what B keeps goes on after the first block.
Opening == state \in {"FF_SENDING", "FF_FC_WAIT"} /\ Len(wire) = 1
Longer  == bs + 1 < NumFrames(RP!Message.len)
Full    == /\ Paired /\ state \in {"CF_SENDING", "CF_FC_WAIT"} /\ bs > 0 /\ blk = bs
           /\ Len(wire) = bs + 1 /\ Longer

\* Flow Control frames are under way to A; B is about to send one of a block.
Token == toA # <<>> \/ rx \in {"check", "wait", "recheck", "fc"}
Busy  == rrx \in {"wait", "block_fc"} \/ (rrx = "block" /\ RP!BlockFull)

\* The answer to A's First Frame is under way, or A is taking it.
Answered ==
  /\ Paired /\ Opening /\ Len(buf) = 1 /\ rrx = "poll" /\ toB = <<>>
  /\ \/ rx = "poll" /\ toA = <<RP!CTSFrame>>
     \/ rx \in {"check", "fc"} /\ toA = <<>> /\ fc = RP!CTSFrame /\ state = "FF_FC_WAIT"

\* The messages sent are A's, numbered in order.
BusInv ==
  /\ sent \in Seq([id : {"A"}, len : Lens]) /\ Len(sent) = msg
  /\ msg > 0 => sent[msg].len = SP!MsgLen
  /\ msg = 0 => state = "IDLE"
  /\ lost \in 0..MaxLost

\* The frames on their way to B are A's.  A First Frame is the last of them and
\* of A's message, unanswered so far; a Consecutive Frame is of the message B
\* keeps, of its first block, and if it ends the block A has come to the end.
FrameNo(f) == (f.off + 1) \div 7

\* What is known of one frame on its way.
Carried(f) ==
  /\ f.msg \in 1..msg /\ FrameNo(f) \in Nat /\ FrameNo(f) < NumFrames(sent[f.msg].len)
  /\ f = Segment(f.msg, sent[f.msg].len, FrameNo(f))
  /\ f.pci = "FF" => f.msg = msg /\ Opening /\ ~Token /\ rrx # "fc" /\ ~Busy
  /\ f.pci = "CF" => /\ buf # <<>> /\ f.msg = buf[1].msg
                     /\ bs > 0 => FrameNo(f) <= bs /\ (FrameNo(f) = bs /\ Longer => Full)

\* All the frames on their way.
FramesInv ==
  \A i \in DOMAIN toB : Carried(toB[i]) /\ (toB[i].pci = "FF" => i = Len(toB))

\* While B receives, the Consecutive Frames that come to it, and the next one
\* that A will send, are late in its numbering by no more than were lost, and
\* not late only if none is missing.
Number(i) == IF i \in 1..Len(toB) THEN FrameNo(toB[i]) ELSE Len(wire)
Due(i)    == IF i \in 1..Len(toB) THEN toB[i].pci = "CF" ELSE i = Len(toB) + 1 /\ Paired
Late(i)   == RP!Lag(Number(i) - i + 1, rcvr.sn)

\* The i-th frame to come is late by no more than were lost.
OnTrack(i) ==
  /\ Late(i) <= lost /\ (Late(i) = 0 => Number(i) = Len(buf) + i - 1)
  /\ \A j \in 1..i - 1 : Due(j) /\ Late(j) <= Late(i)

\* B follows A.
Following ==
  /\ Paired => Len(wire) > 0
  /\ rcvr.state \in {"FC_SENDING", "FC_SENT"} =>
       /\ Len(buf) < NumFrames(RP!Message.len)
       /\ \A i \in 1..Len(toB) + 1 : Due(i) => OnTrack(i)

\* A counts its frames in the first block, with the counter at zero before it.
CountedInv ==
  /\ blk > 0 => /\ Paired /\ (bs > 0 => blk <= bs) /\ SP!Handed = 1 + blk
                /\ state \in SP!InCF \cup {"IDLE"} /\ (state \in SP!InCF => bs_pair = bs)
  /\ buf = <<>> \/ (Paired /\ blk = 0) => bl_index = 0
  /\ bs > 0 => /\ state = "CF_SENDING" => bl_index = blk - 1
               /\ state = "CF_SENT" => bl_index = blk
  /\ state = "CF_FC_WAIT" => Full

\* Who may send Flow Control, and when it can be under way.
Exchange ==
  /\ rrx = "fc" => Paired /\ Opening /\ Len(buf) = 1 /\ ~Token /\ toB = <<>>
  /\ Busy => Full
  /\ Token => Answered \/ Full
  /\ state = "FF_FC_WAIT" /\ (cb # "none" \/ timer # "N_Bs") => Quiet
  /\ SP!RxInv
  /\ params.wft_num > 0 => bs = 1

\* What relates the two nodes and the bus.
Joint == /\ BusInv /\ FramesInv /\ Following /\ CountedInv /\ Exchange
         /\ RP!Announced /\ RP!BufferIntact
\* The inductive invariant of the two nodes.
JointInv == Typed /\ SP!Stream /\ Joint

----------------------------------------------------------------------------
(* What the invariant says of one state.                                    *)

\* Both roles cut a message into the same frames.
LEMMA SameSegments ==
  /\ \A m, l, k : SP!Segment(m, l, k) = Segment(m, l, k) /\ RP!Segment(m, l, k) = Segment(m, l, k)
  /\ \A l : SP!NumFrames(l) = NumFrames(l) /\ RP!NumFrames(l) = NumFrames(l)
  BY DEF
       SP!Segment, RP!Segment, Segment, SP!SingleFrame, RP!SingleFrame, SingleFrame,
       SP!FirstFrame, RP!FirstFrame, FirstFrame, SP!ConsecutiveFrame, RP!ConsecutiveFrame,
       ConsecutiveFrame, SP!FFLen, RP!FFLen, FFLen, SP!CFOffset, RP!CFOffset, CFOffset,
       SP!NumFrames, RP!NumFrames, NumFrames, SP!NumCFs, RP!NumCFs, NumCFs,
       SP!CANTP_SF_NUM_DATA_BYTES, RP!CANTP_SF_NUM_DATA_BYTES, CANTP_SF_NUM_DATA_BYTES,
       SP!CANTP_FF_NUM_DATA_BYTES, RP!CANTP_FF_NUM_DATA_BYTES, CANTP_FF_NUM_DATA_BYTES,
       SP!CANTP_CF_NUM_DATA_BYTES, RP!CANTP_CF_NUM_DATA_BYTES, CANTP_CF_NUM_DATA_BYTES

\* The numbers it speaks of.
LEMMA JointTypes ==
  ASSUME Typed
  PROVE  /\ bs \in Nat /\ bs <= 255 /\ blk \in Nat /\ bl_index \in Nat /\ msg \in Nat
         /\ Len(wire) \in Nat /\ SP!Handed \in Nat /\ SP!Handed >= 1 /\ SP!MsgLen \in Nat
         /\ NumFrames(SP!MsgLen) \in Nat /\ Len(buf) \in Nat /\ rcvr.sn \in RP!SeqNum
         /\ SP!TypeOK /\ state \in SP!States
         /\ (blk = 0 => SP!Handed = 1)
  <1>1. SP!TypeOK /\ RP!RoleTypeOK
    BY DEF Typed, SP!IInv
  <1>2. /\ SP!Handed \in Nat /\ SP!Handed >= 1 /\ SP!MsgLen \in Nat
        /\ SP!NumFrames(SP!MsgLen) \in Nat /\ blk \in Nat /\ msg \in Nat
        /\ (blk = 0 => SP!Handed = 1)
    BY <1>1, SenderAssumptions, SP!StreamTypes
  <1>3. Len(wire) \in Nat /\ Len(buf) \in Nat
    BY <1>1, LenProperties DEF SP!TypeOK, RP!RoleTypeOK
  <1>4. bs \in RP!UInt8 /\ bl_index \in SP!UInt8
    BY <1>1, ReceiverAssumptions, RP!ParamsTypes DEF SP!TypeOK, RP!RoleTypeOK, bs
  <1>5. bs \in Nat /\ bs <= 255 /\ bl_index \in Nat
    BY <1>4, TypeRanges DEF UInt8, RP!UInt8, SP!UInt8
  <1> QED
    BY <1>1, <1>2, <1>3, <1>5, SameSegments DEF SP!TypeOK, RP!RoleTypeOK

\* Away from the opening of a message and from the end of a block, no Flow
\* Control frame is under way or about to be sent, and no frame that calls for
\* one is on its way.
LEMMA NothingDue ==
  ASSUME Exchange, FramesInv, ~Opening, ~Full
  PROVE  /\ ~Token /\ ~Busy /\ rrx # "fc"
         /\ \A i \in DOMAIN toB :
              /\ toB[i].pci # "FF"
              /\ toB[i].pci = "CF" => ~(bs > 0 /\ FrameNo(toB[i]) = bs /\ Longer)
  <1>1. ~Token
    BY DEF Exchange, Answered
  <1>2. ~Busy /\ rrx # "fc"
    BY DEF Exchange
  <1> QED
    BY <1>1, <1>2 DEF FramesInv, Carried

\* The numbers by which frames follow.
LEMMA LateNat ==
  ASSUME Typed, FramesInv, NEW i \in 1..Len(toB) + 1
  PROVE  Number(i) \in Nat /\ Late(i) \in Nat
  <1>1. Len(toB) \in Nat /\ DOMAIN toB = 1..Len(toB)
    BY LenProperties DEF Typed
  <1>2. Number(i) \in Nat
    BY <1>1, JointTypes DEF Number, FramesInv, Carried
  <1>3. Number(i) - i + 1 \in Int /\ rcvr.sn \in RP!SeqNum
    BY <1>1, <1>2, JointTypes
  <1> QED
    BY <1>2, <1>3, ReceiverAssumptions, RP!LagSteps DEF Late

\* What the Sender's own invariants say of its counters and of the thread that
\* handles Flow Control.
LEMMA Standing ==
  ASSUME JointInv
  PROVE  /\ state \in SP!InCF => blk > 0
         /\ state \in {"SF_SENDING", "FF_SENDING", "FF_FC_WAIT"} => blk = 0
         /\ rx = "fc" => state = "FF_FC_WAIT"
         /\ state = "CF_SENT" /\ bs_pair > 0 => blk <= bl_index /\ bl_index < bs_pair
         /\ state = "FF_FC_WAIT" => Len(wire) = 1
         /\ rx \in {"poll", "check", "wait", "recheck", "fc", "tx"}
         /\ rx = "tx" => state \in SP!Sending
         /\ Paired => RP!Message.len = SP!MsgLen /\ msg > 0
  <1> USE DEF JointInv, Typed, Joint
  <1>1. SP!TypeOK /\ SP!ThreadsInv /\ SP!BlockInv /\ SP!CountInv /\ SP!RestInv
    BY DEF SP!IInv, SP!Safe, SP!Stream
  <1>2. SP!SInv
    BY DEF SP!SInv
  <1>3. rx = "tx" => state \in SP!Sending
    BY <1>2, SenderAssumptions, SP!Whereabouts
  <1>4. Paired => RP!Message.len = SP!MsgLen /\ msg > 0
    <2> SUFFICES ASSUME Paired PROVE RP!Message.len = SP!MsgLen /\ msg > 0
      OBVIOUS
    <2>1. msg = buf[1].msg /\ msg \in 1..Len(sent) /\ Len(sent) = msg /\ msg \in Nat
      BY JointTypes DEF Paired, RP!Announced, BusInv
    <2> QED
      BY <2>1 DEF BusInv, RP!Message
  <1>5. rx \in {"poll", "check", "wait", "recheck", "fc", "tx"}
    BY <1>1 DEF SP!TypeOK
  <1>6. state = "CF_SENT" /\ bs_pair > 0 => blk <= bl_index /\ bl_index < bs_pair
    BY <1>1 DEF SP!BlockInv
  <1>7. /\ state \in SP!InCF => blk > 0
        /\ state \in {"SF_SENDING", "FF_SENDING", "FF_FC_WAIT"} => blk = 0
    BY <1>1 DEF SP!CountInv
  <1>8. rx = "fc" => state = "FF_FC_WAIT"
    BY <1>1 DEF SP!ThreadsInv
  <1>9. state = "FF_FC_WAIT" => Len(wire) = 1
    BY <1>1 DEF SP!RestInv
  <1> QED
    BY <1>3, <1>4, <1>5, <1>6, <1>7, <1>8, <1>9

----------------------------------------------------------------------------
(* A step of A alone.                                                       *)

\* What every such step has in common.
Alone ==
  /\ SP!Seen /\ UNCHANGED <<B, toA, toB, sent, msg, wire, fc>> /\ SP!MsgLen' = SP!MsgLen
  /\ lost' = lost \/ (lost < MaxLost /\ lost' = lost + 1)
  /\ SP!TimerExpire /\ timer = "N_Bs" => Quiet

\* What no such step changes.
LEMMA AloneSame ==
  ASSUME Alone
  PROVE  /\ bs' = bs /\ Paired' = Paired /\ Longer' = Longer /\ Busy' = Busy
         /\ RP!Message' = RP!Message /\ RP!CTSFrame' = RP!CTSFrame
         /\ UNCHANGED <<params, rcvr, rbl_index, rtimer, rrx, buf, flow, inbox, failed,
                        toA, toB, sent, msg, wire, fc>>
  BY DEF Alone, B, bs, Paired, Longer, Busy, RP!Message, RP!CTSFrame, RP!BlockFull

\* At the end of a block A stays there: neither does the message end with the
\* block, nor can the block go on.
LEMMA FullKept ==
  ASSUME JointInv, Alone, Full PROVE Full'
  <1>1. /\ Paired /\ state \in {"CF_SENDING", "CF_FC_WAIT"} /\ bs > 0 /\ blk = bs
        /\ Len(wire) = bs + 1 /\ bs + 1 < NumFrames(RP!Message.len)
    BY DEF Full, Longer
  <1>2. /\ bs \in Nat /\ bs <= 255 /\ blk \in Nat /\ bl_index \in Nat
        /\ NumFrames(SP!MsgLen) \in Nat
    BY JointTypes DEF JointInv
  <1>3. /\ SP!Handed = bs + 1 /\ bs_pair = bs
        /\ state = "CF_SENDING" => bl_index = bs - 1
    BY <1>1, <1>2 DEF JointInv, Joint, CountedInv, SP!InCF
  <1>4. NumFrames(SP!MsgLen) # bs + 1
    BY <1>1, <1>2, Standing
  <1>5. SP!NumFrames(SP!MsgLen) = NumFrames(SP!MsgLen)
    BY SameSegments
  <1>6. ~SP!Ended
    BY <1>1, <1>2, <1>3, <1>4, <1>5 DEF SP!Ended
  <1>7. ~SP!Continued
    <2>1. state = "CF_SENDING" => SP!BlockComplete
      BY <1>1, <1>2, <1>3 DEF SP!BlockComplete, SP!U8
    <2> QED
      BY <2>1 DEF SP!Continued
  <1>8. state' \in {"CF_SENDING", "CF_FC_WAIT"} /\ blk' = blk
    <2>1. SP!Seen
      BY DEF Alone
    <2> QED
      BY <1>1, <1>6, <1>7, <2>1 DEF SP!Seen, SP!Unseen, SP!Refused, SP!FFConfirmed,
         SP!BlockEnded, SP!NextComposed, SP!FirstComposed
  <1> QED
    BY <1>1, <1>8, AloneSame DEF Full, Longer

\* While a frame of the exchange is under way, and not being handled by A, the
\* opening of the message goes on.
LEMMA OpeningKept ==
  ASSUME JointInv, Alone, Opening, ~Quiet, rx # "fc" PROVE Opening'
  <1>1. state \in {"FF_SENDING", "FF_FC_WAIT"} /\ Len(wire) = 1 /\ wire' = wire
    BY DEF Opening, Alone
  <1>2. state = "FF_FC_WAIT" => cb = "none"
    BY DEF JointInv, Joint, Exchange
  <1>3. SP!Seen
    BY DEF Alone
  <1>4. ~SP!Ended
    BY <1>1, <1>2 DEF SP!Ended
  <1>5. state' \in {"FF_SENDING", "FF_FC_WAIT"}
    BY <1>1, <1>3, <1>4 DEF SP!Seen, SP!Unseen, SP!Refused, SP!FFConfirmed, SP!Continued,
       SP!BlockEnded, SP!NextComposed, SP!FirstComposed
  <1> QED
    BY <1>1, <1>5 DEF Opening

\* A takes no Flow Control frame up by itself, and does not lose the answer to
\* its First Frame.
LEMMA TokenKept ==
  ASSUME JointInv, Alone
  PROVE  /\ Token' => Token
         /\ Answered /\ Token' => Answered'
  <1>1. SP!Seen /\ toA' = toA /\ toB' = toB /\ wire' = wire /\ fc' = fc
    BY DEF Alone
  <1>2. Token' => Token
    BY <1>1 DEF Token, SP!Seen, SP!Unseen, SP!Refused, SP!FFConfirmed, SP!Ended, SP!Continued,
       SP!BlockEnded, SP!NextComposed, SP!FirstComposed, SP!Listening
  <1>3. ASSUME Answered, Token' PROVE Answered'
    <2>1. /\ Paired /\ Opening /\ Len(buf) = 1 /\ rrx = "poll" /\ toB = <<>>
          /\ \/ rx = "poll" /\ toA = <<RP!CTSFrame>>
             \/ rx \in {"check", "fc"} /\ toA = <<>> /\ fc = RP!CTSFrame /\ state = "FF_FC_WAIT"
      BY <1>3 DEF Answered
    <2>2. <<RP!CTSFrame>> # <<>>
      OBVIOUS
    <2>3. ~Quiet
      BY <2>1, <2>2 DEF Quiet
    <2>4. rx = "fc" => rx' = "fc"
      BY <1>1, <1>3, <2>1 DEF Token, SP!Seen, SP!Unseen, SP!Refused, SP!FFConfirmed, SP!Ended,
         SP!Continued, SP!BlockEnded, SP!NextComposed, SP!FirstComposed, SP!Listening
    <2>5. SP!Unseen \/ SP!FFConfirmed
      <3>1. ~SP!Ended
        BY <2>1, <2>3 DEF SP!Ended, JointInv, Joint, Exchange, Opening
      <3> QED
        BY <1>1, <2>1, <2>4, <3>1 DEF SP!Seen, SP!Refused, SP!Continued, SP!BlockEnded,
           SP!NextComposed, SP!FirstComposed, Opening
    <2>6. Opening'
      BY <1>1, <2>1, <2>5 DEF Opening, SP!Unseen, SP!FFConfirmed
    <2>7. \/ rx' = "poll" /\ toA' = <<RP!CTSFrame>>
          \/ rx' \in {"check", "fc"} /\ toA' = <<>> /\ fc' = RP!CTSFrame /\ state' = "FF_FC_WAIT"
      BY <1>1, <2>1, <2>5 DEF SP!Unseen, SP!FFConfirmed, SP!Listening
    <2> QED
      BY <1>1, <2>1, <2>6, <2>7, AloneSame DEF Answered
  <1> QED
    BY <1>2, <1>3

\* The frames on their way are not touched.
LEMMA AloneFrames == ASSUME JointInv, Alone PROVE BusInv' /\ FramesInv'
  <1>1. BusInv'
    <2>1. lost' \in 0..MaxLost
      BY BoundsAssumption DEF Alone, JointInv, Joint, BusInv
    <2>2. state = "IDLE" => state' = "IDLE"
      BY DEF Alone, SP!Seen, SP!Unseen, SP!Refused, SP!FFConfirmed, SP!Ended, SP!Continued,
         SP!BlockEnded, SP!NextComposed, SP!FirstComposed
    <2> QED
      BY <2>1, <2>2 DEF Alone, JointInv, Joint, BusInv
  <1>2. ASSUME NEW i \in DOMAIN toB, Carried(toB[i]), toB[i].pci = "FF"
        PROVE  (Opening /\ ~Token /\ rrx # "fc" /\ ~Busy)'
    <2>1. Opening /\ ~Token /\ rrx # "fc" /\ ~Busy
      BY <1>2 DEF Carried
    <2>2. ~Quiet /\ rx # "fc"
      BY <2>1 DEF Quiet, Token
    <2> QED
      BY <2>1, <2>2, AloneSame, OpeningKept, TokenKept
  <1>3. ASSUME NEW i \in DOMAIN toB, Carried(toB[i]) PROVE Carried(toB[i])'
    BY <1>2, <1>3, AloneSame, FullKept DEF Carried
  <1> QED
    BY <1>1, <1>3, AloneSame DEF FramesInv, JointInv, Joint

\* B goes on following.
LEMMA AloneFollowing == ASSUME JointInv, Alone PROVE Following'
  <1>1. /\ UNCHANGED <<rcvr, buf, toB, wire, msg>> /\ Paired' = Paired
        /\ RP!Message' = RP!Message
    BY AloneSame
  <1>2. \A i : Number(i)' = Number(i) /\ Due(i)' = Due(i) /\ Late(i)' = Late(i)
    BY <1>1 DEF Number, Due, Late
  <1>3. lost \in Nat /\ lost' \in Nat /\ lost <= lost'
    BY BoundsAssumption DEF JointInv, Joint, BusInv, Alone
  <1>4. ASSUME NEW i \in 1..Len(toB) + 1, OnTrack(i) PROVE OnTrack(i)'
    <2>1. Late(i) \in Nat
      BY LateNat DEF JointInv, Joint
    <2>2. Late(i) <= lost'
      BY <1>3, <1>4, <2>1 DEF OnTrack
    <2> QED
      BY <1>1, <1>2, <1>4, <2>2 DEF OnTrack
  <1> QED
    BY <1>1, <1>2, <1>4 DEF Following, JointInv, Joint

\* A counts its frames in the first block.
LEMMA AloneCounted == ASSUME JointInv, Alone PROVE CountedInv'
  <1> USE DEF JointInv, Joint
  <1>1. /\ bs \in Nat /\ bs <= 255 /\ blk \in Nat /\ bl_index \in Nat /\ SP!Handed \in Nat
        /\ bs' = bs /\ Paired' = Paired /\ buf' = buf /\ (Paired => buf # <<>>)
        /\ (blk = 0 => SP!Handed = 1)
    BY JointTypes, AloneSame DEF Paired
  <1>2. /\ blk > 0 => /\ Paired /\ (bs > 0 => blk <= bs) /\ SP!Handed = 1 + blk
                      /\ state \in SP!InCF \cup {"IDLE"} /\ (state \in SP!InCF => bs_pair = bs)
        /\ buf = <<>> \/ (Paired /\ blk = 0) => bl_index = 0
        /\ bs > 0 => /\ state = "CF_SENDING" => bl_index = blk - 1
                     /\ state = "CF_SENT" => bl_index = blk
        /\ state = "CF_FC_WAIT" => Full
    BY DEF CountedInv
  <1>3. /\ state \in {"CF_SENDING", "CF_SENT", "CF_FC_WAIT"} => blk > 0 /\ bs_pair = bs
        /\ state \in {"SF_SENDING", "FF_SENDING", "FF_FC_WAIT"} => blk = 0
        /\ state = "CF_SENT" /\ bs_pair > 0 => blk <= bl_index /\ bl_index < bs_pair
    BY <1>2, Standing DEF SP!InCF
  <1>4. ASSUME /\ UNCHANGED <<blk, bl_index>> /\ SP!Handed' = SP!Handed
               /\ \/ state' = state /\ (bs_pair' = bs_pair \/ state \notin SP!InCF)
                  \/ state' = "IDLE"
        PROVE  CountedInv'
    BY <1>1, <1>2, <1>4, FullKept DEF CountedInv, SP!InCF
  <1>5. CASE SP!Unseen \/ SP!Ended
    BY <1>4, <1>5 DEF SP!Unseen, SP!Ended
  <1>6. CASE SP!Refused
    <2>1. state = "FF_FC_WAIT"
      BY <1>6, Standing DEF SP!Refused
    <2> QED
      BY <1>4, <1>6, <2>1 DEF SP!Refused, SP!InCF
  <1>7. CASE SP!FFConfirmed
    <2>1. state' = "FF_FC_WAIT" /\ blk' = 0 /\ bl_index' = bl_index /\ blk = 0
      BY <1>3, <1>7 DEF SP!FFConfirmed
    <2> QED
      BY <1>1, <1>2, <2>1 DEF CountedInv
  <1>8. CASE SP!Continued
    <2>1. /\ state = "CF_SENDING" /\ state' = "CF_SENT" /\ UNCHANGED <<blk, bs_pair>>
          /\ SP!Handed' = SP!Handed
          /\ bl_index' = IF bs_pair > 0 THEN (bl_index + 1) % 256 ELSE bl_index
      BY <1>8 DEF SP!Continued, SP!U8
    <2>2. bs > 0 => bl_index' = blk
      BY <1>1, <1>2, <1>3, <2>1
    <2> QED
      BY <1>1, <1>2, <1>3, <2>1, <2>2 DEF CountedInv, SP!InCF
  <1>9. CASE SP!BlockEnded
    <2>1. /\ state = "CF_SENDING" /\ state' = "CF_FC_WAIT" /\ UNCHANGED <<blk, bs_pair>>
          /\ SP!Handed' = SP!Handed /\ bl_index' = 0 /\ SP!BlockComplete
          /\ Len(wire) = SP!Handed /\ SP!Handed < NumFrames(SP!MsgLen)
      BY <1>9, SameSegments DEF SP!BlockEnded
    <2>2. bs > 0 /\ blk = bs
      BY <1>1, <1>2, <1>3, <2>1 DEF SP!BlockComplete, SP!U8
    <2>3. RP!Message.len = SP!MsgLen
      BY <1>2, <1>3, <2>1, Standing
    <2>4. Paired /\ Len(wire) = bs + 1 /\ Longer
      BY <1>1, <1>2, <1>3, <2>1, <2>2, <2>3 DEF Longer
    <2>5. Full'
      BY <1>1, <2>1, <2>2, <2>4, AloneSame DEF Full
    <2> QED
      BY <1>1, <1>2, <1>3, <2>1, <2>5 DEF CountedInv, SP!InCF
  <1>10. CASE SP!NextComposed
    <2>1. /\ state = "CF_SENT" /\ state' = "CF_SENDING" /\ UNCHANGED <<bs_pair, bl_index>>
          /\ SP!Handed' = SP!Handed + 1 /\ blk' = blk + 1
      BY <1>10 DEF SP!NextComposed
    <2>2. blk > 0 /\ Paired /\ bs_pair = bs /\ SP!Handed = 1 + blk
          /\ (bs > 0 => bl_index = blk /\ blk + 1 <= bs)
      BY <1>1, <1>2, <1>3, <2>1
    <2> QED
      BY <1>1, <2>1, <2>2 DEF CountedInv, SP!InCF
  <1>11. CASE SP!FirstComposed
    <2>1. /\ state = "FF_FC_WAIT" /\ state' = "CF_SENDING" /\ rx = "fc" /\ bs_pair' = fc.bs
          /\ SP!Handed' = SP!Handed + 1 /\ blk' = 1 /\ bl_index' = bl_index
      BY <1>11 DEF SP!FirstComposed
    <2>2. Answered
      BY <2>1 DEF Exchange, Token, Full
    <2>3. Paired /\ bs_pair' = bs
      BY <2>1, <2>2 DEF Answered, RP!CTSFrame, bs
    <2>4. blk = 0 /\ bl_index = 0 /\ SP!Handed = 1
      BY <1>1, <1>2, <1>3, <2>1, <2>3
    <2> QED
      BY <1>1, <2>1, <2>3, <2>4 DEF CountedInv, SP!InCF
  <1> QED
    BY <1>5, <1>6, <1>7, <1>8, <1>9, <1>10, <1>11 DEF Alone, SP!Seen

\* Nor is Flow Control.
LEMMA AloneExchange == ASSUME JointInv, Alone PROVE Exchange'
  <1> USE DEF JointInv, Joint
  <1>1. /\ UNCHANGED <<params, rrx, buf, toA, toB, wire, fc>> /\ Paired' = Paired /\ Busy' = Busy
        /\ bs' = bs /\ SP!Seen
    BY AloneSame DEF Alone
  <1>2. rrx = "fc" => Opening' /\ ~Token'
    <2>1. rrx = "fc" => Opening /\ ~Token /\ ~Quiet /\ rx # "fc"
      BY DEF Exchange, Quiet, Token
    <2> QED
      BY <2>1, OpeningKept, TokenKept
  <1>3. Token' => Answered' \/ Full'
    BY TokenKept, FullKept DEF Exchange
  <1>4. ASSUME state' = "FF_FC_WAIT", cb' # "none" \/ timer' # "N_Bs" PROVE Quiet'
    <2>1. CASE SP!Unseen
      <3>1. Quiet
        BY <1>4, <2>1 DEF SP!Unseen, Exchange, Alone
      <3> QED
        BY <1>1, <2>1, <3>1 DEF Quiet, SP!Unseen, SP!Listening
    <2>2. CASE SP!Refused
      <3>1. rx = "fc" /\ rx' = "poll" /\ state = "FF_FC_WAIT"
        BY <2>2, Standing DEF SP!Refused
      <3>2. Answered
        BY <3>1 DEF Exchange, Token, Full
      <3> QED
        BY <1>1, <3>1, <3>2 DEF Answered, Quiet
    <2> QED
      BY <1>1, <1>4, <2>1, <2>2 DEF SP!Seen, SP!FFConfirmed, SP!Ended, SP!Continued,
         SP!BlockEnded, SP!NextComposed, SP!FirstComposed
  <1>5. SP!RxInv'
    <2>1. CASE SP!Unseen
      BY <2>1 DEF Exchange, SP!RxInv, SP!Unseen, SP!Listening, SP!Opened
    <2>2. CASE SP!Ended
      <3>1. ~Full
        BY <2>2, FullKept DEF SP!Ended, Full
      <3>2. state \in {"SF_SENDING", "FF_SENDING"} => rx = "poll"
        BY DEF Exchange, SP!RxInv, SP!Opened
      <3>3. state = "FF_FC_WAIT" /\ cb # "none" => rx = "poll"
        BY DEF Exchange, Quiet
      <3>4. state = "CF_SENDING" => ~Token
        BY <3>1 DEF Exchange, Answered, Opening
      <3> QED
        BY <2>2, <3>2, <3>3, <3>4, Standing DEF SP!Ended, Token, SP!RxInv
    <2> QED
      BY <1>1, <2>1, <2>2 DEF SP!Seen, SP!RxInv, SP!Opened, SP!Refused, SP!FFConfirmed,
         SP!Continued, SP!BlockEnded, SP!NextComposed, SP!FirstComposed
  <1> QED
    BY <1>1, <1>2, <1>3, <1>4, <1>5, FullKept DEF Exchange

\* So the invariant is kept.
LEMMA AloneKept == ASSUME JointInv, Alone PROVE Joint'
  <1>1. RP!Announced' /\ RP!BufferIntact'
    BY AloneSame DEF JointInv, Joint, RP!Announced, RP!BufferIntact
  <1> QED
    BY <1>1, AloneFrames, AloneFollowing, AloneCounted, AloneExchange DEF Joint

----------------------------------------------------------------------------
(* The driver puts A's next frame onto the bus.                             *)

\* Message, number and kind of a reference frame.
LEMMA SegmentIs ==
  ASSUME NEW m, NEW l \in Nat, NEW k \in Nat
  PROVE  LET f == Segment(m, l, k) IN
         /\ f.msg = m /\ FrameNo(f) = k
         /\ k > 0 => f.pci = "CF" /\ f.sn = k % 16
         /\ k = 0 => f.pci = (IF l <= CANTP_SF_NUM_DATA_BYTES THEN "SF" ELSE "FF")
  <1>1. CASE k = 0
    BY <1>1 DEF Segment, SingleFrame, FirstFrame, FrameNo
  <1>2. CASE k > 0
    <2>1. (CFOffset(k) + 1) \div 7 = k
      BY <1>2 DEF CFOffset, CANTP_FF_NUM_DATA_BYTES, CANTP_CF_NUM_DATA_BYTES
    <2> QED
      BY <1>2, <2>1 DEF Segment, ConsecutiveFrame, FrameNo
  <1> QED
    BY <1>1, <1>2

\* The frame that the driver has, and what it says of A.
LEMMA Upcoming ==
  ASSUME JointInv, SP!DrvTransmit
  PROVE  LET k == Len(wire)  f == Head(txq) IN
         /\ f = Segment(msg, SP!MsgLen, k) /\ k \in Nat /\ k < NumFrames(SP!MsgLen)
         /\ state \in SP!Sending /\ msg > 0 /\ wire' = Append(wire, f) /\ Len(wire') = k + 1
         /\ f.msg = msg /\ FrameNo(f) = k /\ (f.pci = "CF" <=> k > 0)
         /\ f.pci = "FF" => state = "FF_SENDING" /\ k = 0
         /\ ~Full /\ ~Opening
         /\ k > 0 <=> Paired
         /\ k > 0 => blk = k /\ state = "CF_SENDING" /\ (bs > 0 => k <= bs)
         /\ UNCHANGED <<state, blk, bs_pair, bl_index, rx, cb, fc, timer, out, index, msg>>
  <1> USE DEF JointInv, Joint
  <1>1. SP!SInv
    BY DEF SP!SInv, Typed
  <1>2. /\ txq # <<>> /\ wire' = Append(wire, Head(txq))
        /\ UNCHANGED <<state, blk, bs_pair, bl_index, rx, cb, fc, timer, out, index, msg>>
    BY DEF SP!DrvTransmit, SP!transfer
  <1>3. state \in SP!Sending /\ SP!Queued
    BY <1>1, <1>2, SenderAssumptions, SP!Whereabouts
  <1>4. /\ bs \in Nat /\ blk \in Nat /\ SP!Handed \in Nat /\ Len(wire) \in Nat /\ SP!MsgLen \in Nat
        /\ (blk = 0 => SP!Handed = 1) /\ NumFrames(SP!MsgLen) \in Nat /\ msg \in Nat
        /\ wire \in Seq(Frame)
    BY JointTypes, SameFrames DEF SP!TypeOK
  <1> DEFINE k == Len(wire)
             f == Head(txq)
  <1>5. k = SP!Handed - 1 /\ f = Segment(msg, SP!MsgLen, k)
    <2>1. k = SP!Handed - 1 /\ txq = <<SP!LastFrame>>
      BY <1>3 DEF SP!Queued
    <2>2. SP!LastFrame = Segment(msg, SP!MsgLen, k)
      BY <2>1, SameSegments DEF SP!LastFrame
    <2> QED
      BY <2>1, <2>2
  <1>6. k < NumFrames(SP!MsgLen)
    <2>1. state # "IDLE"
      BY <1>3 DEF SP!Sending
    <2>2. SP!Handed <= SP!NumFrames(SP!MsgLen)
      BY <1>1, <2>1, SenderAssumptions, SP!HandedBound
    <2>3. SP!NumFrames(SP!MsgLen) = NumFrames(SP!MsgLen)
      BY SameSegments
    <2> QED
      BY <1>4, <1>5, <2>2, <2>3
  <1>7. /\ f.msg = msg /\ FrameNo(f) = k /\ (k > 0 => f.pci = "CF")
        /\ k = 0 => f.pci = (IF SP!MsgLen <= CANTP_SF_NUM_DATA_BYTES THEN "SF" ELSE "FF")
    BY <1>4, <1>5, SegmentIs
  <1>8. /\ k > 0 => blk > 0
        /\ blk > 0 => Paired /\ blk = k /\ (bs > 0 => k <= bs) /\ state \in SP!InCF \cup {"IDLE"}
    BY <1>4, <1>5 DEF CountedInv
  <1>9. ~Full
    BY <1>4, <1>5, <1>8 DEF Full
  <1>10. ~Opening
    BY <1>3, <1>4, <1>5, Standing DEF Opening, SP!Sending
  <1>11. k > 0 => state = "CF_SENDING"
    BY <1>3, <1>8 DEF SP!Sending, SP!InCF
  <1>12. k > 0 <=> Paired
    BY <1>8 DEF Following
  <1>13. f.pci = "FF" => state = "FF_SENDING" /\ k = 0
    <2>1. state = "SF_SENDING" => SP!MsgLen <= CANTP_SF_NUM_DATA_BYTES
      BY SameSegments DEF SP!Stream, SP!OpeningInv, SP!CANTP_SF_NUM_DATA_BYTES,
         CANTP_SF_NUM_DATA_BYTES
    <2>2. state = "CF_SENDING" => k > 0
      BY <1>4, <1>8, Standing DEF SP!InCF
    <2> QED
      BY <1>3, <1>4, <1>7, <2>1, <2>2 DEF SP!Sending
  <1>14. msg > 0
    BY <1>3, <1>4 DEF BusInv, SP!Sending
  <1>15. Len(wire') = k + 1
    <2>1. f \in Frame
      BY <1>2, SameFrames DEF Typed, SP!IInv, SP!TypeOK
    <2> QED
      BY <1>2, <1>4, <2>1, AppendProperties
  <1> HIDE DEF f, k
  <1>16. f.pci = "CF" <=> k > 0
    BY <1>4, <1>7 DEF k
  <1> QED
    BY <1>2, <1>3, <1>4, <1>5, <1>6, <1>7, <1>8, <1>9, <1>10, <1>11, <1>12, <1>13, <1>14, <1>15,
       <1>16 DEF k, f

\* Transmit, in terms of the Sender's instance.
Outgoing ==
  /\ SP!DrvTransmit /\ UNCHANGED <<B, toA, sent>>
  /\ \/ toB' = Append(toB, Head(txq)) /\ lost' = lost
     \/ lost < MaxLost /\ lost' = lost + 1 /\ toB' = toB

\* What it leaves alone.
LEMMA OutgoingSame ==
  ASSUME Outgoing
  PROVE  /\ bs' = bs /\ Paired' = Paired /\ Longer' = Longer /\ Busy' = Busy /\ Token' = Token
         /\ RP!Message' = RP!Message /\ SP!MsgLen' = SP!MsgLen
         /\ UNCHANGED <<rcvr, rrx, buf, toA, sent, msg, params, state, blk, rx>>
         /\ lost' = lost \/ (lost < MaxLost /\ lost' = lost + 1)
  <1>1. /\ UNCHANGED <<params, rcvr, rbl_index, rtimer, rrx, buf, flow, inbox, failed,
                       state, blk, rx, out, msg>>
        /\ UNCHANGED <<toA, sent>>
        /\ lost' = lost \/ (lost < MaxLost /\ lost' = lost + 1)
    BY DEF Outgoing, B, SP!DrvTransmit
  <1> QED
    BY <1>1 DEF bs, Paired, Longer, Busy, Token, RP!Message, SP!MsgLen, RP!BlockFull

\* The frame is appended, or lost.
LEMMA OutgoingQueue ==
  ASSUME JointInv, Outgoing
  PROVE  /\ Len(toB) \in Nat /\ DOMAIN toB = 1..Len(toB) /\ DOMAIN toB' = 1..Len(toB')
         /\ \A i \in 1..Len(toB) : toB'[i] = toB[i]
         /\ \/ /\ Len(toB') = Len(toB) + 1 /\ toB'[Len(toB) + 1] = Head(txq) /\ lost' = lost
            \/ toB' = toB /\ lost < MaxLost /\ lost' = lost + 1
  <1>1. toB \in Seq(Frame) /\ txq \in Seq(Frame) /\ txq # <<>>
    BY SameFrames DEF JointInv, Typed, SP!IInv, SP!TypeOK, Outgoing, SP!DrvTransmit
  <1>2. Len(toB) \in Nat /\ DOMAIN toB = 1..Len(toB) /\ Head(txq) \in Frame
    BY <1>1, LenProperties
  <1>3. CASE toB' = Append(toB, Head(txq)) /\ lost' = lost
    <2>1. toB' \in Seq(Frame)
      BY <1>1, <1>2, <1>3, AppendProperties
    <2>2. /\ Len(Append(toB, Head(txq))) = Len(toB) + 1
          /\ \A i \in 1..Len(toB) : Append(toB, Head(txq))[i] = toB[i]
          /\ Append(toB, Head(txq))[Len(toB) + 1] = Head(txq)
      BY <1>1, <1>2, AppendProperties
    <2>3. DOMAIN toB' = 1..Len(toB')
      BY <2>1, LenProperties
    <2> HIDE DEF JointInv, Outgoing
    <2> QED
      BY <1>2, <1>3, <2>2, <2>3, Zenon
  <1>4. CASE lost < MaxLost /\ lost' = lost + 1 /\ toB' = toB
    BY <1>2, <1>4, Zenon
  <1> QED
    BY <1>3, <1>4 DEF Outgoing

\* The frame that comes onto the bus is one of A's.
LEMMA OutgoingFrames == ASSUME JointInv, Outgoing PROVE BusInv' /\ FramesInv'
  <1> USE DEF JointInv, Joint
  <1> PICK k, f : k = Len(wire) /\ f = Head(txq)
    OBVIOUS
  <1>1. SP!DrvTransmit
    BY DEF Outgoing
  <1>2. /\ k \in Nat /\ bs \in Nat /\ msg \in Nat
    BY JointTypes
  <1>3. /\ f = Segment(msg, SP!MsgLen, k) /\ k < NumFrames(SP!MsgLen) /\ msg > 0
        /\ Len(wire') = k + 1 /\ f.msg = msg /\ FrameNo(f) = k /\ (f.pci = "CF" <=> k > 0)
        /\ f.pci = "FF" => state = "FF_SENDING" /\ k = 0
        /\ ~Full /\ ~Opening
        /\ k > 0 => Paired /\ blk = k /\ state = "CF_SENDING" /\ (bs > 0 => k <= bs)
    BY <1>1, Upcoming
  <1>4. /\ ~Token /\ ~Busy /\ rrx # "fc"
        /\ \A i \in DOMAIN toB :
             /\ toB[i].pci # "FF"
             /\ toB[i].pci = "CF" => ~(bs > 0 /\ FrameNo(toB[i]) = bs /\ Longer)
    BY <1>3, NothingDue
  <1>5. BusInv'
    BY BoundsAssumption, OutgoingSame DEF BusInv
  <1>6. sent[msg].len = SP!MsgLen /\ FrameNo(f)' = FrameNo(f)
    BY <1>3 DEF BusInv, FrameNo
  <1>7. f.pci = "FF" => (Opening /\ ~Token /\ rrx # "fc" /\ ~Busy)'
    <2>1. f.pci = "FF" => k + 1 = 1
      BY <1>2, <1>3
    <2> QED
      BY <1>3, <1>4, <2>1, OutgoingSame DEF Opening
  <1>8. f.pci = "CF" /\ bs > 0 /\ k = bs /\ Longer => Full'
    BY <1>2, <1>3, OutgoingSame DEF Full
  <1>9. f.pci = "CF" => buf # <<>> /\ f.msg = buf[1].msg
    BY <1>2, <1>3 DEF Paired
  <1>10. Carried(f)'
    BY <1>2, <1>3, <1>6, <1>7, <1>8, <1>9, OutgoingSame DEF Carried
  <1>12. FramesInv
    OBVIOUS
  <1>13. \A i \in DOMAIN toB : Carried(toB[i])
    BY <1>12 DEF FramesInv
  <1> HIDE DEF JointInv, Joint
  <1>11. ASSUME NEW i \in DOMAIN toB' PROVE Carried(toB[i])' /\ (toB'[i].pci = "FF" => i = Len(toB'))
    <2>1. CASE i \in DOMAIN toB /\ toB'[i] = toB[i]
      <3>1. toB[i].pci # "FF" /\ Carried(toB[i])
        BY <1>4, <1>13, <2>1
      <3>2. toB[i].pci = "CF" => ~(bs > 0 /\ FrameNo(toB[i]) = bs /\ Longer)
        BY <1>4, <2>1
      <3>3. FrameNo(toB[i])' = FrameNo(toB[i])
        BY <2>1 DEF FrameNo
      <3> QED
        BY <1>2, <2>1, <3>1, <3>2, <3>3, OutgoingSame DEF Carried
    <2>2. CASE i = Len(toB) + 1 /\ Len(toB') = Len(toB) + 1 /\ toB'[Len(toB) + 1] = f
      BY <1>10, <2>2 DEF Carried
    <2>3. DOMAIN toB = 1..Len(toB) /\ i \in 1..Len(toB') /\ Len(toB) \in Nat
      BY OutgoingQueue, Zenon
    <2>4. \/ i \in DOMAIN toB /\ toB'[i] = toB[i]
          \/ i = Len(toB) + 1 /\ Len(toB') = Len(toB) + 1 /\ toB'[Len(toB) + 1] = f
      <3>1. /\ \A j \in 1..Len(toB) : toB'[j] = toB[j]
            /\ (Len(toB') = Len(toB) + 1 /\ toB'[Len(toB) + 1] = f) \/ toB' = toB
        BY OutgoingQueue, Zenon
      <3> QED
        BY <2>3, <3>1
    <2> QED
      BY <2>1, <2>2, <2>4
  <1> QED
    BY <1>5, <1>11 DEF FramesInv

\* A frame that arrives takes the number that was due; one that is lost leaves
\* a gap that the sequence number shows, as long as fewer than 16 are lost.
LEMMA OutgoingFollowing == ASSUME MaxLost < 16, JointInv, Outgoing PROVE Following'
  <1> USE DEF JointInv, Joint
  <1> PICK k, f, n : k = Len(wire) /\ f = Head(txq) /\ n = Len(toB)
    BY Zenon
  <1>1. SP!DrvTransmit
    BY DEF Outgoing
  <1>2. k \in Nat /\ n \in Nat /\ Len(buf) \in Nat
    BY JointTypes, OutgoingQueue, Zenon
  <1>3. /\ Len(wire') = k + 1 /\ FrameNo(f) = k /\ (f.pci = "CF" <=> k > 0) /\ (k > 0 <=> Paired)
    BY <1>1, Upcoming
  <1>4. lost \in Nat /\ lost' \in Nat /\ lost <= lost'
    BY BoundsAssumption, OutgoingSame DEF BusInv
  <1>5. SUFFICES ASSUME rcvr.state \in {"FC_SENDING", "FC_SENT"}, NEW i \in 1..Len(toB') + 1, Due(i)'
                 PROVE  OnTrack(i)'
    BY <1>2, <1>3, OutgoingSame DEF Following
  <1>6. \A j \in 1..n + 1 : Due(j) => OnTrack(j)
    BY <1>5 DEF Following
  <1>7. ASSUME NEW j \in 1..n PROVE Due(j)' = Due(j) /\ Number(j)' = Number(j) /\ Late(j)' = Late(j)
    <2>1. j \in 1..Len(toB) /\ j \in 1..Len(toB') /\ toB'[j] = toB[j]
      <3>1. /\ \A i_1 \in 1..Len(toB) : toB'[i_1] = toB[i_1]
            /\ Len(toB') = Len(toB) + 1 \/ toB' = toB
        BY OutgoingQueue, Zenon
      <3> QED
        BY <1>2, <3>1
    <2>2. Due(j)' = Due(j) /\ Number(j)' = Number(j)
      BY <2>1 DEF Due, Number, FrameNo
    <2> QED
      BY <2>2, OutgoingSame DEF Late
  <1>8. \A j \in 1..n + 1 : Number(j) \in Nat /\ Late(j) \in Nat
    BY LateNat
  <1>9. Number(n + 1) = k /\ (Due(n + 1) <=> Paired)
    BY <1>2 DEF Number, Due
  <1>10. CASE i \in 1..n
    <2>1. OnTrack(i)
      BY <1>2, <1>5, <1>6, <1>7, <1>10
    <2>2. ASSUME NEW j \in 1..i - 1 PROVE Due(j)' /\ Late(j)' <= Late(i)'
      BY <1>2, <1>7, <1>10, <2>1 DEF OnTrack
    <2>3. Late(i)' <= lost' /\ (Late(i)' = 0 => Number(i)' = Len(buf') + i - 1)
      <3>1. Late(i) <= lost /\ (Late(i) = 0 => Number(i) = Len(buf) + i - 1) /\ Late(i) \in Nat
        BY <1>2, <1>8, <1>10, <2>1 DEF OnTrack
      <3>2. Late(i) <= lost' /\ buf' = buf /\ Late(i)' = Late(i) /\ Number(i)' = Number(i)
        BY <1>4, <1>7, <1>10, <3>1, OutgoingSame
      <3> QED
        BY <3>1, <3>2
    <2> QED
      BY <2>2, <2>3 DEF OnTrack
  <1>11. CASE /\ Len(toB') = n + 1 /\ toB'[n + 1] = f /\ lost' = lost
              /\ i \in {n + 1, n + 2}
    <2>1. Number(n + 1)' = k /\ (Due(n + 1)' <=> Paired)
      BY <1>2, <1>3, <1>11 DEF Number, Due, FrameNo
    <2>2. Number(n + 2)' = k + 1 /\ (Due(n + 2)' <=> Paired)
      BY <1>2, <1>3, <1>11, OutgoingSame DEF Number, Due
    <2>3. Late(n + 1)' = Late(n + 1) /\ Late(n + 2)' = Late(n + 1)
      <3>1. k - (n + 1) + 1 = k + 1 - (n + 2) + 1
        BY <1>2
      <3> QED
        <4>1. rcvr' = rcvr
          BY OutgoingSame
        <4> HIDE DEF JointInv, Joint
        <4> QED
          BY <1>9, <2>1, <2>2, <3>1, <4>1 DEF Late
    <2>4. OnTrack(n + 1)
      BY <1>2, <1>5, <1>6, <1>9, <1>11, <2>1, <2>2
    <2>5. Late(n + 1) <= lost /\ (Late(n + 1) = 0 => k = Len(buf) + n)
      BY <1>2, <1>9, <2>4 DEF OnTrack
    <2>6. ASSUME NEW j \in 1..n PROVE Due(j)' /\ Late(j)' <= Late(n + 1)
      BY <1>2, <1>7, <2>4 DEF OnTrack
    <2>7. CASE i = n + 1
      BY <1>2, <1>11, <2>1, <2>3, <2>5, <2>6, <2>7, OutgoingSame DEF OnTrack
    <2>8. CASE i = n + 2
      <3>1. ASSUME NEW j \in 1..i - 1 PROVE Due(j)' /\ Late(j)' <= Late(i)'
        BY <1>2, <1>5, <1>8, <2>1, <2>2, <2>3, <2>6, <2>8
      <3> QED
        BY <1>2, <1>11, <2>2, <2>3, <2>5, <2>8, <3>1, OutgoingSame DEF OnTrack
    <2> QED
      BY <1>11, <2>7, <2>8
  <1>12. CASE toB' = toB /\ lost < MaxLost /\ lost' = lost + 1 /\ i = n + 1
    <2>1. Number(n + 1)' = k + 1 /\ (Due(n + 1)' <=> Paired)
      BY <1>2, <1>3, <1>12, OutgoingSame DEF Number, Due
    <2>2. OnTrack(n + 1)
      BY <1>2, <1>5, <1>6, <1>9, <1>12, <2>1
    <2>3. Late(n + 1) < 15
      BY <1>2, <1>4, <1>8, <1>12, <2>2, BoundsAssumption DEF OnTrack
    <2>4. Late(n + 1)' = Late(n + 1) + 1
      <3>1. k - n \in Int /\ rcvr.sn \in RP!SeqNum /\ k - (n + 1) + 1 = k - n
            /\ k + 1 - (n + 1) + 1 = k - n + 1
        BY <1>2, JointTypes
      <3>2. Late(n + 1) = RP!Lag(k - n, rcvr.sn)
        BY <1>9, <3>1 DEF Late
      <3>3. Late(n + 1)' = RP!Lag(k - n + 1, rcvr.sn)
        <4>1. rcvr' = rcvr
          BY OutgoingSame
        <4> QED
          BY <2>1, <3>1, <4>1 DEF Late
      <3> HIDE DEF JointInv, Joint
      <3> QED
        BY <2>3, <3>1, <3>2, <3>3, ReceiverAssumptions, RP!LagSteps
    <2>5. ASSUME NEW j \in 1..n PROVE Due(j)' /\ Late(j)' <= Late(n + 1)'
      <3>1. Due(j) /\ Late(j) <= Late(n + 1) /\ Late(j) \in Nat /\ Late(n + 1) \in Nat
        BY <1>2, <1>8, <2>2 DEF OnTrack
      <3>2. Due(j)' /\ Late(j)' = Late(j)
        BY <1>7, <3>1
      <3> QED
        BY <2>4, <3>1, <3>2
    <2>6. Late(n + 1)' <= lost' /\ Late(n + 1)' # 0
      BY <1>2, <1>4, <1>8, <1>12, <2>2, <2>4 DEF OnTrack
    <2> QED
      BY <1>2, <1>12, <2>5, <2>6 DEF OnTrack
  <1> QED
    <2>1. \/ /\ Len(toB') = n + 1 /\ toB'[n + 1] = f /\ lost' = lost /\ i \in 1..n + 2
          \/ /\ toB' = toB /\ lost < MaxLost /\ lost' = lost + 1 /\ i \in 1..n + 1
      <3>1. \/ Len(toB') = n + 1 /\ toB'[n + 1] = f /\ lost' = lost
            \/ toB' = toB /\ lost < MaxLost /\ lost' = lost + 1
        BY OutgoingQueue, Zenon
      <3> QED
        BY <1>2, <3>1
    <2> QED
      BY <1>2, <1>10, <1>11, <1>12, <2>1

\* So the invariant is kept.
LEMMA OutgoingKept == ASSUME MaxLost < 16, JointInv, Outgoing PROVE Joint'
  <1> USE DEF JointInv, Joint
  <1>1. /\ state \in SP!Sending /\ ~Full /\ ~Opening
        /\ UNCHANGED <<state, blk, bs_pair, bl_index, rx, index>>
    BY Upcoming DEF Outgoing
  <1>2. ~Token /\ ~Busy /\ rrx # "fc"
    BY <1>1, NothingDue
  <1>3. CountedInv'
    BY <1>1, OutgoingSame DEF CountedInv, SP!Handed, SP!Sending, SP!NumCFs
  <1>4. Exchange'
    BY <1>1, <1>2, OutgoingSame DEF Exchange, SP!Sending, SP!RxInv
  <1>5. RP!Announced' /\ RP!BufferIntact'
    BY OutgoingSame DEF RP!Announced, RP!BufferIntact
  <1> QED
    BY <1>3, <1>4, <1>5, OutgoingFrames, OutgoingFollowing

----------------------------------------------------------------------------
(* A starts a message, and A takes a Flow Control frame.                    *)

\* cantp_send finds A at rest.
LEMMA StartsFrom ==
  ASSUME JointInv, NEW l \in Lens, SP!cantp_send_SF(l) \/ SP!cantp_send_FF(l)
  PROVE  /\ state = "IDLE" /\ rx = "poll" /\ ~Full /\ ~Opening
         /\ state' \in {"SF_SENDING", "FF_SENDING"} /\ msg' = msg + 1 /\ msg \in Nat
         /\ blk' = 0 /\ SP!MsgLen' = l
         /\ UNCHANGED <<bl_index, rx, cb, fc>>
  <1>1. /\ SP!StartMessage /\ state' \in {"SF_SENDING", "FF_SENDING"}
        /\ out' = [out EXCEPT !["app"] = SP!SingleFrame(msg + 1, l)]
           \/ out' = [out EXCEPT !["app"] = SP!FirstFrame(msg + 1, l)]
    BY DEF SP!cantp_send_SF, SP!cantp_send_FF, SP!cantp_sndr_set_state
  <1>2. /\ owed = 0 /\ msg' = msg + 1 /\ blk' = 0 /\ UNCHANGED <<bl_index, rx, cb, fc>>
    BY <1>1 DEF SP!StartMessage
  <1>3. state = "IDLE"
    BY <1>2 DEF JointInv, Typed, SP!IInv, SP!Safe, SP!OneConclusion
  <1>4. rx = "poll"
    BY <1>3 DEF JointInv, Joint, Exchange, SP!RxInv, SP!Opened
  <1>5. SP!MsgLen' = l
    <2>1. \A f, g : out = [t \in {"app", "task", "rx"} |-> out[t]]
                      /\ out' = [out EXCEPT !["app"] = g] => out'["app"] = g
      OBVIOUS
    <2>2. out = [t \in {"app", "task", "rx"} |-> out[t]]
      BY DEF JointInv, Typed, SP!IInv, SP!TypeOK
    <2>3. SP!FFLen(l) = l
      BY SenderAssumptions, SP!TypeRanges DEF SP!FFLen
    <2> QED
      BY <1>1, <2>1, <2>2, <2>3 DEF SP!MsgLen, SP!SingleFrame, SP!FirstFrame
  <1> QED
    BY <1>1, <1>2, <1>3, <1>4, <1>5, JointTypes DEF Full, Opening, JointInv

\* A new message finds nothing of it under way.
LEMMA StartKept ==
  ASSUME JointInv, NEW l \in Lens, SP!cantp_send_SF(l) \/ SP!cantp_send_FF(l),
         sent' = Append(sent, [id |-> "A", len |-> l]), UNCHANGED <<B, toA, toB, lost>>
  PROVE  Joint'
  <1>1. /\ ~Token /\ ~Busy /\ rrx # "fc"
        /\ \A i \in DOMAIN toB :
             /\ toB[i].pci # "FF"
             /\ toB[i].pci = "CF" => ~(bs > 0 /\ FrameNo(toB[i]) = bs /\ Longer)
    BY NothingDue, StartsFrom DEF JointInv, Joint
  <1>2. /\ UNCHANGED <<params, rcvr, rbl_index, rtimer, rrx, buf, flow, inbox, failed>>
        /\ UNCHANGED <<toA, toB, lost>>
    BY DEF B
  <1>3. /\ BusInv /\ FramesInv /\ Following /\ CountedInv /\ Exchange
        /\ RP!Announced /\ RP!BufferIntact
    BY DEF JointInv, Joint
  <1> DEFINE e == [id |-> "A", len |-> l]
  <1>4. /\ sent' \in Seq([id : {"A"}, len : Lens]) /\ Len(sent) = msg /\ Len(sent') = msg + 1
        /\ sent'[msg + 1].len = l /\ \A n \in 1..Len(sent) : sent'[n] = sent[n]
    <2>1. sent \in Seq([id : {"A"}, len : Lens]) /\ e \in [id : {"A"}, len : Lens] /\ Len(sent) = msg
      BY <1>3 DEF BusInv
    <2>2. sent' = Append(sent, e)
      OBVIOUS
    <2> HIDE DEF e
    <2>3. /\ sent' \in Seq([id : {"A"}, len : Lens]) /\ Len(sent') = Len(sent) + 1
          /\ sent'[Len(sent) + 1] = e /\ \A n \in 1..Len(sent) : sent'[n] = sent[n]
      BY <2>1, <2>2, AppendProperties
    <2> QED
      BY <2>1, <2>3 DEF e
  <1> HIDE DEF e
  <1>5. /\ state' \in {"SF_SENDING", "FF_SENDING"} /\ msg' = msg + 1 /\ msg \in Nat
        /\ blk' = 0 /\ SP!MsgLen' = l /\ rx = "poll"
        /\ UNCHANGED <<bl_index, rx, cb, fc>>
    BY StartsFrom
  <1>6. buf # <<>> => buf[1].msg \in 1..msg /\ RP!Message' = RP!Message
    BY <1>2, <1>3, <1>4 DEF RP!Announced, RP!Message
  <1>7. ~Paired'
    BY <1>2, <1>5, <1>6 DEF Paired
  <1>8. bs' = bs /\ Busy' = Busy /\ Token' = Token /\ (buf # <<>> => Longer' = Longer)
    BY <1>2, <1>5, <1>6 DEF bs, Busy, Token, Longer, RP!BlockFull
  <1>9. BusInv'
    BY <1>2, <1>3, <1>4, <1>5 DEF BusInv
  <1>10. FramesInv'
    <2>1. ASSUME NEW i \in DOMAIN toB PROVE Carried(toB[i])' /\ toB'[i].pci # "FF"
      <3> PICK f : f = toB[i]
        OBVIOUS
      <3>1. Carried(f) /\ f.pci # "FF" /\ (f.pci = "CF" => ~(bs > 0 /\ FrameNo(f) = bs /\ Longer))
        BY <1>1, <1>3 DEF FramesInv
      <3>2. f.msg \in 1..msg' /\ sent'[f.msg] = sent[f.msg]
        BY <1>4, <1>5, <3>1 DEF Carried
      <3>3. FrameNo(f)' = FrameNo(f)
        BY DEF FrameNo
      <3>4. Carried(f)'
        <4>1. f.pci = "CF" => /\ buf' # <<>> /\ f.msg = buf'[1].msg
                              /\ bs' > 0 => FrameNo(f) <= bs' /\ ~(FrameNo(f) = bs' /\ Longer')
          BY <1>2, <1>8, <3>1 DEF Carried
        <4>2. /\ FrameNo(f) \in Nat /\ FrameNo(f) < NumFrames(sent'[f.msg].len)
              /\ f = Segment(f.msg, sent'[f.msg].len, FrameNo(f))
          BY <3>1, <3>2 DEF Carried
        <4> QED
          BY <3>1, <3>2, <3>3, <4>1, <4>2 DEF Carried
      <3>5. toB'[i] = f
        BY <1>2
      <3> QED
        BY <3>1, <3>4, <3>5 DEF Carried
    <2> QED
      BY <1>2, <2>1 DEF FramesInv
  <1>11. Following'
    <2>1. Len(toB) \in Nat
      BY LenProperties DEF JointInv, Typed
    <2>2. ASSUME NEW i \in 1..Len(toB)
          PROVE  Due(i)' = Due(i) /\ Number(i)' = Number(i) /\ Late(i)' = Late(i)
      BY <1>2 DEF Due, Number, Late, FrameNo
    <2>3. ~Due(Len(toB) + 1)'
      BY <1>2, <1>7, <2>1 DEF Due
    <2>4. ASSUME NEW i \in 1..Len(toB), OnTrack(i) PROVE OnTrack(i)'
      BY <1>2, <2>1, <2>2, <2>4 DEF OnTrack
    <2>5. SUFFICES ASSUME rcvr.state \in {"FC_SENDING", "FC_SENT"}
                   PROVE  /\ Len(buf) < NumFrames(RP!Message'.len)
                          /\ \A i \in 1..Len(toB) + 1 : Due(i)' => OnTrack(i)'
      BY <1>2, <1>7 DEF Following
    <2>6. buf # <<>>
      <3>1. RP!ControlOK
        BY DEF JointInv, Typed
      <3> QED
        BY <2>5, <3>1 DEF RP!ControlOK
    <2>7. ASSUME NEW i \in 1..Len(toB) + 1, Due(i)' PROVE OnTrack(i)'
      <3>1. i \in 1..Len(toB)
        BY <2>1, <2>3, <2>7
      <3> QED
        BY <1>3, <2>1, <2>2, <2>4, <2>5, <2>7, <3>1 DEF Following
    <2> QED
      BY <1>3, <1>6, <2>5, <2>6, <2>7 DEF Following
  <1>12. CountedInv'
    BY <1>2, <1>3, <1>5, <1>7 DEF CountedInv
  <1>13. Exchange'
    BY <1>1, <1>2, <1>3, <1>5, <1>8 DEF Exchange, SP!RxInv
  <1>14. RP!Announced' /\ RP!BufferIntact'
    <2>1. Len(sent) \in Nat /\ Len(sent') \in Nat /\ Len(sent') >= Len(sent)
      BY <1>4, <1>5
    <2> QED
      BY <1>2, <1>3, <1>4, <2>1, ReceiverAssumptions, RP!BufferKept
  <1> QED
    BY <1>9, <1>10, <1>11, <1>12, <1>13, <1>14 DEF Joint

\* A takes Flow Control only where it may await it.
LEMMA TakenWhere ==
  ASSUME JointInv, toA # <<>>, state # "FF_SENDING"
  PROVE  state \notin SP!Opened
  BY DEF JointInv, Joint, Exchange, Token, Answered, Full, Opening, SP!Opened

\* The frame A takes is the answer to its First Frame, or comes too late.
LEMMA TakenKept ==
  ASSUME JointInv, toA # <<>>, toA' = Tail(toA), state # "FF_SENDING",
         SP!cantp_can_rx(Head(toA)), UNCHANGED <<B, toB, lost, sent>>
  PROVE  Joint'
  <1> USE DEF JointInv, Joint
  <1>1. /\ rx = "poll" /\ rx' = "check" /\ fc' = Head(toA)
        /\ UNCHANGED <<state, timer, out, blk, cb, msg, wire, index, bs_pair, bl_index>>
        /\ UNCHANGED <<params, rcvr, rbl_index, rtimer, rrx, buf, flow, inbox, failed>>
    BY DEF SP!cantp_can_rx, SP!ByRx, SP!transfer, B
  <1>2. /\ bs' = bs /\ Paired' = Paired /\ Longer' = Longer /\ Busy' = Busy /\ Opening' = Opening
        /\ RP!Message' = RP!Message /\ SP!MsgLen' = SP!MsgLen /\ SP!Handed' = SP!Handed
        /\ RP!CTSFrame' = RP!CTSFrame /\ Full' = Full
    BY <1>1 DEF bs, Paired, Longer, Busy, Opening, Full, RP!Message, RP!BlockFull, SP!MsgLen,
       SP!Handed, RP!CTSFrame, SP!NumCFs
  <1>3. Token
    BY DEF Token
  <1>4. Answered => Answered'
    <2>1. ASSUME Answered PROVE Answered'
      <3>1. toA = <<RP!CTSFrame>> /\ state = "FF_FC_WAIT"
        BY <1>1, <2>1 DEF Answered, Opening
      <3>2. Head(toA) = RP!CTSFrame /\ Tail(toA) = <<>>
        BY <3>1
      <3> QED
        BY <1>1, <1>2, <2>1, <3>1, <3>2 DEF Answered
    <2> QED
      BY <2>1
  <1>5. BusInv' /\ RP!Announced' /\ RP!BufferIntact' /\ CountedInv'
    BY <1>1, <1>2 DEF BusInv, RP!Announced, RP!BufferIntact, CountedInv
  <1>6. FramesInv'
    <2>1. ASSUME NEW i \in DOMAIN toB, Carried(toB[i]) PROVE Carried(toB[i])' /\ toB'[i].pci # "FF"
      BY <1>1, <1>2, <1>3, <2>1 DEF Carried, FrameNo
    <2> QED
      BY <2>1 DEF FramesInv
  <1>7. Following'
    BY <1>1, <1>2 DEF Following, OnTrack, Due, Late, Number, FrameNo
  <1>8. Exchange'
    <2>1. state \notin SP!Opened
      BY TakenWhere
    <2> QED
      BY <1>1, <1>2, <1>3, <1>4, <2>1 DEF Exchange, Quiet, SP!RxInv
  <1> QED
    BY <1>5, <1>6, <1>7, <1>8

----------------------------------------------------------------------------
(* B handles the first of the frames on their way.                          *)

\* Receive, before B's handler runs.
Incoming(f) ==
  /\ rrx = "poll" /\ toB # <<>> /\ f = Head(toB) /\ toB' = Tail(toB)
  /\ UNCHANGED <<A, toA, lost, sent>>

\* The first frame is taken off.
LEMMA IncomingQueue ==
  ASSUME Typed, NEW f, Incoming(f)
  PROVE  /\ Len(toB) \in Nat /\ Len(toB) >= 1 /\ Len(toB') = Len(toB) - 1
         /\ DOMAIN toB = 1..Len(toB) /\ DOMAIN toB' = 1..Len(toB) - 1
         /\ f = toB[1] /\ 1 \in DOMAIN toB /\ f \in Frame
         /\ \A i \in 1..Len(toB) - 1 : toB'[i] = toB[i + 1] /\ i + 1 \in DOMAIN toB
  <1>1. toB \in Seq(Frame) /\ toB # <<>> /\ toB' = Tail(toB) /\ f = Head(toB)
    BY DEF Typed, Incoming
  <1>2. Len(toB) \in Nat /\ DOMAIN toB = 1..Len(toB) /\ Len(toB) # 0
    BY <1>1, LenProperties, EmptySeq
  <1>3. /\ toB' \in Seq(Frame) /\ Len(toB') = Len(toB) - 1 /\ f \in Frame
        /\ \A i \in 1..Len(Tail(toB)) : Tail(toB)[i] = toB[i + 1]
    BY <1>1, HeadTailProperties
  <1>4. DOMAIN toB' = 1..Len(toB')
    BY <1>3, LenProperties
  <1>5. f = toB[1]
    BY <1>1, <1>2
  <1> HIDE DEF Incoming
  <1>6. \A i \in 1..Len(toB) - 1 : toB'[i] = toB[i + 1]
    BY <1>1, <1>3
  <1> QED
    BY <1>2, <1>3, <1>4, <1>5, <1>6

\* The frames behind it have moved up by one.
LEMMA Shifted ==
  ASSUME JointInv, NEW f, Incoming(f), rcvr.state \in {"FC_SENDING", "FC_SENT"},
         rcvr'.sn = RP!NextSn(rcvr.sn), Paired' = Paired,
         \/ Len(buf') = Len(buf) + 1
         \/ buf' = buf /\ Late(1) # 0
  PROVE  \A i \in 1..Len(toB') + 1 : Due(i)' => OnTrack(i)'
  <1> SUFFICES ASSUME NEW i \in 1..Len(toB') + 1, Due(i)' PROVE OnTrack(i)'
    OBVIOUS
  <1> PICK n : n = Len(toB)
    OBVIOUS
  <1> USE DEF JointInv, Joint
  <1>1. /\ n \in Nat /\ n >= 1 /\ Len(toB') = n - 1 /\ i \in 1..n
        /\ \A j \in 1..n - 1 : toB'[j] = toB[j + 1]
    BY IncomingQueue
  <1>2. wire' = wire /\ lost' = lost
    BY DEF Incoming, A
  <1>3. ASSUME NEW j \in 1..n
        PROVE  Number(j)' = Number(j + 1) /\ (Due(j)' <=> Due(j + 1))
    <2>1. CASE j \in 1..n - 1
      <3>1. j \in 1..Len(toB') /\ j + 1 \in 1..Len(toB) /\ toB'[j] = toB[j + 1]
        BY <1>1, <2>1
      <3> QED
        BY <3>1 DEF Number, Due, FrameNo
    <2>2. CASE j = n
      <3>1. j \notin 1..Len(toB') /\ j + 1 \notin 1..Len(toB) /\ j = Len(toB') + 1
            /\ j + 1 = Len(toB) + 1
        BY <1>1, <2>2
      <3> QED
        BY <1>2, <3>1 DEF Number, Due
    <2> QED
      BY <1>1, <2>1, <2>2
  <1>4. ASSUME NEW j \in 1..n
        PROVE  Late(j)' = Late(j + 1) /\ Number(j + 1) \in Nat /\ Late(j + 1) \in Nat
    <2>1. j + 1 \in 1..Len(toB) + 1
      BY <1>1
    <2>2. Number(j + 1) \in Nat /\ Late(j + 1) \in Nat
      BY <2>1, LateNat
    <2>3. Number(j + 1) - (j + 1) + 1 \in Int /\ rcvr.sn \in RP!SeqNum
          /\ Number(j + 1) - j + 1 = Number(j + 1) - (j + 1) + 1 + 1
      <3>1. \A a, b \in Nat : a - (b + 1) + 1 \in Int /\ a - b + 1 = a - (b + 1) + 1 + 1
        OBVIOUS
      <3>2. rcvr.sn \in RP!SeqNum
        BY JointTypes
      <3> HIDE DEF JointInv, Joint
      <3> QED
        BY <1>1, <2>2, <3>1, <3>2
    <2> HIDE DEF JointInv, Joint
    <2>4. RP!Lag(Number(j + 1) - j + 1, RP!NextSn(rcvr.sn))
            = RP!Lag(Number(j + 1) - (j + 1) + 1, rcvr.sn)
      BY <2>3, ReceiverAssumptions, RP!LagSteps
    <2> QED
      BY <1>3, <2>2, <2>4 DEF Late
  <1>5. OnTrack(i + 1)
    <2>1. i + 1 \in 1..Len(toB) + 1 /\ Due(i + 1)
      BY <1>1, <1>3
    <2> QED
      BY <2>1 DEF Following
  <1>6. /\ Late(i + 1) <= lost /\ (Late(i + 1) = 0 => Number(i + 1) = Len(buf) + (i + 1) - 1)
        /\ \A j \in 1..i : Due(j) /\ Late(j) <= Late(i + 1)
    BY <1>1, <1>5 DEF OnTrack
  <1>7. Late(i)' <= lost'
    BY <1>1, <1>2, <1>4, <1>6
  <1>8. Late(i)' = 0 => Number(i)' = Len(buf') + i - 1
    <2>1. Late(1) \in Nat /\ Len(buf) \in Nat
      BY <1>1, LateNat, JointTypes
    <2>2. Late(1) <= Late(i + 1)
      BY <1>1, <1>6
    <2>3. Late(i + 1) = 0 => Len(buf') = Len(buf) + 1 /\ Number(i + 1) = Len(buf) + (i + 1) - 1
      BY <1>4, <1>1, <1>6, <2>1, <2>2
    <2>4. Late(i)' = Late(i + 1) /\ Number(i)' = Number(i + 1)
      BY <1>1, <1>3, <1>4
    <2>5. Len(buf) + (i + 1) - 1 = Len(buf) + 1 + i - 1
      BY <1>1, <2>1
    <2> QED
      BY <2>3, <2>4, <2>5
  <1>9. ASSUME NEW j \in 1..i - 1 PROVE Due(j)' /\ Late(j)' <= Late(i)'
    <2>1. j \in 1..n /\ j + 1 \in 1..i
      BY <1>1
    <2> QED
      BY <1>1, <1>3, <1>4, <1>6, <2>1
  <1> QED
    BY <1>7, <1>8, <1>9 DEF OnTrack

\* What does not change while B keeps to its message and answers nothing
\* before the end of the block.
LEMMA IncomingKept ==
  ASSUME JointInv, NEW f, Incoming(f), params' = params, rrx' # "fc", Busy' => Full,
         buf = <<>> => buf' = <<>>, buf # <<>> => buf' # <<>> /\ buf'[1] = buf[1]
  PROVE  /\ BusInv' /\ FramesInv' /\ CountedInv' /\ Exchange'
         /\ Paired' = Paired
  <1> USE DEF JointInv, Joint
  <1>1. /\ UNCHANGED <<state, len, index, sn, bs_pair, bl_index, timer, rx, cb, out, fc, msg,
                       wire, blk>>
        /\ UNCHANGED <<toA, lost, sent, params>>
    BY DEF Incoming, A
  <1>2. /\ bs' = bs /\ Paired' = Paired /\ Opening' = Opening /\ Token' = Token
        /\ SP!MsgLen' = SP!MsgLen /\ SP!Handed' = SP!Handed
        /\ (buf # <<>> => RP!Message' = RP!Message)
    BY <1>1 DEF bs, Paired, Opening, Token, RP!Message, SP!MsgLen, SP!Handed, SP!NumCFs
  <1>3. buf # <<>> => Longer' = Longer
    BY <1>2 DEF Longer
  <1>4. Full' = Full
    BY <1>1, <1>2, <1>3 DEF Full, Paired
  <1>5. BusInv'
    BY <1>1, <1>2 DEF BusInv
  <1>6. toB # <<>> /\ rrx = "poll"
    BY DEF Incoming
  <1>7. Opening => ~Full
    BY DEF Opening, Full
  <1>8. FramesInv'
    <2>1. ASSUME NEW i \in 1..Len(toB) - 1
          PROVE  Carried(toB[i])' /\ (toB'[i].pci = "FF" => i = Len(toB'))
      <3> PICK g : g = toB[i + 1]
        OBVIOUS
      <3>1. toB'[i] = g /\ Carried(g) /\ (g.pci = "FF" => i + 1 = Len(toB))
            /\ Len(toB') = Len(toB) - 1 /\ Len(toB) \in Nat
        BY IncomingQueue DEF FramesInv
      <3>2. g.pci = "FF" => (Opening /\ ~Token /\ rrx # "fc" /\ ~Busy)'
        BY <1>2, <1>7, <3>1 DEF Carried
      <3>3. g.pci = "CF" => /\ buf' # <<>> /\ g.msg = buf'[1].msg
                            /\ bs' > 0 => FrameNo(g) <= bs' /\ (FrameNo(g) = bs' /\ Longer' => Full')
        BY <1>2, <1>3, <1>4, <3>1 DEF Carried
      <3>4. Carried(g)'
        BY <1>1, <3>1, <3>2, <3>3 DEF Carried, FrameNo
      <3>5. g.pci = "FF" => i = Len(toB')
        BY <3>1
      <3> QED
        BY <3>1, <3>4, <3>5 DEF Carried
    <2>2. DOMAIN toB' = 1..Len(toB) - 1
      BY IncomingQueue
    <2> QED
      BY <2>1, <2>2 DEF FramesInv
  <1>9. CountedInv'
    BY <1>1, <1>2, <1>4 DEF CountedInv
  <1>10. Exchange'
    BY <1>1, <1>2, <1>4, <1>6 DEF Exchange, Quiet, Answered, SP!RxInv
  <1> QED
    BY <1>2, <1>5, <1>8, <1>9, <1>10

\* A message has a number of frames.
LEMMA FramesNat == \A l \in Nat : NumFrames(l) \in Nat
  BY DEF NumFrames, NumCFs, CANTP_SF_NUM_DATA_BYTES, CANTP_FF_NUM_DATA_BYTES,
         CANTP_CF_NUM_DATA_BYTES

\* The lengths A sends.
LEMMA LensAre == \A l \in Lens : l \in RP!Lengths /\ l \in Nat /\ l < 4096
  <1> TAKE l \in Lens
  <1>1. l \in R!Lengths
    BY LensAssumption
  <1>2. l \in RP!Lengths
    BY <1>1 DEF R!Lengths, RP!Lengths
  <1>3. l \in Nat /\ l < 4096
    BY <1>1 DEF R!Lengths
  <1> QED
    BY <1>2, <1>3

\* The frame that B handles is one of A's.
LEMMA IncomingFrame ==
  ASSUME JointInv, NEW f, Incoming(f)
  PROVE  LET l == sent[f.msg].len  k == FrameNo(f) IN
         /\ Carried(f) /\ f = RP!Segment(f.msg, l, k) /\ f.msg \in 1..Len(sent)
         /\ l \in Lens /\ l \in RP!Lengths /\ l \in Nat /\ sent[f.msg].id = "A"
         /\ RP!ChunkOf(f) \in RP!Chunk
         /\ k \in Nat /\ k < RP!NumFrames(l) /\ Number(1) = k
         /\ f.pci = "CF" <=> k > 0
         /\ f.pci = "CF" => f.sn = k % 16 /\ buf # <<>> /\ f.msg = buf[1].msg
         /\ f.pci = "FF" => l > RP!CANTP_SF_NUM_DATA_BYTES /\ toB' = <<>> /\ Len(toB) = 1 /\ f.dl = l
         /\ Due(1) <=> f.pci = "CF"
  <1> USE DEF JointInv, Joint
  <1> PICK l, k : l = sent[f.msg].len /\ k = FrameNo(f)
    OBVIOUS
  <1>1. /\ 1 \in DOMAIN toB /\ DOMAIN toB = 1..Len(toB) /\ f = toB[1] /\ f \in Frame
        /\ Len(toB) \in Nat /\ Len(toB') = Len(toB) - 1
    BY IncomingQueue
  <1>2. Carried(f) /\ (f.pci = "FF" => 1 = Len(toB))
    BY <1>1 DEF FramesInv
  <1>3. f.msg \in 1..Len(sent) /\ k \in Nat /\ k < NumFrames(l) /\ f = Segment(f.msg, l, k)
    BY <1>2 DEF Carried, BusInv
  <1>4. l \in Lens /\ sent[f.msg].id = "A"
    <2>1. sent \in Seq([id : {"A"}, len : Lens])
      BY DEF BusInv
    <2>2. sent[f.msg] \in [id : {"A"}, len : Lens]
      BY <1>3, <2>1, LenProperties
    <2> QED
      BY <2>2
  <1>5. l \in RP!Lengths /\ l \in Nat /\ l < 4096
    BY <1>4, LensAre
  <1>6. RP!ChunkOf(f) \in RP!Chunk
    BY <1>1, SameFrames
  <1>7. /\ k > 0 => f.pci = "CF" /\ f.sn = k % 16
        /\ k = 0 => f.pci = (IF l <= CANTP_SF_NUM_DATA_BYTES THEN "SF" ELSE "FF")
    <2> HIDE DEF JointInv, Joint
    <2>1. LET g == Segment(f.msg, l, k) IN
          /\ k > 0 => g.pci = "CF" /\ g.sn = k % 16
          /\ k = 0 => g.pci = (IF l <= CANTP_SF_NUM_DATA_BYTES THEN "SF" ELSE "FF")
      BY <1>3, <1>5, SegmentIs
    <2> QED
      BY <1>3, <2>1
  <1>8. f.pci = "FF" => k = 0 /\ l > RP!CANTP_SF_NUM_DATA_BYTES
    BY <1>3, <1>5, <1>7 DEF CANTP_SF_NUM_DATA_BYTES, RP!CANTP_SF_NUM_DATA_BYTES
  <1>9. f.pci = "FF" => f.dl = l
    <2>1. f.pci = "FF" => f = FirstFrame(f.msg, l)
      BY <1>3, <1>5, <1>8
         DEF Segment, CANTP_SF_NUM_DATA_BYTES, RP!CANTP_SF_NUM_DATA_BYTES
    <2>2. FFLen(l) = l
      BY <1>5 DEF FFLen
    <2>3. FirstFrame(f.msg, l).dl = l
      BY <2>2 DEF FirstFrame
    <2> QED
      BY <2>1, <2>3
  <1>10. f.pci = "FF" => toB' = <<>>
    <2>1. toB' = Tail(toB) /\ toB \in Seq(Frame) /\ toB # <<>>
      BY DEF Incoming, Typed
    <2> HIDE DEF JointInv, Joint
    <2>2. toB' \in Seq(Frame)
      BY <2>1, HeadTailProperties
    <2>3. f.pci = "FF" => Len(toB') = 0
      <3>1. Len(toB') = Len(toB) - 1 /\ (f.pci = "FF" => Len(toB) = 1)
        BY <1>1, <1>2
      <3> QED
        BY <3>1
    <2> QED
      BY <2>2, <2>3, EmptySeq
  <1>11. f = RP!Segment(f.msg, l, k) /\ NumFrames(l) = RP!NumFrames(l)
    BY <1>3, SameSegments
  <1>12. Number(1) = k /\ (Due(1) <=> f.pci = "CF")
    BY <1>1 DEF Number, Due
  <1>13. f.pci = "CF" => buf # <<>> /\ f.msg = buf[1].msg
    BY <1>2 DEF Carried
  <1>14. f.pci = "CF" <=> k > 0
    BY <1>3, <1>7
  <1> HIDE DEF JointInv, Joint
  <1> QED
    BY <1>2, <1>3, <1>4, <1>5, <1>6, <1>7, <1>8, <1>9, <1>10, <1>11, <1>12, <1>13, <1>14, <1>1

\* A Consecutive Frame that comes while B receives bears B's next sequence
\* number just if it is the one B needs.
LEMMA IncomingCF ==
  ASSUME JointInv, NEW f, Incoming(f), RP!CFExpected(f, "A")
  PROVE  LET k == Len(buf)  l == RP!Message.len IN
         /\ k \in Nat /\ k > 0 /\ k < RP!NumFrames(l) /\ buf # <<>> /\ rcvr.state = "FC_SENT"
         /\ l \in RP!Lengths /\ l \in Nat /\ l > RP!CANTP_SF_NUM_DATA_BYTES
         /\ rcvr.id_pair = "A" /\ rcvr.len - rcvr.index > 0
         /\ RP!InSequence(f) <=> Late(1) = 0
         /\ Late(1) = 0 => f = RP!Segment(buf[1].msg, l, k) /\ FrameNo(f) = k
  <1> USE DEF JointInv, Joint
  <1> PICK k, l : k = Len(buf) /\ l = RP!Message.len
    OBVIOUS
  <1>1. f.pci = "CF" /\ rcvr.state = "FC_SENT" /\ rcvr.id_pair = "A"
    BY DEF RP!CFExpected
  <1>2. /\ buf # <<>> /\ f.msg = buf[1].msg /\ f.sn = FrameNo(f) % 16 /\ Due(1)
        /\ f = RP!Segment(buf[1].msg, l, FrameNo(f)) /\ FrameNo(f) \in Nat /\ Number(1) = FrameNo(f)
        /\ l \in RP!Lengths /\ l \in Nat
    BY <1>1, IncomingFrame DEF RP!Message
  <1>3. k \in Nat /\ k > 0
    <2>1. buf \in Seq(RP!Chunk)
      BY DEF Typed, RP!RoleTypeOK
    <2> QED
      BY <1>2, <2>1, LenProperties, EmptySeq
  <1>4. k < NumFrames(l)
    BY <1>1 DEF Following
  <1>5. OnTrack(1)
    <2>1. Len(toB) \in Nat
      BY IncomingQueue
    <2> QED
      BY <1>1, <1>2, <2>1 DEF Following
  <1>6. Late(1) = 0 => FrameNo(f) = k
    BY <1>2, <1>3, <1>5 DEF OnTrack
  <1>7. RP!InSequence(f) <=> Late(1) = 0
    <2>1. FrameNo(f) - 1 + 1 = FrameNo(f) /\ FrameNo(f) \in Int /\ rcvr.sn \in RP!SeqNum
      BY <1>2, JointTypes
    <2>2. Late(1) = RP!Lag(FrameNo(f), rcvr.sn)
      BY <1>2, <2>1 DEF Late
    <2> HIDE DEF JointInv, Joint
    <2>3. RP!NextSn(rcvr.sn) = FrameNo(f) % 16 <=> RP!Lag(FrameNo(f), rcvr.sn) = 0
      BY <2>1, ReceiverAssumptions, RP!LagSteps
    <2> QED
      BY <1>2, <2>2, <2>3 DEF RP!InSequence
  <1>8. l > RP!CANTP_SF_NUM_DATA_BYTES
    BY <1>2 DEF RP!Announced
  <1>9. RP!NumFrames(l) = NumFrames(l)
    BY SameSegments
  <1>10. rcvr.len = l /\ rcvr.index = RP!CFOffset(k)
    <2>1. /\ rcvr.len = l
          /\ rcvr.index = IF k = RP!NumFrames(l) THEN l ELSE RP!CFOffset(k)
      <3>1. RP!BufferIntact
        OBVIOUS
      <3> HIDE DEF JointInv, Joint
      <3> QED
        BY <1>2, <3>1 DEF RP!BufferIntact, RP!Message
    <2>2. NumFrames(l) \in Nat
      BY <1>2, FramesNat
    <2> QED
      BY <1>3, <1>4, <1>9, <2>1, <2>2
  <1> HIDE DEF JointInv, Joint
  <1>11. l - RP!CFOffset(k) > 0
    BY <1>2, <1>3, <1>4, <1>8, <1>9, ReceiverAssumptions, RP!Progress
  <1> QED
    BY <1>1, <1>2, <1>3, <1>4, <1>6, <1>7, <1>8, <1>9, <1>10, <1>11

\* Frames that do not concern what B is receiving.
LEMMA HandledAside ==
  ASSUME JointInv, NEW f, Incoming(f), UNCHANGED <<params, buf, rrx, rbl_index>>,
         buf # <<>> => /\ rcvr'.id_pair = rcvr.id_pair /\ rcvr'.len = rcvr.len
                       /\ rcvr'.index = rcvr.index,
         rcvr'.state \in {"FC_SENDING", "FC_SENT"} =>
           rcvr' = rcvr /\ toB' = <<>> /\ ~Paired
  PROVE  Joint'
  <1> USE DEF JointInv, Joint
  <1>1. Busy' = Busy /\ (Busy => Full) /\ rrx' # "fc"
    BY DEF Busy, RP!BlockFull, Exchange, Incoming
  <1>2. /\ BusInv' /\ FramesInv' /\ CountedInv' /\ Exchange' /\ Paired' = Paired
    BY <1>1, IncomingKept
  <1>3. sent' = sent /\ wire' = wire
    BY DEF Incoming, A
  <1>4. RP!Announced' /\ RP!BufferIntact' /\ (buf # <<>> => RP!Message' = RP!Message)
    <2>1. Len(sent) \in Nat
      BY JointTypes DEF BusInv
    <2> QED
      BY <1>3, <2>1, ReceiverAssumptions, RP!BufferKept
  <1>5. Following'
    <2>1. ASSUME rcvr'.state \in {"FC_SENDING", "FC_SENT"}
          PROVE  /\ Len(buf') < NumFrames(RP!Message'.len)
                 /\ \A i \in 1..Len(toB') + 1 : ~Due(i)'
      <3>1. rcvr' = rcvr /\ toB' = <<>> /\ ~Paired' /\ Len(buf) < NumFrames(RP!Message.len)
        BY <1>2, <2>1 DEF Following
      <3>2. buf # <<>>
        BY <2>1, <3>1 DEF Typed, RP!ControlOK
      <3>3. Len(toB') = 0
        BY <3>1
      <3>4. \A i \in 1..Len(toB') + 1 : ~Due(i)'
        BY <3>1, <3>3 DEF Due
      <3> QED
        BY <1>4, <3>1, <3>2, <3>4
    <2> QED
      BY <1>2, <1>3, <2>1 DEF Following
  <1> QED
    BY <1>2, <1>4, <1>5

\* Single Frames, and frames that B refuses or ignores.
LEMMA HandledOther ==
  ASSUME JointInv, NEW f, Incoming(f),
         \/ RP!rx_single_frame(f, "A") \/ RP!FFRefused(f) \/ RP!CFIgnored(f, "A")
         \/ RP!FFRejected(f, "A") \/ RP!FFNoBuffer(f, "A")
  PROVE  Joint'
  <1> USE DEF JointInv, Joint
  <1>1. RP!RoleTypeOK /\ RP!ControlOK /\ rrx = "poll"
    BY DEF Typed, Incoming
  <1>2. CASE RP!rx_single_frame(f, "A")
    <2>1. /\ UNCHANGED <<params, buf, rrx, rbl_index>>
          /\ rcvr'.state = "RX_DONE" /\ rcvr'.id_pair = rcvr.id_pair /\ rcvr'.len = rcvr.len
          /\ rcvr'.index = rcvr.index
      BY <1>1, <1>2 DEF RP!rx_single_frame, RP!RoleTypeOK
    <2> QED
      BY <2>1, HandledAside
  <1>3. CASE RP!FFRefused(f)
    <2>1. f.pci = "FF" /\ UNCHANGED <<params, buf, rrx, rbl_index, rcvr>>
      BY <1>3 DEF RP!FFRefused, RP!rvars
    <2>2. toB' = <<>> /\ Len(toB) = 1 /\ ~Due(1)
      BY <2>1, IncomingFrame
    <2>3. rcvr.state \in {"FC_SENDING", "FC_SENT"} => ~Paired
      <3>1. ASSUME Paired PROVE Due(2)
        BY <2>2, <3>1 DEF Due
      <3>2. OnTrack(2) => Due(1)
        BY DEF OnTrack
      <3> QED
        BY <2>2, <3>1, <3>2 DEF Following
    <2> QED
      BY <2>1, <2>2, <2>3, HandledAside
  <1>4. CASE RP!CFIgnored(f, "A")
    <2>1. f.pci = "CF" /\ UNCHANGED <<params, buf, rrx, rbl_index, rcvr>>
          /\ (rcvr.state # "FC_SENT" \/ rcvr.id_pair # "A")
      BY <1>4 DEF RP!CFIgnored, RP!rvars
    <2>2. rcvr.id_pair = "A"
      <3>1. buf # <<>> /\ f.msg = buf[1].msg /\ sent[f.msg].id = "A"
        BY <2>1, IncomingFrame
      <3> QED
        BY <3>1 DEF RP!BufferIntact
    <2>3. rcvr'.state \notin {"FC_SENDING", "FC_SENT"}
      BY <1>1, <2>1, <2>2 DEF RP!ControlOK
    <2> QED
      BY <2>1, <2>3, HandledAside
  <1>5. CASE RP!FFRejected(f, "A") \/ RP!FFNoBuffer(f, "A")
    <2>1. /\ UNCHANGED <<params, buf, rrx, rbl_index>> /\ rcvr.state = "IDLE"
          /\ rcvr'.state \in {"IDLE", "FF_RCVD"}
      BY <1>1, <1>5 DEF RP!FFRejected, RP!FFNoBuffer, RP!NewReception, RP!RoleTypeOK
    <2>2. buf = <<>>
      BY <1>1, <2>1 DEF RP!ControlOK
    <2> QED
      BY <2>1, <2>2, HandledAside
  <1> QED
    BY <1>2, <1>3, <1>4, <1>5

\* A First Frame that B takes up finds A waiting for the answer.
LEMMA HandledFF ==
  ASSUME JointInv, NEW f, Incoming(f), RP!FFAccepted(f, "A") PROVE Joint'
  <1> USE DEF JointInv, Joint
  <1> PICK l : l = sent[f.msg].len
    OBVIOUS
  <1>1. /\ UNCHANGED <<state, len, index, sn, bs_pair, bl_index, timer, rx, cb, out, fc, msg,
                       wire, blk>>
        /\ UNCHANGED <<toA, lost, sent>> /\ toB # <<>>
    BY DEF Incoming, A
  <1>2. f.pci = "FF" /\ rcvr.state = "IDLE" /\ rrx' = "fc" /\ params' = params
        /\ rcvr'.state = "FC_SENDING"
    <2>1. RP!RoleTypeOK
      BY DEF Typed
    <2> QED
      BY <2>1 DEF RP!FFAccepted, RP!NewReception, RP!RoleTypeOK
  <1>3. buf = <<>>
    BY <1>2 DEF Typed, RP!ControlOK
  <1>4. /\ Carried(f) /\ f.msg \in 1..Len(sent) /\ l \in RP!Lengths /\ l \in Nat
        /\ l > RP!CANTP_SF_NUM_DATA_BYTES /\ toB' = <<>> /\ f.dl = l /\ sent[f.msg].id = "A"
        /\ f = RP!Segment(f.msg, l, FrameNo(f)) /\ FrameNo(f) = 0
    <2>1. FrameNo(f) \in Nat /\ ~(FrameNo(f) > 0) /\ Carried(f)
      BY <1>2, IncomingFrame
    <2>2. FrameNo(f) = 0
      BY <2>1
    <2> QED
      BY <1>2, <2>2, IncomingFrame
  <1>5. f.msg = msg /\ Opening /\ ~Token /\ ~Busy
    BY <1>2, <1>4 DEF Carried
  <1>6. /\ RP!Announced' /\ RP!BufferIntact' /\ Len(buf') = 1 /\ buf' # <<>> /\ buf'[1].msg = msg
        /\ rcvr'.sn = 0 /\ Len(buf') < RP!NumFrames(l)
    <2>1. RP!RoleTypeOK /\ RP!ControlOK
      BY DEF Typed
    <2> HIDE DEF JointInv, Joint
    <2>2. f = RP!Segment(f.msg, l, 0)
      BY <1>4
    <2> QED
      BY <1>1, <1>4, <1>5, <2>1, <2>2, ReceiverAssumptions, RP!Begun
  <1>7. Paired' /\ Opening' /\ ~Token' /\ ~Busy' /\ bs' = bs /\ SP!MsgLen' = SP!MsgLen
        /\ SP!Handed' = SP!Handed /\ RP!Message' = sent[msg]
    BY <1>1, <1>2, <1>5, <1>6 DEF Paired, Opening, Token, Busy, bs, SP!MsgLen, SP!Handed,
       SP!NumCFs, RP!Message
  <1>8. state \in {"FF_SENDING", "FF_FC_WAIT"} /\ Len(wire) = 1 /\ blk = 0
    BY <1>5, Standing DEF Opening
  <1>9. BusInv'
    BY <1>1, <1>7 DEF BusInv
  <1>10. FramesInv'
    BY <1>4 DEF FramesInv
  <1>11. Following'
    <2>1. Len(buf') < NumFrames(RP!Message'.len)
      BY <1>4, <1>5, <1>6, <1>7, SameSegments
    <2>2. Len(toB') = 0
      BY <1>4
    <2>3. Number(1)' = 1
      BY <1>1, <1>8, <2>2 DEF Number
    <2>4. Late(1)' = 0
      <3>1. 1 - 1 + 1 = 1
        OBVIOUS
      <3> HIDE DEF JointInv, Joint
      <3>2. RP!Lag(1, 0) = 0
        BY ReceiverAssumptions, RP!LagSteps DEF RP!SeqNum
      <3> QED
        BY <1>6, <2>3, <3>1, <3>2 DEF Late
    <2>5. 0 <= lost'
      BY <1>1, BoundsAssumption DEF BusInv
    <2>6. OnTrack(1)'
      BY <1>6, <2>3, <2>4, <2>5 DEF OnTrack
    <2> QED
      BY <1>1, <1>8, <2>1, <2>2, <2>6 DEF Following
  <1>12. CountedInv'
    BY <1>1, <1>3, <1>7, <1>8 DEF CountedInv, SP!InCF
  <1>13. Exchange'
    <2>1. ~Quiet
      BY <1>1 DEF Quiet
    <2> QED
      BY <1>1, <1>2, <1>4, <1>6, <1>7, <2>1 DEF Exchange, SP!RxInv
  <1> QED
    BY <1>6, <1>9, <1>10, <1>11, <1>12, <1>13

\* A Consecutive Frame out of sequence only moves B's number on.
LEMMA HandledLate ==
  ASSUME JointInv, NEW f, Incoming(f), RP!CFDiscarded(f, "A") PROVE Joint'
  <1> USE DEF JointInv, Joint
  <1>1. /\ UNCHANGED <<params, buf, rrx, rbl_index>> /\ RP!CFExpected(f, "A")
        /\ ~RP!InSequence(f) \/ rcvr.len - rcvr.index <= 0
        /\ rcvr'.sn = RP!NextSn(rcvr.sn) /\ rcvr'.state = rcvr.state
        /\ rcvr'.id_pair = rcvr.id_pair /\ rcvr'.len = rcvr.len /\ rcvr'.index = rcvr.index
    <2>1. RP!RoleTypeOK
      BY DEF Typed
    <2> QED
      BY <2>1 DEF RP!CFDiscarded, RP!RoleTypeOK
  <1>2. /\ Late(1) # 0 /\ buf # <<>> /\ rcvr.state = "FC_SENT"
    <2>1. rcvr.len \in Nat /\ rcvr.index \in Nat
      <3>1. rcvr.len \in RP!UInt16 /\ rcvr.index \in RP!UInt16
        BY DEF Typed, RP!RoleTypeOK
      <3>2. RP!UInt16 = UInt16
        BY DEF RP!UInt16, UInt16
      <3> QED
        BY <3>1, <3>2, TypeRanges
    <2>2. rcvr.len - rcvr.index > 0 /\ (RP!InSequence(f) <=> Late(1) = 0)
          /\ buf # <<>> /\ rcvr.state = "FC_SENT"
      BY <1>1, IncomingCF
    <2> QED
      BY <1>1, <2>1, <2>2
  <1>3. Busy' = Busy /\ (Busy => Full) /\ rrx' # "fc"
    BY <1>1 DEF Busy, RP!BlockFull, Exchange, Incoming
  <1>4. /\ BusInv' /\ FramesInv' /\ CountedInv' /\ Exchange' /\ Paired' = Paired
    BY <1>1, <1>3, IncomingKept
  <1>5. sent' = sent /\ wire' = wire
    BY DEF Incoming, A
  <1>6. RP!Announced' /\ RP!BufferIntact' /\ RP!Message' = RP!Message
    <2>1. Len(sent) \in Nat
      BY JointTypes DEF BusInv
    <2> QED
      BY <1>1, <1>2, <1>5, <2>1, ReceiverAssumptions, RP!BufferKept
  <1>7. Following'
    <2>1. \A i \in 1..Len(toB') + 1 : Due(i)' => OnTrack(i)'
      BY <1>1, <1>2, <1>4, Shifted
    <2> QED
      BY <1>1, <1>2, <1>4, <1>5, <1>6, <2>1 DEF Following
  <1> QED
    BY <1>4, <1>6, <1>7

\* The Consecutive Frame that B needs is stored; the last of a block finds A
\* at the end of it.
LEMMA HandledNext ==
  ASSUME JointInv, NEW f, Incoming(f), RP!CFAccepted(f, "A") PROVE Joint'
  <1> USE DEF JointInv, Joint
  <1> PICK k, l : k = Len(buf) /\ l = RP!Message.len
    OBVIOUS
  <1> DEFINE last == RP!LastCF(l - RP!CFOffset(k))
  <1>1. RP!CFExpected(f, "A") /\ RP!InSequence(f)
        /\ UNCHANGED <<params, rbl_index>>
    BY DEF RP!CFAccepted
  <1>2. /\ k \in Nat /\ k > 0 /\ k < RP!NumFrames(l) /\ buf # <<>> /\ rcvr.state = "FC_SENT"
        /\ l \in RP!Lengths /\ l \in Nat /\ rcvr.id_pair = "A"
        /\ f = RP!Segment(buf[1].msg, l, k) /\ FrameNo(f) = k
    BY <1>1, IncomingCF
  <1>3. f.pci = "CF" /\ Carried(f) /\ RP!ChunkOf(f) \in RP!Chunk
    BY <1>1, IncomingFrame DEF RP!CFExpected
  <1>4. sent' = sent /\ wire' = wire /\ rrx = "poll" /\ toB # <<>>
    BY DEF Incoming, A
  <1>5. /\ RP!Announced' /\ RP!BufferIntact' /\ RP!Message' = RP!Message
        /\ buf' # <<>> /\ buf'[1] = buf[1] /\ Len(buf') = k + 1
        /\ rcvr'.sn = RP!NextSn(rcvr.sn)
        /\ ~last => k + 1 < RP!NumFrames(l)
        /\ rcvr'.state = IF last THEN "TX_DONE" ELSE rcvr.state
        /\ rcvr.index = RP!CFOffset(k) /\ rcvr.len = l
    <2>1. RP!RoleTypeOK /\ RP!Announced /\ RP!BufferIntact
      BY DEF Typed
    <2> HIDE DEF JointInv, Joint
    <2> QED
      BY <1>2, <1>3, <1>4, <2>1, ReceiverAssumptions, RP!Stored
  <1>6. rrx' = IF last THEN rrx ELSE IF params.wft_num > 0 THEN "wait" ELSE "block"
    BY <1>5 DEF RP!CFAccepted
  <1> HIDE DEF last
  <1>7. RP!NumFrames(l) = NumFrames(l) /\ NumFrames(l) \in Nat
    BY <1>2, FramesNat, SameSegments
  <1>8. /\ bs \in Nat /\ bs <= 255
        /\ bs > 0 => k <= bs /\ (k = bs /\ Longer => Full)
    BY <1>2, <1>3, JointTypes DEF Carried
  <1>9. Busy' => Full
    <2>1. ASSUME Busy' PROVE bs > 0 /\ k = bs /\ ~last
      <3>1. ~last
        BY <1>4, <1>6, <2>1 DEF Busy
      <3>2. CASE params.wft_num > 0
        <4>1. bs = 1
          BY <3>2 DEF Exchange
        <4> QED
          BY <1>2, <1>8, <3>1, <4>1
      <3>3. CASE ~(params.wft_num > 0)
        <4>1. rrx' = "block" /\ bs > 0 /\ RP!U8(rbl_index + 1) >= bs
          BY <1>1, <1>6, <2>1, <3>1, <3>3 DEF Busy, RP!BlockFull, bs
        <4>2. rbl_index = (k - 1) % bs
          <5>1. RP!Counting
            BY <1>2 DEF Typed, RP!FlowInv
          <5> QED
            BY <1>2, <1>4, <4>1, <5>1 DEF RP!Counting, RP!Accepted, bs
        <4> HIDE DEF JointInv, Joint
        <4>3. rbl_index = k - 1
          BY <1>2, <1>8, <4>1, <4>2
        <4>4. k >= bs
          BY <1>2, <1>8, <4>1, <4>3 DEF RP!U8
        <4> QED
          BY <1>2, <1>8, <3>1, <4>1, <4>4
      <3> QED
        BY <3>2, <3>3
    <2>2. ~last /\ k = bs => Longer
      BY <1>5, <1>7 DEF Longer
    <2> QED
      BY <1>8, <2>1, <2>2
  <1>10. /\ BusInv' /\ FramesInv' /\ CountedInv' /\ Exchange' /\ Paired' = Paired
    <2>1. rrx' # "fc"
      BY <1>4, <1>6
    <2> QED
      BY <1>1, <1>2, <1>5, <1>9, <2>1, IncomingKept
  <1>11. Following'
    <2>1. \A i \in 1..Len(toB') + 1 : Due(i)' => OnTrack(i)'
      BY <1>2, <1>5, <1>10, Shifted
    <2>2. last => rcvr'.state = "TX_DONE"
      BY <1>5
    <2>3. ~last => Len(buf') < NumFrames(RP!Message'.len)
      BY <1>5, <1>7
    <2> QED
      BY <1>4, <1>10, <2>1, <2>2, <2>3 DEF Following
  <1> QED
    BY <1>5, <1>10, <1>11

\* Whatever the frame is.
LEMMA IncomingHandled ==
  ASSUME JointInv, NEW f, Incoming(f), RP!cantp_canrx_cb(f, "A") PROVE Joint'
  BY HandledOther, HandledFF, HandledLate, HandledNext
     DEF RP!cantp_canrx_cb, RP!rcvr_rx_first_frame, RP!rcvr_rx_consecutive_frame

----------------------------------------------------------------------------
(* B's thread sends Flow Control or counts a frame of the block.            *)

\* B's thread at work on an accepted frame.
LEMMA AnsweringKept ==
  ASSUME JointInv, rrx # "poll", rrx' # "fc", Busy' => Full,
         UNCHANGED <<A, toB, sent, params, buf>>,
         rcvr'.id_pair = rcvr.id_pair, rcvr'.len = rcvr.len, rcvr'.index = rcvr.index,
         rcvr'.sn = rcvr.sn, rcvr.state \in {"FC_SENDING", "FC_SENT"},
         lost' = lost \/ (lost < MaxLost /\ lost' = lost + 1),
         \/ toA' = toA
         \/ Full
         \/ rrx = "fc" /\ rrx' = "poll" /\ toA' = Append(toA, RP!CTSFrame)
  PROVE  Joint'
  <1> USE DEF JointInv, Joint
  <1>1. /\ UNCHANGED <<state, len, index, sn, bs_pair, bl_index, timer, rx, cb, out, fc, msg,
                       wire, blk>>
    BY DEF A
  <1>2. /\ bs' = bs /\ Paired' = Paired /\ Opening' = Opening
        /\ SP!MsgLen' = SP!MsgLen /\ SP!Handed' = SP!Handed
        /\ RP!Message' = RP!Message /\ RP!CTSFrame' = RP!CTSFrame
    BY <1>1 DEF bs, Paired, Opening, RP!Message, RP!CTSFrame, SP!MsgLen, SP!Handed, SP!NumCFs
  <1>3. Longer' = Longer /\ Full' = Full /\ (Opening => ~Full)
    BY <1>1, <1>2 DEF Longer, Full, Opening
  <1>4. lost \in Nat /\ lost' \in 0..MaxLost /\ lost' \in Nat /\ lost <= lost'
    <2>1. lost \in 0..MaxLost
      BY DEF BusInv
    <2> HIDE DEF JointInv, Joint
    <2> QED
      BY <2>1, BoundsAssumption
  <1>5. BusInv'
    BY <1>1, <1>2, <1>4 DEF BusInv
  <1>6. RP!Announced' /\ RP!BufferIntact'
    <2>1. Len(sent) \in Nat
      BY JointTypes DEF BusInv
    <2> QED
      BY <2>1, ReceiverAssumptions, RP!BufferKept
  <1>7. Opening /\ Token' => rrx = "fc" \/ Token
    BY <1>1, <1>3 DEF Token
  <1>8. FramesInv'
    <2> SUFFICES ASSUME NEW i \in DOMAIN toB
                 PROVE  Carried(toB[i])' /\ (toB[i].pci = "FF" => i = Len(toB))
      BY DEF FramesInv
    <2> PICK g : g = toB[i]
      OBVIOUS
    <2>1. Carried(g) /\ (g.pci = "FF" => i = Len(toB))
      BY DEF FramesInv
    <2>2. g.pci = "FF" => (Opening /\ ~Token /\ rrx # "fc" /\ ~Busy)'
      BY <1>2, <1>3, <1>7, <2>1 DEF Carried
    <2>3. g.pci = "CF" => /\ buf' # <<>> /\ g.msg = buf'[1].msg
                          /\ bs' > 0 => FrameNo(g) <= bs' /\ (FrameNo(g) = bs' /\ Longer' => Full')
      BY <1>2, <1>3, <2>1 DEF Carried
    <2>4. Carried(g)'
      BY <1>1, <2>1, <2>2, <2>3 DEF Carried, FrameNo
    <2> QED
      BY <2>1, <2>4 DEF Carried
  <1>9. CountedInv'
    BY <1>1, <1>2, <1>3 DEF CountedInv
  <1>10. Following'
    <2> SUFFICES ASSUME NEW i \in 1..Len(toB) + 1, Due(i)' PROVE OnTrack(i)'
      BY <1>1, <1>2 DEF Following
    <2>1. OnTrack(i)
      BY <1>1, <1>2 DEF Following, Due
    <2>2. \A j \in 1..Len(toB) + 1 :
            Number(j)' = Number(j) /\ Due(j)' = Due(j) /\ Late(j)' = Late(j) /\ Late(j) \in Nat
      BY <1>1, <1>2, LateNat DEF Number, Due, Late, FrameNo
    <2>3. Late(i)' <= lost' /\ (Late(i)' = 0 => Number(i)' = Len(buf') + i - 1)
      <3>1. Late(i) <= lost /\ (Late(i) = 0 => Number(i) = Len(buf) + i - 1)
        BY <2>1 DEF OnTrack
      <3> HIDE DEF JointInv, Joint
      <3> QED
        BY <1>4, <2>2, <3>1
    <2>4. ASSUME NEW j \in 1..i - 1 PROVE Due(j)' /\ Late(j)' <= Late(i)'
      <3>1. j \in 1..Len(toB) + 1
        BY LenProperties DEF Typed
      <3>2. Due(j) /\ Late(j) <= Late(i)
        BY <2>1 DEF OnTrack
      <3> QED
        BY <2>2, <3>1, <3>2
    <2> QED
      BY <2>3, <2>4 DEF OnTrack
  <1>11. Token' => Answered' \/ Full'
    <2> SUFFICES ASSUME Token', ~Full PROVE Answered'
      BY <1>3
    <2>1. ~Token
      BY DEF Exchange, Answered
    <2>2. rrx = "fc" /\ rrx' = "poll" /\ toA' = Append(toA, RP!CTSFrame)
      BY <1>1, <2>1 DEF Token
    <2>3. Paired /\ Opening /\ Len(buf) = 1 /\ toB = <<>>
      BY <2>2 DEF Exchange
    <2>4. rx = "poll"
      BY <2>1, <2>3, Standing DEF Token, Opening, Exchange, SP!RxInv, SP!Opened, SP!Sending
    <2>5. toA = <<>>
      BY <2>1 DEF Token
    <2>6. toA' = <<RP!CTSFrame>>
      <3> HIDE DEF JointInv, Joint
      <3> QED
        BY <2>2, <2>5
    <2> QED
      BY <1>1, <1>2, <2>2, <2>3, <2>4, <2>6 DEF Answered
  <1>12. Exchange'
    <2>1. ~Quiet
      BY DEF Quiet
    <2> QED
      BY <1>1, <1>2, <1>3, <1>11, <2>1 DEF Exchange, SP!RxInv
  <1> QED
    BY <1>5, <1>6, <1>8, <1>9, <1>10, <1>12

\* A Flow Control frame f arrives, is lost, or is not sent.
Reaches(f) ==
  \/ toA' = Append(toA, f) /\ lost' = lost
  \/ toA' = toA /\ (lost' = lost \/ (lost < MaxLost /\ lost' = lost + 1))

\* Each of its steps.
LEMMA ThreadKept ==
  ASSUME JointInv, UNCHANGED <<A, toB, sent>>,
         \/ \E ok \in BOOLEAN : \/ RP!SendCTS(ok) /\ Reaches(RP!CTSFrame)
                                \/ RP!SendWait(ok) /\ Reaches(RP!WaitFrame)
         \/ (RP!EndBlock \/ RP!AwaitNextCF) /\ UNCHANGED <<toA, lost>>
  PROVE  Joint'
  <1>1. RP!RoleTypeOK /\ RP!ControlOK /\ (Busy => Full)
    BY DEF JointInv, Typed, Joint, Exchange
  <1>2. ASSUME NEW ok \in BOOLEAN, RP!SendCTS(ok), Reaches(RP!CTSFrame) PROVE Joint'
    <2>1. /\ rrx \in {"fc", "block_fc"} /\ rrx' = "poll" /\ UNCHANGED <<params, buf>>
          /\ rcvr' = [rcvr EXCEPT !.state = "FC_SENT"]
      BY <1>2 DEF RP!SendCTS, RP!cantp_can_tx
    <2>2. /\ rcvr'.id_pair = rcvr.id_pair /\ rcvr'.len = rcvr.len /\ rcvr'.index = rcvr.index
          /\ rcvr'.sn = rcvr.sn /\ rcvr.state \in {"FC_SENDING", "FC_SENT"}
      BY <1>1, <2>1 DEF RP!RoleTypeOK, RP!ControlOK
    <2>3. rrx = "fc" \/ Full
      BY <1>1, <2>1 DEF Busy
    <2> QED
      BY <1>2, <2>1, <2>2, <2>3, AnsweringKept DEF Busy, Reaches
  <1>3. ASSUME NEW ok \in BOOLEAN, RP!SendWait(ok), Reaches(RP!WaitFrame) PROVE Joint'
    <2>1. /\ rrx = "wait" /\ rrx' \in {"wait", "block"} /\ UNCHANGED <<params, buf>>
          /\ \E n : rcvr' = [rcvr EXCEPT !.state = "FC_SENT", !.wft_cntr = n]
      BY <1>3 DEF RP!SendWait, RP!cantp_can_tx
    <2>2. /\ rcvr'.id_pair = rcvr.id_pair /\ rcvr'.len = rcvr.len /\ rcvr'.index = rcvr.index
          /\ rcvr'.sn = rcvr.sn /\ rcvr.state \in {"FC_SENDING", "FC_SENT"}
      BY <1>1, <2>1 DEF RP!RoleTypeOK, RP!ControlOK
    <2>3. Full
      BY <1>1, <2>1 DEF Busy
    <2> QED
      BY <1>3, <2>1, <2>2, <2>3, AnsweringKept DEF Reaches
  <1>4. ASSUME RP!EndBlock \/ RP!AwaitNextCF, UNCHANGED <<toA, lost>> PROVE Joint'
    <2>1. /\ rrx = "block" /\ UNCHANGED <<params, buf, rcvr>>
          /\ rrx' = "poll" \/ (rrx' = "block_fc" /\ RP!BlockFull)
      BY <1>4 DEF RP!EndBlock, RP!AwaitNextCF
    <2>2. Busy' => Full
      BY <1>1, <2>1 DEF Busy
    <2>3. rcvr.state \in {"FC_SENDING", "FC_SENT"}
      BY <1>1, <2>1 DEF RP!ControlOK
    <2> QED
      BY <1>4, <2>1, <2>2, <2>3, AnsweringKept
  <1> QED
    BY <1>2, <1>3, <1>4

----------------------------------------------------------------------------
(* Every step of the two nodes keeps the invariant.                        *)

\* Only the expiry of a timer sets off the callback.
LEMMA NoExpiry ==
  ASSUME SP!TaskStep \/ SP!RxStep \/ SP!CbStep \/ SP!cantp_send_tx \/ SP!DrvDrop
  PROVE  ~SP!TimerExpire
  <1>1. ASSUME SP!TaskStep PROVE cb' = cb
    BY <1>1 DEF SP!TaskStep, SP!TaskPoll, SP!TaskWake, SP!TaskTxDone, SP!TaskTxTimeout,
       SP!ConfirmRead, SP!ConfirmSF, SP!ConfirmFF, SP!ConfirmCF, SP!NextCF, SP!NextCF_tx, SP!ByTask
  <1>2. ASSUME SP!RxStep PROVE cb' = cb
    BY <1>2 DEF SP!RxStep, SP!FCCheck, SP!FCWake, SP!FCWaitTimeout, SP!FCRecheck,
       SP!sndr_rx_flow_control_frame, SP!FirstCF_tx, SP!ByRx
  <1>3. ASSUME SP!CbStep PROVE cb # "none"
    BY <1>3 DEF SP!CbStep, SP!TimerCbRead, SP!TimerCbReport
  <1>4. ASSUME SP!cantp_send_tx \/ SP!DrvDrop PROVE cb' = cb
    BY <1>4 DEF SP!cantp_send_tx, SP!DrvDrop
  <1>5. ASSUME SP!TimerExpire PROVE cb = "none" /\ cb' = "expired"
    BY <1>5 DEF SP!TimerExpire
  <1> QED
    BY <1>1, <1>2, <1>3, <1>4, <1>5

\* The Sender's invariants, as its lemmas take them.
LEMMA SenderStands ==
  ASSUME JointInv PROVE SP!SInv /\ SP!RxInv /\ SP!Orderly
  BY DEF JointInv, Joint, Typed, Exchange, SP!SInv, SP!Orderly

\* A's own steps, the driver's included.
LEMMA StartStep ==
  ASSUME JointInv, NEW l \in Lens, Send(l) PROVE SP!Stream' /\ Joint'
  <1>1. /\ SP!cantp_send_SF(l) \/ SP!cantp_send_FF(l)
        /\ sent' = Append(sent, [id |-> "A", len |-> l]) /\ UNCHANGED <<B, toA, toB, lost>>
    BY SenderStarts DEF Send, Others, bus
  <1>2. SP!AppStep
    BY <1>1 DEF SP!AppStep
  <1>3. SP!Stream'
    BY <1>2, SenderStands, SenderAssumptions, SP!AppStream
  <1> QED
    BY <1>1, <1>3, StartKept

\* A step of one of A's threads, of its timer, or the driver giving up.
LEMMA OwnAlone ==
  ASSUME JointInv, HandOver \/ Task \/ Rx \/ Cb \/ Expire \/ GiveUp
  PROVE  SP!Stream' /\ Alone
  <1>1. SP!SInv /\ SP!RxInv /\ SP!Orderly
    BY SenderStands
  <1>2. /\ SP!cantp_send_tx \/ SP!TaskStep \/ SP!RxStep \/ SP!CbStep \/ SP!TimerExpire \/ SP!DrvDrop
        /\ UNCHANGED <<B, toA, toB, sent>>
        /\ lost' = lost \/ (lost < MaxLost /\ lost' = lost + 1)
        /\ SP!TimerExpire => timer # "N_Bs" \/ ~UnderWay
    <2>1. CASE HandOver
      BY <2>1, SenderHandsOver, NoExpiry DEF HandOver, Others, bus
    <2>2. CASE Task
      BY <2>2, SenderTask, NoExpiry DEF Task, Others, bus
    <2>3. CASE Rx
      BY <2>3, SenderRx, NoExpiry DEF Rx, Others, bus
    <2>4. CASE Cb
      BY <2>4, SenderTimer, NoExpiry DEF Cb, Others, bus
    <2>5. CASE Expire
      BY <2>5, SenderTimer DEF Expire, Others, bus
    <2>6. CASE GiveUp
      BY <2>6, SenderDriver, NoExpiry DEF GiveUp, Others
    <2> QED
      BY <2>1, <2>2, <2>3, <2>4, <2>5, <2>6
  <1>3. SP!Stream'
    <2>1. CASE SP!cantp_send_tx
      BY <1>1, <2>1, SenderAssumptions, SP!AppStream DEF SP!AppStep
    <2>2. CASE SP!TaskStep
      BY <1>1, <2>2, SenderAssumptions, SP!TaskStream
    <2>3. CASE SP!RxStep
      BY <1>1, <2>3, SenderAssumptions, SP!RxStream
    <2>4. CASE SP!CbStep \/ SP!TimerExpire
      BY <1>1, <2>4, SenderAssumptions, SP!TimerStream
    <2>5. CASE SP!DrvDrop
      BY <1>1, <2>5, SenderAssumptions, SP!DriverStream DEF SP!DrvStep
    <2> QED
      BY <1>2, <2>1, <2>2, <2>3, <2>4, <2>5
  <1>4. UNCHANGED <<msg, wire, fc>> /\ SP!MsgLen' = SP!MsgLen /\ SP!Seen
    <2>1. CASE SP!TaskStep
      BY <1>1, <2>1, SenderAssumptions, SP!TaskSeen
    <2>2. CASE SP!RxStep
      BY <1>1, <2>2, SenderAssumptions, SP!RxSeen
    <2>3. CASE SP!cantp_send_tx \/ SP!CbStep \/ SP!TimerExpire \/ SP!DrvDrop
      BY <1>1, <2>3, SenderAssumptions, SP!OthersSeen
    <2> QED
      BY <1>2, <2>1, <2>2, <2>3
  <1>5. ~UnderWay => Quiet
    BY DEF UnderWay, Quiet
  <1>6. Alone
    BY <1>2, <1>4, <1>5 DEF Alone
  <1> QED
    BY <1>3, <1>6

\* It keeps the invariant.
LEMMA OwnStep ==
  ASSUME JointInv, HandOver \/ Task \/ Rx \/ Cb \/ Expire \/ GiveUp
  PROVE  SP!Stream' /\ Joint'
  BY OwnAlone, AloneKept

\* A's steps on the bus.
LEMMA BusStep ==
  ASSUME MaxLost < 16, JointInv, Transmit \/ TakeFC PROVE SP!Stream' /\ Joint'
  <1>1. SP!SInv /\ SP!RxInv /\ SP!Orderly
    BY SenderStands
  <1>2. CASE Transmit
    <2>1. Outgoing
      BY <1>2, SenderDriver DEF Transmit, Outgoing, Others
    <2>2. SP!DrvStep
      BY <2>1 DEF Outgoing, SP!DrvStep
    <2>3. SP!Stream'
      BY <1>1, <2>2, SenderAssumptions, SP!DriverStream
    <2> QED
      BY <2>1, <2>3, OutgoingKept
  <1>3. CASE TakeFC
    <2>1. /\ toA # <<>> /\ toA' = Tail(toA) /\ state # "FF_SENDING"
          /\ SP!cantp_can_rx(Head(toA)) /\ UNCHANGED <<B, toB, lost, sent>>
      BY <1>3, SenderTakesFC DEF TakeFC, Others
    <2>2. state \notin SP!Opened
      BY <2>1, TakenWhere
    <2>3. SP!Stream'
      BY <1>1, <2>1, <2>2, SenderAssumptions, SP!TakenStream
    <2> QED
      BY <2>1, <2>3, TakenKept
  <1> QED
    BY <1>2, <1>3

\* B's steps.
LEMMA ReceiverStep ==
  ASSUME JointInv, Receive \/ SendFC \/ CountBlock PROVE SP!Stream' /\ Joint'
  <1>1. UNCHANGED A /\ UNCHANGED sent
    BY DEF Receive, SendFC, CountBlock
  <1>2. SP!Stream'
    <2>1. UNCHANGED SP!vars
      BY <1>1 DEF A, SP!vars, SP!transfer, SP!driver, SP!history
    <2> QED
      BY <2>1, SenderStands, SenderAssumptions, SP!StutterStream
  <1>3. CASE Receive
    <2>1. Incoming(Head(toB)) /\ RP!cantp_canrx_cb(Head(toB), "A")
      BY <1>3, ReceiverHandles DEF Receive, Incoming
    <2> QED
      BY <1>2, <2>1, IncomingHandled
  <1>4. CASE SendFC
    <2>1. /\ UNCHANGED <<A, toB, sent>>
          /\ \E ok \in BOOLEAN : \/ RP!SendCTS(ok) /\ Reaches(RP!CTSFrame)
                                 \/ RP!SendWait(ok) /\ Reaches(RP!WaitFrame)
      BY <1>4, ReceiverSends DEF SendFC, Answer, Reaches
    <2> QED
      BY <1>2, <2>1, ThreadKept
  <1>5. CASE CountBlock
    <2>1. UNCHANGED <<A, toB, sent, toA, lost>> /\ (RP!EndBlock \/ RP!AwaitNextCF)
      BY <1>5, ReceiverCounts DEF CountBlock, bus
    <2> QED
      BY <1>2, <2>1, ThreadKept
  <1> QED
    BY <1>3, <1>4, <1>5

\* Every step.
LEMMA JointStep == ASSUME MaxLost < 16, JointInv, [Next]_vars PROVE JointInv'
  <1>1. Typed'
    BY TypedStep DEF JointInv
  <1>2. CASE UNCHANGED vars
    <2>1. /\ UNCHANGED A /\ UNCHANGED B /\ UNCHANGED <<toA, toB, lost, sent>>
          /\ UNCHANGED SP!vars
      BY <1>2, Unmoved DEF bus
    <2>2. SP!Stream'
      BY <2>1, SenderStands, SenderAssumptions, SP!StutterStream
    <2>3. Alone
      <3>1. /\ UNCHANGED <<state, blk, bs_pair, bl_index, index, rx, cb, timer, out, msg, wire, fc>>
        BY <2>1 DEF A
      <3>2. SP!MsgLen' = SP!MsgLen /\ SP!Handed' = SP!Handed /\ ~SP!TimerExpire
        BY <3>1 DEF SP!MsgLen, SP!Handed, SP!NumCFs, SP!TimerExpire
      <3> QED
        BY <2>1, <3>1, <3>2 DEF Alone, SP!Seen, SP!Unseen, SP!Listening
    <2> QED
      BY <1>1, <2>2, <2>3, AloneKept DEF JointInv
  <1>3. CASE Next
    BY <1>1, <1>3, StartStep, OwnStep, BusStep, ReceiverStep DEF Next, JointInv
  <1> QED
    BY <1>2, <1>3

\* The two nodes at their start.
LEMMA JointInit == Init => JointInv
  <1> SUFFICES ASSUME Init PROVE JointInv
    OBVIOUS
  <1>1. Typed
    BY TypedInit
  <1>2. SP!Init /\ RP!RoleInit
    BY SenderInit, ReceiverInit DEF Init
  <1>3. SP!Stream
    BY <1>2, SenderAssumptions, SP!StreamInit
  <1>4. /\ state = "IDLE" /\ timer = "off" /\ rx = "poll" /\ cb = "none" /\ msg = 0 /\ blk = 0
        /\ bl_index = 0 /\ wire = <<>>
    BY <1>2 DEF SP!Init
  <1>5. toA = <<>> /\ toB = <<>> /\ lost = 0 /\ sent = <<>>
    BY DEF Init
  <1>6. rcvr.state = "IDLE" /\ rrx = "poll" /\ buf = <<>>
    BY <1>2 DEF RP!RoleInit
  <1>7. BusInv
    BY <1>4, <1>5, BoundsAssumption DEF BusInv
  <1>8. FramesInv /\ Following
    BY <1>5, <1>6 DEF FramesInv, Following, Paired
  <1>9. CountedInv
    BY <1>4 DEF CountedInv, SP!InCF
  <1>10. params.wft_num > 0 => bs = 1
    BY DEF Init, bs, P!cantp_rcvr_params_init
  <1>11. Exchange
    BY <1>4, <1>5, <1>6, <1>10 DEF Exchange, Busy, Token, SP!RxInv
  <1>12. RP!Announced /\ RP!BufferIntact
    BY <1>6 DEF RP!Announced, RP!BufferIntact
  <1> QED
    BY <1>1, <1>3, <1>7, <1>8, <1>9, <1>11, <1>12 DEF JointInv, Joint

----------------------------------------------------------------------------
(* What B delivers.                                                         *)

\* A delivery is a whole message of A's.
LEMMA ReceiveDelivers ==
  ASSUME JointInv, RP!DeliveredInv, NEW f, Incoming(f), RP!cantp_canrx_cb(f, "A")
  PROVE  RP!DeliveredInv'
  <1>1. RP!RoleTypeOK /\ RP!ControlOK /\ RP!Announced /\ RP!BufferIntact
    BY DEF JointInv, Typed, Joint
  <1>2. sent' = sent /\ Len(sent) \in Nat
    BY JointTypes DEF Incoming, JointInv, Joint, BusInv
  <1>3. \A n \in 1..Len(sent) : sent[n].len <= 255
    BY DEF RP!DeliveredInv
  <1>4. ASSUME inbox' = inbox PROVE RP!DeliveredInv'
    BY <1>2, <1>3, <1>4, ReceiverAssumptions, RP!InboxKept
  <1>5. CASE RP!rx_single_frame(f, "A")
    <2> PICK l, m : l = sent[f.msg].len /\ m = f.msg
      OBVIOUS
    <2>1. /\ f = RP!Segment(m, l, FrameNo(f)) /\ m \in 1..Len(sent) /\ l \in RP!Lengths
          /\ RP!ChunkOf(f) \in RP!Chunk /\ FrameNo(f) \in Nat /\ (f.pci = "CF" <=> FrameNo(f) > 0)
      BY IncomingFrame
    <2>2. FrameNo(f) = 0
      <3>1. f.pci = "SF"
        BY <1>5 DEF RP!rx_single_frame
      <3> QED
        BY <2>1, <3>1
    <2>3. "A" \in RP!Ids
      BY DEF RP!Ids
    <2> QED
      BY <1>1, <1>2, <1>5, <2>1, <2>2, <2>3, ReceiverAssumptions, RP!SingleWhole
  <1>6. CASE RP!CFAccepted(f, "A")
    <2> PICK k : k = Len(buf)
      OBVIOUS
    <2>1. RP!CFExpected(f, "A") /\ RP!InSequence(f)
      BY <1>6 DEF RP!CFAccepted
    <2>2. /\ k \in Nat /\ k > 0 /\ k < RP!NumFrames(RP!Message.len) /\ buf # <<>>
          /\ RP!Message.len \in RP!Lengths /\ rcvr.id_pair = "A"
          /\ f = RP!Segment(buf[1].msg, RP!Message.len, k) /\ RP!ChunkOf(f) \in RP!Chunk
      BY <2>1, IncomingCF, IncomingFrame
    <2> QED
      BY <1>1, <1>2, <1>6, <2>2, ReceiverAssumptions, RP!LastWhole
  <1>7. CASE ~RP!rx_single_frame(f, "A") /\ ~RP!CFAccepted(f, "A")
    <2>1. inbox' = inbox
      BY <1>7 DEF RP!cantp_canrx_cb, RP!rcvr_rx_first_frame, RP!rcvr_rx_consecutive_frame,
         RP!FFRefused, RP!CFIgnored, RP!rvars, RP!FFRejected, RP!FFNoBuffer, RP!FFAccepted,
         RP!CFDiscarded
    <2> QED
      BY <1>4, <2>1
  <1> QED
    BY <1>5, <1>6, <1>7

\* Every other step leaves the deliveries alone.
LEMMA DeliveredStep ==
  ASSUME \A l \in Lens : l <= 255, JointInv, RP!DeliveredInv, [Next]_vars
  PROVE  RP!DeliveredInv'
  <1>1. Len(sent) \in Nat /\ sent \in Seq([id : {"A"}, len : Lens])
    BY JointTypes DEF JointInv, Joint, BusInv
  <1>2. \A n \in 1..Len(sent) : sent[n].len <= 255
    BY DEF RP!DeliveredInv
  <1>3. ASSUME inbox' = inbox, sent' = sent PROVE RP!DeliveredInv'
    BY <1>1, <1>2, <1>3, ReceiverAssumptions, RP!InboxKept
  <1>4. ASSUME NEW l \in Lens, Send(l) PROVE RP!DeliveredInv'
    <2>1. inbox' = inbox /\ sent' = Append(sent, [id |-> "A", len |-> l])
      BY <1>4 DEF Send, Others, B
    <2>2. [id |-> "A", len |-> l] \in [id : {"A"}, len : Lens]
      OBVIOUS
    <2>3. /\ Len(sent') = Len(sent) + 1 /\ sent'[Len(sent) + 1] = [id |-> "A", len |-> l]
          /\ \A n \in 1..Len(sent) : sent'[n] = sent[n]
      BY <1>1, <2>1, <2>2, AppendProperties
    <2>4. ASSUME NEW n \in 1..Len(sent') PROVE sent'[n].len <= 255
      <3>1. n \in 1..Len(sent) \/ n = Len(sent) + 1
        BY <1>1, <2>3
      <3> QED
        BY <1>2, <2>3, <3>1
    <2>5. Len(sent') \in Nat /\ Len(sent') >= Len(sent)
      BY <1>1, <2>3
    <2> QED
      BY <1>1, <2>1, <2>3, <2>4, <2>5, ReceiverAssumptions, RP!InboxKept
  <1>5. ASSUME Receive PROVE RP!DeliveredInv'
    <2>1. Incoming(Head(toB)) /\ RP!cantp_canrx_cb(Head(toB), "A")
      BY <1>5, ReceiverHandles DEF Receive, Incoming
    <2> QED
      BY <2>1, ReceiveDelivers
  <1>6. ASSUME SendFC \/ CountBlock PROVE inbox' = inbox /\ sent' = sent
    BY <1>6 DEF SendFC, CountBlock, R!SendCTS, R!SendWait, R!cantp_can_tx, R!EndBlock, R!AwaitNextCF
  <1>7. ASSUME HandOver \/ Task \/ Rx \/ Cb \/ Expire \/ Transmit \/ GiveUp \/ TakeFC
        PROVE  inbox' = inbox /\ sent' = sent
    BY <1>7 DEF HandOver, Task, Rx, Cb, Expire, Transmit, GiveUp, TakeFC, Others, B
  <1>8. ASSUME UNCHANGED vars PROVE inbox' = inbox /\ sent' = sent
    BY <1>8 DEF vars, B
  <1> QED
    BY <1>3, <1>4, <1>5, <1>6, <1>7, <1>8 DEF Next

\* B keeps and delivers A's bytes, in A's order, and of a message all or nothing
\* (cantp_send to cantp_received_cb), while fewer than 16 frames are lost and
\* messages are short enough for the uint8_t length of cantp_received_cb.
THEOREM Conveyance ==
  ASSUME MaxLost < 16, \A l \in Lens : l <= 255 PROVE Spec => []EndToEnd
  <1>1. Init => JointInv /\ RP!DeliveredInv
    <2>1. Init => sent = <<>> /\ inbox = <<>>
      BY DEF Init, R!RoleInit
    <2>2. sent = <<>> /\ inbox = <<>> => RP!DeliveredInv
      BY DEF RP!DeliveredInv, RP!DeliveredIntact
    <2> QED
      BY <2>1, <2>2, JointInit
  <1>2. JointInv /\ RP!DeliveredInv /\ [Next]_vars => (JointInv /\ RP!DeliveredInv)'
    BY JointStep, DeliveredStep
  <1>3. JointInv /\ RP!DeliveredInv => EndToEnd
    <2>1. JointInv /\ RP!DeliveredInv => RP!BufferIntact /\ RP!DeliveredIntact
      BY DEF JointInv, Joint, RP!DeliveredInv
    <2>2. /\ \A m, l, k : R!Segment(m, l, k) = RP!Segment(m, l, k)
          /\ \A l : R!NumFrames(l) = RP!NumFrames(l)
          /\ \A k : R!CFOffset(k) = RP!CFOffset(k)
          /\ \A f : R!ChunkOf(f) = RP!ChunkOf(f)
      BY DEF R!Segment, RP!Segment, R!SingleFrame, RP!SingleFrame, R!FirstFrame, RP!FirstFrame,
         R!ConsecutiveFrame, RP!ConsecutiveFrame, R!FFLen, RP!FFLen, R!CFOffset, RP!CFOffset,
         R!NumFrames, RP!NumFrames, R!NumCFs, RP!NumCFs, R!CANTP_SF_NUM_DATA_BYTES,
         RP!CANTP_SF_NUM_DATA_BYTES, R!CANTP_FF_NUM_DATA_BYTES, RP!CANTP_FF_NUM_DATA_BYTES,
         R!CANTP_CF_NUM_DATA_BYTES, RP!CANTP_CF_NUM_DATA_BYTES, R!ChunkOf, RP!ChunkOf
    <2>3. (RP!BufferIntact => R!BufferIntact) /\ (RP!DeliveredIntact => R!DeliveredIntact)
      BY <2>2 DEF R!BufferIntact, RP!BufferIntact, R!DeliveredIntact, RP!DeliveredIntact
    <2> QED
      BY <2>1, <2>3 DEF EndToEnd
  <1> QED
    BY <1>1, <1>2, <1>3, PTL DEF Spec

----------------------------------------------------------------------------
(* How a message ends.  While nothing is lost, what A has put onto the bus  *)
(* is delivered or on its way; and B has delivered nothing of which A has   *)
(* not sent the last frame.                                                 *)

\* B is in the middle of a message.
Receiving == rcvr.state \in {"FC_SENDING", "FC_SENT"}

\* The invariant of the two verdicts, on top of JointInv.
VerdictInv ==
  /\ \A i \in 1..Len(inbox) : inbox[i].msg \in 1..msg
  /\ \A i \in DOMAIN toB : toB[i].msg = msg => FrameNo(toB[i]) < Len(wire)
  /\ Delivered(msg) => Len(wire) >= NumFrames(SP!MsgLen)
  /\ lost = 0 /\ Paired => Receiving \/ Delivered(msg)
  /\ lost = 0 /\ Len(wire) > 0 /\ SP!MsgLen <= CANTP_SF_NUM_DATA_BYTES
       => Delivered(msg) \/ \E i \in DOMAIN toB : toB[i].msg = msg
  /\ Len(wire) > 1 => Paired
  /\ SP!Handed <= NumFrames(SP!MsgLen)

\* One frame is enough for a Single Frame, and for nothing longer.
LEMMA FramesOne ==
  \A l \in Nat : /\ NumFrames(l) \in Nat /\ NumFrames(l) >= 1
                 /\ NumFrames(l) = 1 <=> l <= CANTP_SF_NUM_DATA_BYTES
  <1> SUFFICES ASSUME NEW l \in Nat
               PROVE  /\ NumFrames(l) \in Nat /\ NumFrames(l) >= 1
                      /\ NumFrames(l) = 1 <=> l <= CANTP_SF_NUM_DATA_BYTES
    OBVIOUS
  <1>1. l > 7 => NumCFs(l) \in Nat /\ NumCFs(l) > 0
    BY DEF NumCFs, CANTP_FF_NUM_DATA_BYTES, CANTP_CF_NUM_DATA_BYTES
  <1> QED
    BY <1>1 DEF NumFrames, CANTP_SF_NUM_DATA_BYTES

\* Nothing of it changes unless a message is begun, a frame put onto the bus or
\* one taken from it.
LEMMA VerdictSame ==
  ASSUME JointInv, VerdictInv, UNCHANGED <<msg, wire, toB, inbox, buf>>,
         SP!MsgLen' = SP!MsgLen, lost' = lost \/ lost' = lost + 1, Receiving => Receiving',
         SP!Handed' <= NumFrames(SP!MsgLen)
  PROVE  VerdictInv'
  <1>1. lost \in Nat
    BY BoundsAssumption DEF JointInv, Joint, BusInv
  <1>2. lost' = 0 => lost = 0
    BY <1>1
  <1>3. Paired' = Paired /\ Delivered(msg)' = Delivered(msg)
    BY DEF Paired, Delivered
  <1> QED
    BY <1>2, <1>3 DEF VerdictInv, FrameNo, Delivered

\* A hands over no more frames than the message has.
LEMMA HandedAlone ==
  ASSUME JointInv, JointInv', VerdictInv, Alone PROVE SP!Handed' <= NumFrames(SP!MsgLen)
  <1>1. SP!MsgLen' = SP!MsgLen /\ SP!Seen
    BY DEF Alone
  <1>2. SP!Handed \in Nat /\ SP!Handed <= NumFrames(SP!MsgLen) /\ SP!Handed >= 1
        /\ NumFrames(SP!MsgLen) \in Nat
    BY JointTypes DEF VerdictInv, JointInv
  <1>3. state' \in SP!InCF => SP!Handed' <= NumFrames(SP!MsgLen)
    <2>1. SP!CountInv' /\ SP!OpeningInv'
      BY DEF JointInv, SP!Stream
    <2>2. state' \in SP!InCF => SP!Handed' <= SP!NumFrames(len') /\ SP!MsgLen' = len'
      BY <2>1 DEF SP!CountInv, SP!OpeningInv
    <2> QED
      BY <1>1, <2>2, SameSegments
  <1>4. CASE SP!FFConfirmed
    <2>1. blk = 0 /\ blk' = blk
      BY <1>4, Standing DEF SP!FFConfirmed
    <2>2. SP!Handed' = 1
      BY <2>1 DEF SP!Handed
    <2> QED
      BY <1>2, <2>2
  <1>5. SP!Continued \/ SP!BlockEnded \/ SP!NextComposed \/ SP!FirstComposed => state' \in SP!InCF
    BY DEF SP!Continued, SP!BlockEnded, SP!NextComposed, SP!FirstComposed, SP!InCF
  <1>6. SP!Unseen \/ SP!Refused \/ SP!Ended => SP!Handed' = SP!Handed
    BY DEF SP!Unseen, SP!Refused, SP!Ended
  <1> QED
    BY <1>1, <1>2, <1>3, <1>4, <1>5, <1>6 DEF SP!Seen

\* A new message.
LEMMA VerdictStart ==
  ASSUME JointInv, VerdictInv, NEW l \in Lens, SP!cantp_send_SF(l) \/ SP!cantp_send_FF(l),
         UNCHANGED <<B, toB, lost>>
  PROVE  VerdictInv'
  <1>1. /\ msg' = msg + 1 /\ msg \in Nat /\ blk' = 0 /\ SP!MsgLen' = l /\ l \in Nat
    BY StartsFrom, LensAre
  <1>2. wire' = <<>> /\ buf' = buf /\ inbox' = inbox
    BY DEF SP!cantp_send_SF, SP!cantp_send_FF, SP!StartMessage, B
  <1>3. Len(wire') = 0
    BY <1>2
  <1>4. \A i \in 1..Len(inbox) : inbox[i].msg \in 1..msg
    BY DEF VerdictInv
  <1>5. ~Delivered(msg)' /\ \A i \in 1..Len(inbox') : inbox'[i].msg \in 1..msg'
    BY <1>1, <1>2, <1>4 DEF Delivered
  <1>6. ASSUME NEW i \in DOMAIN toB PROVE toB[i].msg # msg + 1
    <2>1. toB[i].msg \in 1..msg
      BY DEF JointInv, Joint, FramesInv, Carried
    <2> QED
      BY <1>1, <2>1
  <1>7. ~Paired'
    <2>1. buf # <<>> => buf[1].msg \in 1..msg
      BY DEF JointInv, Joint, RP!Announced, BusInv
    <2>2. buf # <<>> => buf[1].msg # msg + 1
      BY <1>1, <2>1
    <2> QED
      BY <1>1, <1>2, <2>2 DEF Paired
  <1>8. SP!Handed' = 1 /\ NumFrames(l) >= 1
    BY <1>1, FramesOne DEF SP!Handed
  <1> QED
    BY <1>1, <1>3, <1>5, <1>6, <1>7, <1>8 DEF VerdictInv

\* A frame on the bus.
LEMMA VerdictTransmit ==
  ASSUME JointInv, VerdictInv, Outgoing PROVE VerdictInv'
  <1> PICK k, f : k = Len(wire) /\ f = Head(txq)
    OBVIOUS
  <1>1. /\ k \in Nat /\ msg' = msg /\ Len(wire') = k + 1 /\ f.msg = msg /\ FrameNo(f) = k
        /\ (k > 0 <=> Paired) /\ UNCHANGED <<blk, index>>
    BY Upcoming DEF Outgoing
  <1>2. /\ Paired' = Paired /\ SP!MsgLen' = SP!MsgLen /\ rcvr' = rcvr /\ inbox' = inbox
    BY OutgoingSame DEF Outgoing, B
  <1>3. /\ Len(toB) \in Nat /\ DOMAIN toB = 1..Len(toB) /\ DOMAIN toB' = 1..Len(toB')
        /\ \A i \in 1..Len(toB) : toB'[i] = toB[i]
        /\ \/ /\ Len(toB') = Len(toB) + 1 /\ toB'[Len(toB) + 1] = f /\ lost' = lost
           \/ toB' = toB /\ lost < MaxLost /\ lost' = lost + 1
    BY OutgoingQueue, Zenon
  <1>4. lost \in Nat
    BY BoundsAssumption DEF JointInv, Joint, BusInv
  <1>5. Delivered(msg)' = Delivered(msg) /\ SP!Handed' = SP!Handed
    BY <1>1, <1>2 DEF Delivered, SP!Handed, SP!NumCFs
  <1>6. ASSUME NEW i \in DOMAIN toB', toB'[i].msg = msg PROVE FrameNo(toB'[i]) < k + 1
    <2>1. CASE i \in DOMAIN toB
      <3>1. FrameNo(toB[i]) \in Nat /\ (toB[i].msg = msg => FrameNo(toB[i]) < k)
        BY <1>1, <2>1 DEF VerdictInv, JointInv, Joint, FramesInv, Carried
      <3>2. toB'[i] = toB[i]
        BY <1>3, <2>1, Zenon
      <3> QED
        BY <1>1, <1>6, <3>1, <3>2
    <2>2. CASE i \notin DOMAIN toB
      <3>1. toB'[i] = f
        <4> PICK n : n = Len(toB)
          BY Zenon
        <4>1. n \in Nat /\ i \notin 1..n /\ i \in 1..Len(toB')
          BY <1>3, <2>2, Zenon
        <4>2. Len(toB') # n
          BY <4>1
        <4>3. Len(toB') = n + 1 /\ toB'[n + 1] = f
          BY <1>3, <4>2, Zenon
        <4>4. i = n + 1
          BY <4>1, <4>3
        <4> QED
          BY <4>3, <4>4
      <3>2. FrameNo(f) < k + 1
        BY <1>1
      <3> QED
        BY <3>1, <3>2 DEF FrameNo
    <2> QED
      BY <2>1, <2>2
  <1>7. lost' = 0 => lost = 0 /\ \E i \in DOMAIN toB' : toB'[i].msg = msg
    <2>1. lost' = 0 => lost = 0 /\ lost' # lost + 1
      <3>1. lost' = lost \/ lost' = lost + 1
        BY DEF Outgoing
      <3> QED
        BY <1>4, <3>1
    <2>2. lost' = 0 => Len(toB') = Len(toB) + 1 /\ toB'[Len(toB) + 1] = f
      <3>1. CASE Len(toB') = Len(toB) + 1 /\ toB'[Len(toB) + 1] = f /\ lost' = lost
        BY <3>1
      <3>2. CASE toB' = toB /\ lost < MaxLost /\ lost' = lost + 1
        BY <2>1, <3>2
      <3> QED
        BY <1>3, <3>1, <3>2, Zenon
    <2>3. ASSUME NEW n \in Nat, NEW x, x = n + 1 PROVE n + 1 \in 1..x
      BY <2>3
    <2>4. lost' = 0 => Len(toB) + 1 \in DOMAIN toB'
      BY <1>3, <2>2, <2>3, Zenon
    <2>5. lost' = 0 => \E i \in DOMAIN toB' : toB'[i].msg = msg
      BY <1>1, <2>2, <2>4
    <2> QED
      BY <2>1, <2>5
  <1>8. NumFrames(SP!MsgLen) \in Nat
    BY JointTypes DEF JointInv
  <1>9. Delivered(msg) => k + 1 >= NumFrames(SP!MsgLen)
    BY <1>1, <1>8 DEF VerdictInv
  <1>10. k + 1 > 1 => Paired
    BY <1>1
  <1> QED
    BY <1>1, <1>2, <1>5, <1>6, <1>7, <1>9, <1>10 DEF VerdictInv, Receiving

\* B hands frame f's message to its session layer.
Gains(f) ==
  /\ Len(inbox') = Len(inbox) + 1 /\ inbox'[Len(inbox) + 1].msg = f.msg
  /\ \A i \in 1..Len(inbox) : inbox'[i] = inbox[i]

\* A delivery comes after the earlier ones.
LEMMA Appended ==
  ASSUME Typed, NEW f, NEW id, NEW n, NEW chunks, RP!cantp_received_cb(f, id, n, chunks)
  PROVE  Gains(f)
  <1> PICK d : d = [id |-> id, len |-> RP!U8(n), msg |-> f.msg, chunks |-> chunks]
    OBVIOUS
  <1>1. inbox' = Append(inbox, d) /\ d.msg = f.msg
    BY DEF RP!cantp_received_cb
  <1>2. inbox \in Seq(RP!Delivery)
    BY DEF Typed, RP!RoleTypeOK
  <1>3. inbox \in Seq(RP!Delivery \cup {d}) /\ d \in RP!Delivery \cup {d}
    BY <1>2
  <1> HIDE DEF RP!Delivery
  <1>4. /\ Len(Append(inbox, d)) = Len(inbox) + 1
        /\ \A i \in 1..Len(inbox) : Append(inbox, d)[i] = inbox[i]
        /\ Append(inbox, d)[Len(inbox) + 1] = d
    BY <1>3, AppendProperties
  <1> QED
    BY <1>1, <1>4 DEF Gains

\* B delivers when the last frame of the message comes, and then only.
LEMMA Deliveries ==
  ASSUME JointInv, NEW f, Incoming(f), RP!cantp_canrx_cb(f, "A")
  PROVE  /\ inbox' = inbox \/ (Gains(f) /\ FrameNo(f) + 1 >= NumFrames(sent[f.msg].len))
         /\ f.pci = "SF" => Gains(f)
         /\ RP!CFAccepted(f, "A") => Gains(f) \/ Receiving'
  <1> PICK l, k : l = sent[f.msg].len /\ k = FrameNo(f)
    OBVIOUS
  <1>1. /\ f = RP!Segment(f.msg, l, k) /\ l \in RP!Lengths /\ l \in Nat /\ k \in Nat
        /\ (f.pci = "CF" <=> k > 0) /\ RP!ChunkOf(f) \in RP!Chunk
        /\ f.pci = "FF" => l > RP!CANTP_SF_NUM_DATA_BYTES
    BY IncomingFrame
  <1>2. Typed
    BY DEF JointInv
  <1>3. CASE RP!rx_single_frame(f, "A")
    <2>1. f.pci = "SF" /\ Gains(f)
      BY <1>2, <1>3, Appended DEF RP!rx_single_frame
    <2>2. k = 0
      BY <1>1, <2>1
    <2>3. l <= CANTP_SF_NUM_DATA_BYTES
      <3>1. LET g == Segment(f.msg, l, k) IN
            k = 0 => g.pci = (IF l <= CANTP_SF_NUM_DATA_BYTES THEN "SF" ELSE "FF")
        BY <1>1, SegmentIs
      <3>2. f = Segment(f.msg, l, k)
        BY <1>1, SameSegments
      <3> QED
        BY <2>1, <2>2, <3>1, <3>2
    <2>4. NumFrames(l) = 1
      BY <1>1, <2>3, FramesOne
    <2> QED
      BY <2>1, <2>2, <2>4 DEF RP!CFAccepted, RP!CFExpected
  <1>4. CASE RP!CFAccepted(f, "A")
    <2> PICK m, n : m = RP!Message.len /\ n = Len(buf)
      OBVIOUS
    <2>1. RP!CFExpected(f, "A") /\ RP!InSequence(f) /\ f.pci = "CF"
      BY <1>4 DEF RP!CFAccepted, RP!CFExpected
    <2>2. /\ n \in Nat /\ n > 0 /\ n < RP!NumFrames(m) /\ buf # <<>> /\ rcvr.state = "FC_SENT"
          /\ m \in RP!Lengths /\ m \in Nat /\ rcvr.id_pair = "A"
          /\ f = RP!Segment(buf[1].msg, m, n) /\ k = n
      BY <2>1, IncomingCF
    <2>3. m = l
      BY <2>1, IncomingFrame DEF RP!Message
    <2>4. sent' = sent
      BY DEF Incoming
    <2>5. /\ RP!LastCF(m - RP!CFOffset(n)) <=> n + 1 = RP!NumFrames(m)
          /\ rcvr'.state = IF RP!LastCF(m - RP!CFOffset(n)) THEN "TX_DONE" ELSE rcvr.state
          /\ rcvr.index = RP!CFOffset(n) /\ rcvr.len = m
      <3>1. RP!RoleTypeOK /\ RP!Announced /\ RP!BufferIntact
        BY DEF JointInv, Joint, Typed
      <3> QED
        BY <1>1, <1>4, <2>2, <2>4, <3>1, ReceiverAssumptions, RP!Stored
    <2>6. CASE RP!LastCF(m - RP!CFOffset(n))
      <3>1. RP!cantp_received_cb(f, "B", rcvr.len, buf')
        BY <1>4, <2>5, <2>6 DEF RP!CFAccepted
      <3>2. Gains(f)
        BY <1>2, <3>1, Appended
      <3>3. k + 1 = NumFrames(l)
        BY <2>2, <2>3, <2>5, <2>6, SameSegments
      <3> QED
        BY <2>2, <3>2, <3>3
    <2>7. CASE ~RP!LastCF(m - RP!CFOffset(n))
      <3>1. inbox' = inbox
        BY <1>4, <2>5, <2>7 DEF RP!CFAccepted
      <3>2. rcvr'.state = "FC_SENT"
        BY <2>2, <2>5, <2>7
      <3> QED
        BY <2>1, <3>1, <3>2 DEF Receiving
    <2> QED
      BY <2>6, <2>7
  <1>5. CASE ~RP!rx_single_frame(f, "A") /\ ~RP!CFAccepted(f, "A")
    <2>1. inbox' = inbox /\ f.pci # "SF"
      BY <1>5 DEF RP!cantp_canrx_cb, RP!rcvr_rx_first_frame, RP!rcvr_rx_consecutive_frame,
         RP!FFRefused, RP!CFIgnored, RP!rvars, RP!FFRejected, RP!FFNoBuffer, RP!FFAccepted,
         RP!CFDiscarded, RP!CFExpected
    <2> QED
      BY <1>5, <2>1
  <1> QED
    BY <1>3, <1>4, <1>5

\* A frame that B takes from the bus is stored, delivered, or not of a message
\* that B receives.
LEMMA Handling ==
  ASSUME JointInv, NEW f, Incoming(f), RP!cantp_canrx_cb(f, "A")
  PROVE  /\ buf # <<>> => buf' # <<>> /\ buf'[1] = buf[1]
         /\ Receiving /\ Paired => f.pci = "CF"
         /\ \/ Receiving'
            \/ buf' = <<>>
            \/ RP!CFAccepted(f, "A")
            \/ buf' = buf /\ (rcvr' = rcvr \/ f.pci = "SF")
  <1> USE DEF JointInv, Joint
  <1>1. buf \in Seq(RP!Chunk) /\ (rcvr.state = "IDLE" => buf = <<>>)
    BY DEF Typed, RP!RoleTypeOK, RP!ControlOK
  <1>2. ASSUME Receiving, Paired PROVE f.pci = "CF"
    <2>1. Len(toB) \in Nat /\ Len(toB) >= 1 /\ f = toB[1]
      BY IncomingQueue
    <2> PICK n : n = Len(toB)
      OBVIOUS
    <2>2. n \in Nat /\ n + 1 \in 1..n + 1 /\ n + 1 \notin 1..n /\ 1 \in 1..(n + 1) - 1 /\ 1 \in 1..n
      BY <2>1
    <2>3. Due(n + 1)
      BY <1>2, <2>2 DEF Due
    <2>4. OnTrack(n + 1)
      BY <1>2, <2>2, <2>3 DEF Following, Receiving
    <2>5. Due(1)
      BY <2>2, <2>4 DEF OnTrack
    <2> QED
      BY <2>1, <2>2, <2>5 DEF Due
  <1>3. CASE RP!rx_single_frame(f, "A")
    <2>1. f.pci = "SF" /\ buf' = buf
      BY <1>3 DEF RP!rx_single_frame
    <2> QED
      BY <1>2, <2>1
  <1>4. CASE RP!FFRefused(f) \/ RP!CFIgnored(f, "A")
    <2>1. rcvr' = rcvr /\ buf' = buf
      BY <1>4 DEF RP!FFRefused, RP!CFIgnored, RP!rvars
    <2> QED
      BY <1>2, <2>1
  <1>5. CASE RP!FFRejected(f, "A") \/ RP!FFNoBuffer(f, "A")
    <2>1. rcvr.state = "IDLE" /\ buf' = buf
      BY <1>5 DEF RP!FFRejected, RP!FFNoBuffer
    <2> QED
      BY <1>1, <1>2, <2>1
  <1>6. CASE RP!FFAccepted(f, "A")
    <2>1. rcvr.state = "IDLE" /\ rcvr'.state = "FC_SENDING"
      BY <1>6 DEF RP!FFAccepted, RP!NewReception
    <2> QED
      BY <1>1, <1>2, <2>1 DEF Receiving
  <1>7. CASE RP!CFDiscarded(f, "A")
    <2>1. rcvr' = [rcvr EXCEPT !.sn = RP!NextSn(rcvr.sn)] /\ buf' = buf /\ rcvr.state = "FC_SENT"
      BY <1>7 DEF RP!CFDiscarded, RP!CFExpected
    <2>2. rcvr'.state = rcvr.state
      BY <2>1 DEF Typed, RP!RoleTypeOK
    <2> QED
      BY <1>2, <2>1, <2>2 DEF Receiving
  <1>8. CASE RP!CFAccepted(f, "A")
    <2>1. buf' = Append(buf, RP!ChunkOf(f)) /\ RP!ChunkOf(f) \in RP!Chunk
      BY <1>8, IncomingFrame DEF RP!CFAccepted
    <2> HIDE DEF JointInv, Joint
    <2>2. buf # <<>> => buf' # <<>> /\ buf'[1] = buf[1]
      BY <1>1, <2>1
    <2> QED
      BY <1>2, <1>8, <2>2
  <1> QED
    BY <1>3, <1>4, <1>5, <1>6, <1>7, <1>8
       DEF RP!cantp_canrx_cb, RP!rcvr_rx_first_frame, RP!rcvr_rx_consecutive_frame

\* A frame taken from the bus.
LEMMA VerdictReceive ==
  ASSUME JointInv, VerdictInv, NEW f, Incoming(f), RP!cantp_canrx_cb(f, "A")
  PROVE  VerdictInv'
  <1>1. /\ UNCHANGED <<msg, wire, blk, index, state, len, lost, sent>>
        /\ SP!MsgLen' = SP!MsgLen /\ SP!Handed' = SP!Handed
    <2>1. UNCHANGED A
      BY DEF Incoming
    <2>2. UNCHANGED <<msg, wire, blk, index, state, len, out>>
      BY <2>1 DEF A
    <2> QED
      BY <2>2 DEF Incoming, SP!MsgLen, SP!Handed, SP!NumCFs
  <1>2. /\ DOMAIN toB' = 1..Len(toB) - 1 /\ DOMAIN toB = 1..Len(toB) /\ f = toB[1]
        /\ 1 \in DOMAIN toB /\ Len(toB) \in Nat
        /\ \A i \in 1..Len(toB) - 1 : toB'[i] = toB[i + 1] /\ i + 1 \in DOMAIN toB
    BY IncomingQueue DEF JointInv
  <1>3. /\ f.msg \in 1..Len(sent) /\ Len(sent) = msg /\ FrameNo(f) \in Nat
        /\ (msg > 0 => sent[msg].len = SP!MsgLen) /\ msg \in Nat /\ Len(wire) \in Nat
        /\ NumFrames(SP!MsgLen) \in Nat /\ SP!MsgLen \in Nat
        /\ FrameNo(f) < NumFrames(sent[f.msg].len)
    BY IncomingFrame, JointTypes DEF JointInv, Joint, BusInv, Carried
  <1>4. /\ inbox' = inbox \/ (Gains(f) /\ FrameNo(f) + 1 >= NumFrames(sent[f.msg].len))
        /\ f.pci = "SF" => Gains(f)
        /\ RP!CFAccepted(f, "A") => Gains(f) \/ Receiving'
    BY Deliveries
  <1>5. /\ buf # <<>> => buf' # <<>> /\ buf'[1] = buf[1]
        /\ Receiving /\ Paired => f.pci = "CF"
        /\ \/ Receiving' \/ buf' = <<>> \/ RP!CFAccepted(f, "A")
           \/ buf' = buf /\ (rcvr' = rcvr \/ f.pci = "SF")
    BY Handling
  <1>6. Len(inbox) \in Nat
    BY DEF JointInv, Typed, RP!RoleTypeOK
  <1>7. /\ Delivered(msg) => Delivered(msg)'
        /\ Gains(f) /\ f.msg = msg => Delivered(msg)'
    <2> PICK n : n = Len(inbox)
      OBVIOUS
    <2>1. n \in Nat /\ 1..n \subseteq 1..n + 1 /\ n + 1 \in 1..n + 1
      BY <1>6
    <2>2. Delivered(msg) <=> \E i \in 1..n : inbox[i].msg = msg
      BY DEF Delivered
    <2>3. Delivered(msg)' <=> \E i \in 1..Len(inbox') : inbox'[i].msg = msg
      BY <1>1 DEF Delivered
    <2>4. Gains(f) => Len(inbox') = n + 1 /\ inbox'[n + 1].msg = f.msg
                      /\ \A i \in 1..n : inbox'[i] = inbox[i]
      BY DEF Gains
    <2> QED
      BY <1>4, <2>1, <2>2, <2>3, <2>4
  <1>8. ASSUME NEW i \in 1..Len(inbox'), i \notin 1..Len(inbox) \/ inbox'[i] # inbox[i]
        PROVE  inbox'[i].msg = f.msg /\ Gains(f)
    <2> PICK n : n = Len(inbox)
      OBVIOUS
    <2>1. Gains(f)
      BY <1>4, <1>8
    <2>2. Len(inbox') = n + 1 /\ inbox'[n + 1].msg = f.msg /\ \A j \in 1..n : inbox'[j] = inbox[j]
      BY <2>1 DEF Gains
    <2>3. n \in Nat /\ i \in 1..n + 1 /\ i \notin 1..n
      BY <1>6, <1>8, <2>2
    <2>4. i = n + 1
      BY <2>3
    <2> QED
      BY <2>1, <2>2, <2>4
  <1>9. \A i \in 1..Len(inbox') : inbox'[i].msg \in 1..msg
    BY <1>3, <1>8 DEF VerdictInv
  <1>10. \A i \in DOMAIN toB' : toB'[i].msg = msg => FrameNo(toB'[i]) < Len(wire)
    BY <1>2 DEF VerdictInv, FrameNo
  <1>11. Delivered(msg)' => Len(wire) >= NumFrames(SP!MsgLen)
    <2>1. ASSUME Gains(f), f.msg = msg PROVE Len(wire) >= NumFrames(SP!MsgLen)
      <3>1. FrameNo(f) < Len(wire)
        BY <1>2, <2>1 DEF VerdictInv
      <3>2. FrameNo(f) + 1 >= NumFrames(SP!MsgLen)
        <4>1. sent[f.msg].len = SP!MsgLen
          BY <1>3, <2>1
        <4>2. CASE FrameNo(f) + 1 >= NumFrames(sent[f.msg].len)
          BY <4>1, <4>2
        <4>3. CASE inbox' = inbox
          BY <1>6, <2>1, <4>3 DEF Gains
        <4> QED
          BY <1>4, <4>2, <4>3
      <3> QED
        BY <1>3, <3>1, <3>2
    <2>2. Delivered(msg)' => Delivered(msg) \/ (Gains(f) /\ f.msg = msg)
      <3>1. ASSUME NEW i \in 1..Len(inbox'), inbox'[i].msg = msg
            PROVE  Delivered(msg) \/ (Gains(f) /\ f.msg = msg)
        BY <1>8, <3>1 DEF Delivered
      <3> QED
        BY <1>1, <3>1 DEF Delivered
    <2> QED
      BY <2>1, <2>2 DEF VerdictInv
  <1>12. lost = 0 /\ Paired' => Receiving' \/ Delivered(msg)'
    <2> SUFFICES ASSUME lost = 0, Paired', ~Receiving' PROVE Delivered(msg)'
      OBVIOUS
    <2>1. CASE RP!CFAccepted(f, "A")
      <3>1. Gains(f) /\ buf # <<>> /\ f.msg = buf[1].msg
        BY <1>4, <2>1, IncomingFrame DEF RP!CFAccepted, RP!CFExpected
      <3>2. f.msg = msg
        BY <1>1, <1>5, <3>1 DEF Paired
      <3> QED
        BY <1>7, <3>1, <3>2
    <2>2. CASE buf' = buf /\ (rcvr' = rcvr \/ f.pci = "SF")
      <3>1. Paired
        BY <1>1, <2>2 DEF Paired
      <3>2. ~Receiving
        BY <1>5, <2>2, <3>1 DEF Receiving
      <3> QED
        BY <1>7, <3>1, <3>2 DEF VerdictInv
    <2> QED
      BY <1>5, <2>1, <2>2 DEF Paired
  <1>13. ASSUME lost = 0, Len(wire) > 0, SP!MsgLen <= CANTP_SF_NUM_DATA_BYTES, ~Delivered(msg)'
         PROVE  \E i \in DOMAIN toB' : toB'[i].msg = msg
    <2>1. PICK i \in DOMAIN toB : toB[i].msg = msg
      BY <1>7, <1>13 DEF VerdictInv
    <2>2. CASE i = 1
      <3>1. f.msg = msg /\ sent[f.msg].len = SP!MsgLen
        BY <1>2, <1>3, <2>1, <2>2
      <3>2. NumFrames(SP!MsgLen) = 1
        BY <1>3, <1>13, FramesOne
      <3>3. FrameNo(f) = 0
        BY <1>3, <3>1, <3>2
      <3>4. f = Segment(msg, SP!MsgLen, 0)
        BY <3>1, <3>3, IncomingFrame, SameSegments
      <3>5. f.pci = "SF"
        BY <1>3, <1>13, <3>4, SegmentIs
      <3> QED
        BY <1>4, <1>7, <1>13, <3>1, <3>5
    <2>3. CASE i # 1
      <3> PICK n : n = Len(toB)
        OBVIOUS
      <3>1. n \in Nat /\ i \in 1..n
        BY <1>2
      <3>2. i - 1 \in 1..n - 1 /\ (i - 1) + 1 = i
        BY <2>3, <3>1
      <3>3. toB'[i - 1] = toB[i]
        BY <1>2, <3>2
      <3> QED
        BY <1>2, <2>1, <3>2, <3>3
    <2> QED
      BY <2>2, <2>3
  <1>14. Len(wire) > 1 => Paired'
    BY <1>1, <1>5 DEF VerdictInv, Paired
  <1> QED
    BY <1>1, <1>9, <1>10, <1>11, <1>12, <1>13, <1>14 DEF VerdictInv, FrameNo

\* Every step.
LEMMA VerdictStep ==
  ASSUME JointInv, JointInv', VerdictInv, [Next]_vars PROVE VerdictInv'
  <1>1. SP!Handed <= NumFrames(SP!MsgLen)
    BY DEF VerdictInv
  <1>2. ASSUME NEW l \in Lens, Send(l) PROVE VerdictInv'
    <2>1. /\ SP!cantp_send_SF(l) \/ SP!cantp_send_FF(l)
          /\ UNCHANGED <<B, toB, lost>>
      BY <1>2, SenderStarts DEF Send, Others, bus
    <2> QED
      BY <2>1, VerdictStart
  <1>3. ASSUME HandOver \/ Task \/ Rx \/ Cb \/ Expire \/ GiveUp PROVE VerdictInv'
    <2>1. Alone
      BY <1>3, OwnAlone
    <2>2. SP!Handed' <= NumFrames(SP!MsgLen)
      BY <2>1, HandedAlone
    <2>3. /\ UNCHANGED <<msg, wire, toB, inbox, buf, rcvr>>
          /\ SP!MsgLen' = SP!MsgLen /\ (lost' = lost \/ lost' = lost + 1)
      BY <2>1 DEF Alone, B
    <2> QED
      BY <2>2, <2>3, VerdictSame DEF Receiving
  <1>4. ASSUME Transmit PROVE VerdictInv'
    <2>1. Outgoing
      BY <1>4, SenderDriver DEF Transmit, Outgoing, Others
    <2> QED
      BY <2>1, VerdictTransmit
  <1>5. ASSUME Receive PROVE VerdictInv'
    <2>1. Incoming(Head(toB)) /\ RP!cantp_canrx_cb(Head(toB), "A")
      BY <1>5, ReceiverHandles DEF Receive, Incoming
    <2> QED
      BY <2>1, VerdictReceive
  <1>6. ASSUME UNCHANGED <<state, len, index, out, blk, msg, wire, toB, inbox, buf>>,
               lost' = lost \/ lost' = lost + 1, Receiving => Receiving'
        PROVE  VerdictInv'
    <2>1. SP!MsgLen' = SP!MsgLen /\ SP!Handed' = SP!Handed
      BY <1>6 DEF SP!MsgLen, SP!Handed, SP!NumCFs
    <2> QED
      BY <1>1, <1>6, <2>1, VerdictSame
  <1>7. ASSUME TakeFC PROVE VerdictInv'
    <2>1. /\ UNCHANGED <<state, len, index, out, blk, msg, wire>>
          /\ UNCHANGED <<B, toB, lost>>
      BY <1>7, SenderTakesFC DEF TakeFC, Others, SP!cantp_can_rx, SP!transfer, SP!ByRx
    <2> QED
      BY <1>6, <2>1 DEF B, Receiving
  <1>8. ASSUME SendFC \/ CountBlock PROVE VerdictInv'
    <2>1. /\ UNCHANGED A /\ UNCHANGED <<toB, inbox, buf>>
          /\ lost' = lost \/ lost' = lost + 1
      BY <1>8 DEF SendFC, CountBlock, bus, Answer, R!SendCTS, R!SendWait, R!cantp_can_tx,
         R!EndBlock, R!AwaitNextCF
    <2>2. Receiving => Receiving'
      <3>1. rcvr' = rcvr \/ rcvr' = [rcvr EXCEPT !.state = "FC_SENT"]
            \/ \E n : rcvr' = [rcvr EXCEPT !.state = "FC_SENT", !.wft_cntr = n]
        BY <1>8 DEF SendFC, CountBlock, R!SendCTS, R!SendWait, R!EndBlock, R!AwaitNextCF
      <3>2. RP!RoleTypeOK
        BY DEF JointInv, Typed
      <3> QED
        BY <3>1, <3>2 DEF Receiving, RP!RoleTypeOK
    <2> QED
      BY <1>6, <2>1, <2>2 DEF A
  <1>9. ASSUME UNCHANGED vars PROVE VerdictInv'
    <2>1. UNCHANGED A /\ UNCHANGED B /\ UNCHANGED <<toB, lost>>
      BY <1>9, Unmoved DEF bus
    <2> QED
      BY <1>6, <2>1 DEF A, B, Receiving
  <1> QED
    BY <1>2, <1>3, <1>4, <1>5, <1>7, <1>8, <1>9 DEF Next

\* The two nodes at their start.
LEMMA VerdictInit == Init => VerdictInv
  <1> SUFFICES ASSUME Init PROVE VerdictInv
    OBVIOUS
  <1>1. SP!Init /\ RP!RoleInit
    BY SenderInit, ReceiverInit DEF Init
  <1>2. wire = <<>> /\ blk = 0 /\ buf = <<>> /\ inbox = <<>> /\ toB = <<>>
    BY <1>1 DEF SP!Init, RP!RoleInit, Init
  <1>3. Len(wire) = 0 /\ Len(inbox) = 0 /\ DOMAIN toB = {} /\ SP!Handed = 1
    BY <1>2 DEF SP!Handed
  <1>4. ~Delivered(msg) /\ ~Paired
    BY <1>2, <1>3 DEF Delivered, Paired
  <1>5. NumFrames(SP!MsgLen) >= 1
    <2>1. SP!MsgLen \in Nat
      BY TypedInit, JointTypes
    <2> QED
      BY <2>1, FramesOne
  <1> QED
    BY <1>3, <1>4, <1>5 DEF VerdictInv

\* Once nothing is under way and nothing was lost, B has all of A's frames.
LEMMA CaughtUp ==
  ASSUME JointInv, Paired, Receiving, lost = 0, toB = <<>>
  PROVE  Len(buf) = Len(wire) /\ Len(buf) < NumFrames(SP!MsgLen)
  <1>1. Len(toB) = 0 /\ 1 \in 1..Len(toB) + 1 /\ 1 \notin 1..Len(toB)
    OBVIOUS
  <1>2. Due(1)
    BY <1>1 DEF Due
  <1>3. Len(buf) < NumFrames(RP!Message.len) /\ OnTrack(1)
    <2>1. RP!NumFrames(RP!Message.len) = NumFrames(RP!Message.len)
      BY SameSegments
    <2> QED
      BY <1>1, <1>2, <2>1 DEF JointInv, Joint, Following, Receiving
  <1>4. RP!Message.len = SP!MsgLen
    BY Standing
  <1>5. Late(1) \in Nat
    BY <1>1, LateNat DEF JointInv, Joint
  <1>6. Late(1) = 0
    BY <1>3, <1>5 DEF OnTrack
  <1>7. Len(wire) = Len(buf) + 1 - 1
    BY <1>1, <1>3, <1>6 DEF OnTrack, Number
  <1>8. Len(buf) \in Nat
    BY JointTypes DEF JointInv
  <1> QED
    BY <1>3, <1>4, <1>7, <1>8

\* What the invariant says of the verdicts.
LEMMA EndsAgree == ASSUME JointInv, VerdictInv PROVE VerdictAgrees
  <1>1. SP!HonestResult /\ SP!NumFrames(SP!MsgLen) = NumFrames(SP!MsgLen)
    BY SameSegments DEF JointInv, SP!Stream
  <1>2. /\ Len(wire) \in Nat /\ SP!Handed \in Nat /\ SP!MsgLen \in Nat
        /\ NumFrames(SP!MsgLen) \in Nat
    BY JointTypes DEF JointInv
  <1>3. NumFrames(SP!MsgLen) >= 1 /\ (NumFrames(SP!MsgLen) = 1 <=> SP!MsgLen <= CANTP_SF_NUM_DATA_BYTES)
    BY <1>2, FramesOne
  <1>4. ASSUME result \in {"N_OK", "TX_DONE"}, lost = 0, toB = <<>> PROVE Delivered(msg)
    <2>1. Len(wire) = NumFrames(SP!MsgLen)
      BY <1>1, <1>4 DEF SP!HonestResult
    <2>2. CASE NumFrames(SP!MsgLen) = 1
      <3>1. DOMAIN toB = {}
        BY <1>4
      <3> QED
        BY <1>2, <1>3, <1>4, <2>1, <2>2, <3>1 DEF VerdictInv
    <2>3. CASE NumFrames(SP!MsgLen) # 1
      <3>1. Paired
        BY <1>2, <1>3, <2>1, <2>3 DEF VerdictInv
      <3>2. ASSUME Receiving PROVE FALSE
        <4>1. Len(buf) = Len(wire) /\ Len(buf) < NumFrames(SP!MsgLen)
          BY <1>4, <3>1, <3>2, CaughtUp
        <4> QED
          BY <1>2, <2>1, <4>1
      <3> QED
        BY <1>4, <3>1, <3>2 DEF VerdictInv
    <2> QED
      BY <2>2, <2>3
  <1>5. ASSUME result \in {"N_TIMEOUT_As", "N_TIMEOUT_Bs"} PROVE ~Delivered(msg)
    <2>1. Len(wire) < NumFrames(SP!MsgLen)
      <3>1. Len(wire) < SP!Handed \/ (Len(wire) = 1 /\ NumFrames(SP!MsgLen) > 1)
        BY <1>1, <1>5 DEF SP!HonestResult
      <3>2. SP!Handed <= NumFrames(SP!MsgLen)
        BY DEF VerdictInv
      <3>3. \A w, h, n \in Nat : (w < h \/ (w = 1 /\ n > 1)) /\ h <= n => w < n
        OBVIOUS
      <3> QED
        BY <1>2, <3>1, <3>2, <3>3
    <2> QED
      BY <1>2, <2>1 DEF VerdictInv
  <1> QED
    BY <1>4, <1>5 DEF VerdictAgrees

\* At the end of a block, nothing being under way.
LEMMA BlockEnds == ASSUME JointInv, VerdictInv PROVE BlocksAgree
  <1> SUFFICES ASSUME state = "CF_FC_WAIT", Quiet, lost = 0
               PROVE  /\ index = rcvr.index /\ rcvr.state = "FC_SENT"
                      /\ Cardinality({i \in R!SentAt(Len(buf) - 1) : flow[i].fc.fs = "CTS"}) = 1
    BY DEF BlocksAgree
  <1> PICK l : l = SP!MsgLen
    OBVIOUS
  <1>1. toB = <<>> /\ rrx = "poll"
    BY DEF Quiet
  <1>2. Full
    BY DEF JointInv, Joint, CountedInv
  <1>3. /\ Paired /\ bs > 0 /\ blk = bs /\ Len(wire) = bs + 1 /\ bs + 1 < NumFrames(l)
        /\ RP!Message.len = l
    <2>1. Paired /\ bs > 0 /\ blk = bs /\ Len(wire) = bs + 1 /\ Longer
      BY <1>2 DEF Full
    <2>2. RP!Message.len = l
      BY <2>1, Standing
    <2>3. RP!NumFrames(RP!Message.len) = NumFrames(RP!Message.len)
      BY SameSegments
    <2> QED
      BY <2>1, <2>2, <2>3 DEF Longer
  <1>4. bs \in Nat /\ l \in Nat /\ NumFrames(l) \in Nat /\ Len(buf) \in Nat
    BY JointTypes DEF JointInv
  <1>5. Receiving
    <2>1. ~(Len(wire) >= NumFrames(l))
      BY <1>3, <1>4
    <2> QED
      BY <1>3, <2>1 DEF VerdictInv
  <1>6. rcvr.state = "FC_SENT"
    BY <1>1, <1>5 DEF JointInv, Typed, RP!ControlOK, Receiving
  <1>7. Len(buf) = bs + 1
    BY <1>1, <1>3, <1>5, CaughtUp
  <1>8. index = CFOffset(bs + 1)
    <2>1. SP!Handed = 1 + blk
      BY <1>3 DEF JointInv, Joint, CountedInv
    <2>2. SP!Handed = bs + 1 /\ SP!Handed # NumFrames(l)
      BY <1>3, <1>4, <2>1
    <2>3. l = len /\ index = IF SP!Handed = SP!NumFrames(len) THEN len ELSE SP!CFOffset(SP!Handed)
      BY DEF JointInv, SP!Stream, SP!OpeningInv, SP!CountInv, SP!InCF
    <2>4. SP!NumFrames(l) = NumFrames(l) /\ SP!CFOffset(bs + 1) = CFOffset(bs + 1)
      BY SameSegments DEF SP!CFOffset, CFOffset, SP!CANTP_FF_NUM_DATA_BYTES,
         SP!CANTP_CF_NUM_DATA_BYTES, CANTP_FF_NUM_DATA_BYTES, CANTP_CF_NUM_DATA_BYTES
    <2> QED
      BY <2>2, <2>3, <2>4
  <1>9. /\ buf # <<>> /\ rcvr.len = l /\ rcvr.index = RP!CFOffset(bs + 1)
    <2>1. buf # <<>> /\ RP!BufferIntact
      BY <1>3 DEF JointInv, Joint, Paired
    <2>2. /\ rcvr.len = RP!Message.len
          /\ rcvr.index = IF Len(buf) = RP!NumFrames(RP!Message.len) THEN RP!Message.len
                          ELSE RP!CFOffset(Len(buf))
      BY <2>1 DEF RP!BufferIntact, RP!Message
    <2>3. RP!NumFrames(l) = NumFrames(l) /\ Len(buf) # NumFrames(l)
      BY <1>3, <1>4, <1>7, SameSegments
    <2> QED
      BY <1>3, <1>7, <2>1, <2>2, <2>3
  <1>10. RP!CFOffset(bs + 1) = CFOffset(bs + 1)
    BY DEF RP!CFOffset, CFOffset, RP!CANTP_FF_NUM_DATA_BYTES,
       RP!CANTP_CF_NUM_DATA_BYTES, CANTP_FF_NUM_DATA_BYTES, CANTP_CF_NUM_DATA_BYTES
  <1>11. rcvr.index # rcvr.len
    <2>1. l > RP!CANTP_SF_NUM_DATA_BYTES
      <3>1. NumFrames(l) # 1
        BY <1>3, <1>4
      <3>2. l > CANTP_SF_NUM_DATA_BYTES
        BY <1>4, <3>1, FramesOne DEF CANTP_SF_NUM_DATA_BYTES
      <3> QED
        BY <3>2 DEF CANTP_SF_NUM_DATA_BYTES, RP!CANTP_SF_NUM_DATA_BYTES
    <2>2. bs + 1 \in Nat /\ bs + 1 > 0 /\ bs + 1 < RP!NumFrames(l)
      BY <1>3, <1>4, SameSegments
    <2>3. l - RP!CFOffset(bs + 1) > 0
      BY <1>4, <2>1, <2>2, ReceiverAssumptions, RP!Progress
    <2>4. RP!CFOffset(bs + 1) \in Int
      BY <1>4 DEF RP!CFOffset, RP!CANTP_FF_NUM_DATA_BYTES, RP!CANTP_CF_NUM_DATA_BYTES
    <2> QED
      BY <1>4, <1>9, <2>3, <2>4
  <1>12. RP!InARow(bs, params.wft_num, 1)
    <2>1. RP!FlowSchedule
      BY ReceiverAssumptions, RP!FlowInvSchedules DEF JointInv, Typed
    <2>2. bs \in 0..Len(buf) - 1 /\ bs # 0 /\ bs = Len(buf) - 1
      BY <1>3, <1>4, <1>7
    <2>3. RP!EndsBlock(bs)
      <3>1. \A n \in Nat : n > 0 => n % n = 0
        OBVIOUS
      <3> QED
        BY <1>3, <1>4, <3>1 DEF RP!EndsBlock, bs
    <2> QED
      BY <1>1, <1>11, <2>1, <2>2, <2>3 DEF RP!FlowSchedule
  <1>13. params.wft_num \in Nat
    BY ReceiverAssumptions, RP!ParamsTypes DEF JointInv, Typed, RP!RoleTypeOK
  <1>14. PICK b \in 0..Len(flow) :
           /\ RP!SentAt(bs) = b + 1..b + params.wft_num + 1
           /\ \A i \in RP!SentAt(bs) :
                flow[i].fc.fs = IF i <= b + params.wft_num THEN "WAIT" ELSE "CTS"
    BY <1>12 DEF RP!InARow
  <1>15. {i \in RP!SentAt(bs) : flow[i].fc.fs = "CTS"} = {b + params.wft_num + 1}
    <2> PICK n : n = b + params.wft_num
      OBVIOUS
    <2>1. n \in Nat /\ b \in Nat /\ b <= n
      BY <1>13
    <2>2. n + 1 \in b + 1..n + 1 /\ \A i \in b + 1..n + 1 : ~(i <= n) <=> i = n + 1
      BY <2>1
    <2> QED
      BY <1>14, <2>2
  <1>16. R!SentAt(Len(buf) - 1) = RP!SentAt(bs)
    <2>1. Len(buf) - 1 = bs
      BY <1>4, <1>7
    <2> QED
      BY <2>1 DEF R!SentAt, RP!SentAt
  <1>17. Cardinality({b + params.wft_num + 1}) = 1
    BY FS_Singleton
  <1> QED
    BY <1>6, <1>8, <1>9, <1>10, <1>15, <1>16, <1>17

\* Both invariants hold throughout.
LEMMA VerdictAlways ==
  ASSUME MaxLost < 16 PROVE Spec => [](JointInv /\ VerdictInv)
  <1>1. Init => JointInv /\ VerdictInv
    BY JointInit, VerdictInit
  <1>2. JointInv /\ VerdictInv /\ [Next]_vars => (JointInv /\ VerdictInv)'
    BY JointStep, VerdictStep
  <1> QED
    BY <1>1, <1>2, PTL DEF Spec

\* Both nodes agree on how a message ended (cantp_cantx_confirm_cb and
\* cantp_sndr_timer_cb on one, rcvr_rx_consecutive_frame on the other): sent means
\* delivered, if nothing was lost, and failed means not delivered, whatever was.
THEOREM Concord == ASSUME MaxLost < 16 PROVE Spec => []VerdictAgrees
  <1>1. JointInv /\ VerdictInv => VerdictAgrees
    BY EndsAgree
  <1> QED
    BY <1>1, VerdictAlways, PTL

\* Where A stops for Flow Control, B has taken exactly the frames A sent, and has
\* offered the next block once (the two block counts of can-tp.c agree).
THEOREM Lockstep == ASSUME MaxLost < 16 PROVE Spec => []BlocksAgree
  <1>1. JointInv /\ VerdictInv => BlocksAgree
    BY BlockEnds
  <1> QED
    BY <1>1, VerdictAlways, PTL

----------------------------------------------------------------------------
(* The pace A keeps.  A separation time beyond the range of STmin makes    *)
(* B's blocks of one frame; A does not go on after the first of them,      *)
(* which follows B's answer to the First Frame.                            *)

\* A has transmitted no Consecutive Frame that it has not counted.
WireCounted == Len(wire) <= 1 + blk

LEMMA WireStep == ASSUME JointInv, WireCounted, [Next]_vars PROVE WireCounted'
  <1>1. Len(wire) \in Nat /\ blk \in Nat /\ Len(wire) <= 1 + blk
    BY JointTypes DEF JointInv, WireCounted
  <1>2. ASSUME NEW l \in Lens, Send(l) PROVE WireCounted'
    <2>1. SP!cantp_send_SF(l) \/ SP!cantp_send_FF(l)
      BY <1>2, SenderStarts DEF Send
    <2>2. wire' = <<>> /\ blk' = 0
      BY <2>1, LensAre, StartsFrom DEF SP!cantp_send_SF, SP!cantp_send_FF, SP!StartMessage
    <2>3. Len(wire') = 0
      BY <2>2
    <2> QED
      BY <2>2, <2>3 DEF WireCounted
  <1>3. ASSUME HandOver \/ Task \/ Rx \/ Cb \/ Expire \/ GiveUp PROVE WireCounted'
    <2>1. SP!Seen /\ wire' = wire
      BY <1>3, OwnAlone DEF Alone
    <2>2. SP!FFConfirmed => blk = 0
      BY Standing DEF SP!FFConfirmed
    <2>3. SP!FirstComposed => blk = 0
      BY Standing DEF SP!FirstComposed
    <2>4. blk' = blk \/ blk' = blk + 1
      BY <1>1, <2>1, <2>2, <2>3 DEF SP!Seen, SP!Unseen, SP!Refused, SP!FFConfirmed, SP!Ended,
         SP!Continued, SP!BlockEnded, SP!NextComposed, SP!FirstComposed
    <2> QED
      BY <1>1, <2>1, <2>4 DEF WireCounted
  <1>4. ASSUME Transmit PROVE WireCounted'
    <2>1. SP!DrvTransmit
      BY <1>4, SenderDriver DEF Transmit
    <2>2. PICK k : k = Len(wire)
      OBVIOUS
    <2>3. Len(wire') = k + 1 /\ blk' = blk /\ (k > 0 => blk = k)
      BY <2>1, <2>2, Upcoming
    <2> QED
      BY <1>1, <2>2, <2>3 DEF WireCounted
  <1>5. ASSUME UNCHANGED <<wire, blk>> PROVE WireCounted'
    BY <1>5 DEF WireCounted
  <1>6. ASSUME TakeFC PROVE WireCounted'
    <2>1. UNCHANGED <<wire, blk>>
      BY <1>6, SenderTakesFC DEF TakeFC, SP!cantp_can_rx, SP!transfer, SP!ByRx
    <2> QED
      BY <1>5, <2>1
  <1>7. ASSUME Receive \/ SendFC \/ CountBlock \/ UNCHANGED vars PROVE WireCounted'
    <2>1. UNCHANGED A
      BY <1>7, Unmoved DEF Receive, SendFC, CountBlock
    <2> QED
      BY <1>5, <2>1 DEF A
  <1> QED
    BY <1>2, <1>3, <1>4, <1>6, <1>7 DEF Next

\* B has answered the First Frame of a message when A sends more of it.
LEMMA OpeningReleased ==
  ASSUME JointInv, VerdictInv, Len(wire) > 1
  PROVE  \E i \in R!SentAt(0) : flow[i].fc.fs = "CTS"
  <1>1. Paired /\ buf # <<>>
    BY DEF VerdictInv, Paired
  <1>2. rrx # "fc"
    <2>1. Len(wire) # 1
      <3>1. \A n \in Nat : n > 1 => n # 1
        OBVIOUS
      <3>2. Len(wire) \in Nat
        BY JointTypes DEF JointInv
      <3> QED
        BY <3>1, <3>2
    <2>2. rrx = "fc" => Opening
      BY DEF JointInv, Joint, Exchange
    <2> QED
      BY <2>1, <2>2 DEF Opening
  <1>3. /\ RP!SentBefore /\ RP!Sending
        /\ rrx \in {"poll", "fc", "wait", "block", "block_fc"}
        /\ flow \in Seq(RP!FlowSent) /\ buf \in Seq(RP!Chunk)
    BY <1>1 DEF JointInv, Typed, RP!FlowInv, RP!RoleTypeOK
  <1>4. Len(flow) \in Nat /\ DOMAIN flow = 1..Len(flow) /\ Len(buf) \in Nat
    BY <1>3, LenProperties
  <1>5. R!SentAt(0) = RP!SentAt(0)
    BY DEF R!SentAt, RP!SentAt
  <1>6. ASSUME RP!Accepted > 0 PROVE \E i \in RP!SentAt(0) : flow[i].fc.fs = "CTS"
    <2>1. PICK b \in 0..Len(flow) :
            /\ RP!SentAt(0) = b + 1..b + 0 + 1
            /\ \A i \in RP!SentAt(0) : flow[i].fc.fs = IF i <= b + 0 THEN "WAIT" ELSE "CTS"
      BY <1>3, <1>6 DEF RP!SentBefore, RP!InARow
    <2>2. b \in Nat /\ b + 1 \in b + 1..b + 0 + 1 /\ ~(b + 1 <= b + 0)
      BY <1>4
    <2> QED
      BY <2>1, <2>2
  <1>7. ASSUME RP!Accepted = 0 PROVE \E i \in RP!SentAt(0) : flow[i].fc.fs = "CTS"
    <2>1. rrx = "poll"
      BY <1>2, <1>3, <1>7 DEF RP!Sending
    <2>2. RP!LastSent(0, 1)
      BY <1>3, <1>7, <2>1 DEF RP!Sending
    <2>3. PICK n \in Nat : n = Len(flow)
      BY <1>4
    <2>4. /\ 0 + 1 <= n /\ RP!SentAt(0) = n - (0 + 1) + 1..n
          /\ \A i \in RP!SentAt(0) : flow[i].fc.fs = IF i <= n - 1 THEN "WAIT" ELSE "CTS"
      BY <1>7, <2>2, <2>3 DEF RP!LastSent
    <2>5. n \in n - (0 + 1) + 1..n /\ ~(n <= n - 1)
      BY <2>4
    <2> QED
      BY <2>4, <2>5
  <1>8. RP!Accepted > 0 \/ RP!Accepted = 0
    <2>1. PICK n \in Nat : n = Len(buf)
      BY <1>4
    <2>2. n # 0
      BY <1>1, <1>3, <2>1, EmptySeq
    <2>3. RP!Accepted = n - 1
      BY <2>1 DEF RP!Accepted
    <2> QED
      BY <2>2, <2>3
  <1> QED
    BY <1>5, <1>6, <1>7, <1>8

\* The separation time that B was asked for is the pace A keeps, for every request
\* that the STmin byte can express or that needs FC.WAIT frames
\* (cantp_rcvr_params_init, the Flow Control frames B composes,
\* sndr_rx_flow_control_frame and the block count of cantp_cantx_confirm_cb).
THEOREM Pacing ==
  ASSUME MaxLost < 16, \A q \in Requests : P!Accepted(q) => Expressible(q)
  PROVE  Spec => []PaceHonoured
  <1> DEFINE Inv == Typed /\ PaceInv /\ WireCounted
  <1>1. Init => Inv
    <2> SUFFICES ASSUME Init PROVE Inv
      OBVIOUS
    <2>1. /\ request \in Requests /\ P!Accepted(request) /\ toA = <<>>
          /\ params = P!cantp_rcvr_params_init(request)
          /\ SP!Init
      BY SenderInit DEF Init
    <2>2. DOMAIN toA = {}
      BY <2>1
    <2>3. wire = <<>> /\ blk = 0
      BY <2>1 DEF SP!Init
    <2>4. WireCounted
      BY <2>3 DEF WireCounted
    <2> QED
      BY <2>1, <2>2, <2>4, TypedInit DEF PaceInv, SP!Init, SP!InCF
  <1>2. Inv /\ JointInv /\ [Next]_vars => Inv'
    BY TypedStep, PaceStep, WireStep
  <1>3. Inv /\ JointInv /\ VerdictInv => PaceHonoured
    <2> SUFFICES ASSUME Inv, JointInv, VerdictInv PROVE PaceHonoured
      OBVIOUS
    <2>1. /\ request \in Requests /\ P!Accepted(request) /\ Expressible(request)
          /\ params = P!cantp_rcvr_params_init(request)
      BY DEF PaceInv
    <2>2. /\ PP!Accepted(request) /\ request \in PP!Request
          /\ PP!NeedsWait(request) = P!NeedsWait(request)
          /\ PP!cantp_rcvr_params_init(request) = params
      BY <2>1, ParamsOf
    <2>3. CASE P!NeedsWait(request)
      <3>1. bs = 1
        BY <2>1, <2>3 DEF bs, P!cantp_rcvr_params_init
      <3>2. Len(wire) \in Nat /\ blk \in Nat
        BY JointTypes
      <3>3. blk > 0 => blk <= 1
        BY <3>1 DEF JointInv, Joint, CountedInv
      <3>4. Len(wire) <= 2
        BY <3>2, <3>3 DEF WireCounted
      <3>5. \A k \in 0..Len(wire) - 2 : k = 0 /\ Len(wire) > 1
        BY <3>2, <3>4
      <3> QED
        BY <2>3, <3>5, OpeningReleased DEF PaceHonoured
    <2>4. CASE ~P!NeedsWait(request)
      <3>1. params.st_min = PP!STminByte(request)
        BY <2>2, <2>4 DEF PP!cantp_rcvr_params_init
      <3>2. /\ PP!StDecode(params.st_min) <= request.st_min_us
            /\ request.st_min_us < PP!StDecode(params.st_min)
                                     + (IF request.st_min_us < 1000 THEN 100 ELSE 1000)
        BY <2>1, <2>2, <2>4, <3>1, PP!PaceTold DEF Expressible
      <3>3. task = "stmin" => st_tim_us = PP!StDecode(params.st_min)
        BY <2>4 DEF PaceInv, PP!StDecode, StDecode
      <3> QED
        BY <2>4, <3>2, <3>3 DEF PaceHonoured
    <2> QED
      BY <2>3, <2>4
  <1> HIDE DEF Inv
  <1> QED
    BY <1>1, <1>2, <1>3, VerdictAlways, PTL DEF Spec

----------------------------------------------------------------------------
(* The service that the two nodes are to their session layers.              *)

\* Messages come to B in the order of their numbers, and each one's frames in theirs.
OrderInv ==
  /\ \A i, j \in DOMAIN toB : i < j =>
       \/ toB[i].msg < toB[j].msg
       \/ toB[i].msg = toB[j].msg /\ FrameNo(toB[i]) < FrameNo(toB[j])
  /\ \A i \in 1..Len(inbox), j \in DOMAIN toB : inbox[i].msg < toB[j].msg

\* A frame that comes onto the bus is later than all before it.
LEMMA OrderTransmit ==
  ASSUME JointInv, VerdictInv, OrderInv, Outgoing PROVE OrderInv'
  <1> PICK k, f, n : k = Len(wire) /\ f = Head(txq) /\ n = Len(toB)
    OBVIOUS
  <1>1. k \in Nat /\ f.msg = msg /\ FrameNo(f) = k /\ k < NumFrames(SP!MsgLen)
        /\ NumFrames(SP!MsgLen) \in Nat /\ msg \in Nat
    <2>1. SP!Handed <= NumFrames(SP!MsgLen)
      BY DEF VerdictInv
    <2> QED
      BY <2>1, Upcoming, JointTypes DEF Outgoing, JointInv
  <1>2. inbox' = inbox
    BY DEF Outgoing, B
  <1>3. /\ n \in Nat /\ DOMAIN toB = 1..n /\ DOMAIN toB' = 1..Len(toB')
        /\ \A i \in 1..n : toB'[i] = toB[i]
        /\ (Len(toB') = n + 1 /\ toB'[n + 1] = f) \/ toB' = toB
    BY OutgoingQueue, Zenon
  <1>11. n \in Nat /\ \A i \in 1..n + 1 : i \in 1..n \/ i = n + 1
    <2>1. n \in Nat
      BY <1>3
    <2> QED
      BY <2>1
  <1>4. ASSUME NEW i \in 1..n
        PROVE  /\ toB[i].msg \in Nat /\ toB[i].msg <= msg /\ FrameNo(toB[i]) \in Nat
               /\ toB[i].msg = msg => FrameNo(toB[i]) < k
    <2>1. Carried(toB[i]) /\ (toB[i].msg = msg => FrameNo(toB[i]) < k)
      BY <1>3 DEF VerdictInv, JointInv, Joint, FramesInv
    <2>2. toB[i].msg \in 1..msg /\ FrameNo(toB[i]) \in Nat
      BY <2>1 DEF Carried
    <2> QED
      BY <1>1, <2>1, <2>2
  <1>5. ASSUME NEW i \in 1..Len(inbox) PROVE inbox[i].msg \in 1..msg /\ inbox[i].msg # msg
    <2>1. inbox[i].msg \in 1..msg
      BY DEF VerdictInv
    <2>2. ~Delivered(msg)
      BY <1>1 DEF VerdictInv
    <2> QED
      BY <2>1, <2>2 DEF Delivered
  <1>6. CASE toB' = toB
    BY <1>2, <1>6 DEF OrderInv, FrameNo
  <1>8. \A i, j \in 1..n : i < j =>
          \/ toB[i].msg < toB[j].msg
          \/ toB[i].msg = toB[j].msg /\ FrameNo(toB[i]) < FrameNo(toB[j])
    BY <1>3, Zenon DEF OrderInv
  <1>9. \A i \in 1..Len(inbox), j \in 1..n : inbox[i].msg < toB[j].msg
    BY <1>3, Zenon DEF OrderInv
  <1>7. CASE Len(toB') = n + 1 /\ toB'[n + 1] = f
    <2> PICK q : q = toB'
      OBVIOUS
    <2>1. DOMAIN q = 1..n + 1 /\ q[n + 1] = f /\ \A i \in 1..n : q[i] = toB[i]
      BY <1>3, <1>7
    <2>2. ASSUME NEW i \in 1..n + 1, NEW j \in 1..n + 1, i < j
          PROVE  \/ q[i].msg < q[j].msg
                 \/ q[i].msg = q[j].msg /\ FrameNo(q[i]) < FrameNo(q[j])
      <3>1. i \in 1..n /\ (j \in 1..n \/ j = n + 1)
        BY <1>11, <2>2
      <3>2. CASE j \in 1..n
        <4>1. q[i] = toB[i] /\ q[j] = toB[j]
          BY <2>1, <3>1, <3>2
        <4> QED
          BY <1>8, <2>2, <3>1, <3>2, <4>1
      <3>3. CASE j = n + 1
        <4>1. toB[i].msg < f.msg \/ (toB[i].msg = f.msg /\ FrameNo(toB[i]) < FrameNo(f))
          BY <1>1, <1>4, <3>1
        <4>2. q[i] = toB[i] /\ q[j] = f
          BY <2>1, <3>1, <3>3
        <4> QED
          BY <4>1, <4>2
      <3> QED
        BY <3>1, <3>2, <3>3
    <2>3. ASSUME NEW i \in 1..Len(inbox), NEW j \in 1..n + 1 PROVE inbox[i].msg < q[j].msg
      <3>1. CASE j \in 1..n
        BY <1>9, <2>1, <3>1
      <3>2. CASE j = n + 1
        <4>1. inbox[i].msg < msg
          BY <1>1, <1>5
        <4> QED
          BY <1>1, <2>1, <3>2, <4>1
      <3> QED
        BY <1>11, <3>1, <3>2
    <2> QED
      BY <1>2, <2>1, <2>2, <2>3 DEF OrderInv, FrameNo
  <1> QED
    BY <1>3, <1>6, <1>7

\* B delivers a message when its last frame comes, so no other of it is on its way.
LEMMA OrderReceive ==
  ASSUME JointInv, OrderInv, NEW f, Incoming(f), RP!cantp_canrx_cb(f, "A")
  PROVE  /\ OrderInv'
         /\ \A i \in 1..Len(inbox) : inbox[i].msg < f.msg
  <1> PICK n, m, q : n = Len(toB) /\ m = Len(inbox) /\ q = toB'
    OBVIOUS
  <1>1. /\ n \in Nat /\ DOMAIN toB = 1..n /\ DOMAIN q = 1..n - 1 /\ f = toB[1]
        /\ 1 \in 1..n
        /\ \A i \in 1..n - 1 : q[i] = toB[i + 1] /\ i + 1 \in 1..n
    BY IncomingQueue DEF JointInv
  <1>12. DOMAIN toB' = 1..n - 1
    BY IncomingQueue DEF JointInv
  <1>2. m \in Nat
    BY DEF JointInv, Typed, RP!RoleTypeOK
  <1>3. inbox' = inbox \/ (Gains(f) /\ FrameNo(f) + 1 >= NumFrames(sent[f.msg].len))
    BY Deliveries
  <1>10. /\ \A i, j \in 1..n : i < j =>
               \/ toB[i].msg < toB[j].msg
               \/ toB[i].msg = toB[j].msg /\ FrameNo(toB[i]) < FrameNo(toB[j])
         /\ \A i \in 1..m, j \in 1..n : inbox[i].msg < toB[j].msg
    BY <1>1, Zenon DEF OrderInv
  <1>4. ASSUME NEW i \in 1..n
        PROVE  /\ toB[i].msg \in Nat /\ FrameNo(toB[i]) \in Nat
               /\ NumFrames(sent[toB[i].msg].len) \in Nat
               /\ FrameNo(toB[i]) < NumFrames(sent[toB[i].msg].len)
    <2>1. Carried(toB[i])
      BY <1>1 DEF JointInv, Joint, FramesInv
    <2>2. toB[i].msg \in 1..msg /\ msg \in Nat
      BY <2>1, JointTypes DEF Carried, JointInv
    <2>3. sent \in Seq([id : {"A"}, len : Lens]) /\ Len(sent) = msg
      BY DEF JointInv, Joint, BusInv
    <2>4. sent[toB[i].msg].len \in Lens
      <3>1. sent[toB[i].msg] \in [id : {"A"}, len : Lens]
        BY <2>2, <2>3, ElementOfSeq
      <3> QED
        BY <3>1
    <2>5. NumFrames(sent[toB[i].msg].len) \in Nat
      <3>1. \A l \in Lens : l \in Nat
        BY LensAre
      <3> QED
        BY <2>4, <3>1, FramesOne
    <2> QED
      BY <2>1, <2>2, <2>5 DEF Carried
  <1>5. ASSUME NEW i \in 1..n - 1, NEW j \in 1..n - 1, i < j
        PROVE  \/ q[i].msg < q[j].msg
               \/ q[i].msg = q[j].msg /\ FrameNo(q[i]) < FrameNo(q[j])
    <2>1. i + 1 \in 1..n /\ j + 1 \in 1..n /\ i + 1 < j + 1
      BY <1>1, <1>5
    <2>2. q[i] = toB[i + 1] /\ q[j] = toB[j + 1]
      BY <1>1
    <2> QED
      BY <1>10, <2>1, <2>2
  <1>6. \A i \in 1..m : inbox[i].msg < f.msg
    BY <1>1, <1>10
  <1>7. ASSUME NEW i \in 1..m, NEW j \in 1..n - 1 PROVE inbox[i].msg < q[j].msg
    BY <1>1, <1>10
  <1>8. ASSUME NEW j \in 1..n - 1, FrameNo(f) + 1 >= NumFrames(sent[f.msg].len)
        PROVE  f.msg < q[j].msg
    <2>1. j + 1 \in 1..n /\ 1 < j + 1 /\ q[j] = toB[j + 1]
      BY <1>1
    <2>2. f.msg < q[j].msg \/ (f.msg = q[j].msg /\ FrameNo(f) < FrameNo(q[j]))
      BY <1>1, <1>10, <2>1
    <2>3. FrameNo(q[j]) \in Nat /\ FrameNo(q[j]) < NumFrames(sent[q[j].msg].len)
          /\ NumFrames(sent[q[j].msg].len) \in Nat /\ FrameNo(f) \in Nat
      BY <1>1, <1>4, <2>1
    <2>4. f.msg = q[j].msg => ~(FrameNo(f) < FrameNo(q[j]))
      BY <1>8, <2>3
    <2> QED
      BY <2>2, <2>4
  <1>9. ASSUME NEW i \in 1..Len(inbox'), NEW j \in 1..n - 1 PROVE inbox'[i].msg < q[j].msg
    <2>1. CASE inbox' = inbox
      BY <1>7, <2>1
    <2>2. CASE Gains(f) /\ FrameNo(f) + 1 >= NumFrames(sent[f.msg].len)
      <3>1. /\ Len(inbox') = m + 1 /\ inbox'[m + 1].msg = f.msg
            /\ \A l \in 1..m : inbox'[l] = inbox[l]
        BY <2>2 DEF Gains
      <3>2. i \in 1..m \/ i = m + 1
        BY <1>2, <3>1
      <3> QED
        BY <1>7, <1>8, <2>2, <3>1, <3>2
    <2> QED
      BY <1>3, <2>1, <2>2
  <1>11. OrderInv'
    <2>1. /\ \A i, j \in DOMAIN q : i < j =>
               \/ q[i].msg < q[j].msg
               \/ q[i].msg = q[j].msg /\ FrameNo(q[i]) < FrameNo(q[j])
          /\ \A i \in 1..Len(inbox'), j \in DOMAIN q : inbox'[i].msg < q[j].msg
      <3> DOMAIN q = 1..n - 1
        BY <1>1
      <3> QED
        BY <1>5, <1>9
    <2> QED
      BY <2>1 DEF OrderInv, FrameNo
  <1> QED
    BY <1>6, <1>11

\* Every step.
LEMMA OrderStep == ASSUME JointInv, VerdictInv, OrderInv, [Next]_vars PROVE OrderInv'
  <1>1. ASSUME Transmit PROVE OrderInv'
    <2>1. Outgoing
      BY <1>1, SenderDriver DEF Transmit, Outgoing, Others
    <2> QED
      BY <2>1, OrderTransmit
  <1>2. ASSUME Receive PROVE OrderInv'
    <2>1. Incoming(Head(toB)) /\ RP!cantp_canrx_cb(Head(toB), "A")
      BY <1>2, ReceiverHandles DEF Receive, Incoming
    <2> QED
      BY <2>1, OrderReceive
  <1>3. ASSUME ~Transmit, ~Receive PROVE UNCHANGED <<toB, inbox>>
    <2>1. ASSUME NEW l \in Lens, Send(l) PROVE UNCHANGED <<toB, inbox>>
      BY <2>1 DEF Send, Others, bus, B
    <2>2. CASE HandOver \/ Task \/ Rx \/ Cb \/ Expire
      BY <2>2 DEF HandOver, Task, Rx, Cb, Expire, Others, bus, B
    <2>3. CASE GiveUp \/ TakeFC
      BY <2>3 DEF GiveUp, TakeFC, Others, B
    <2>4. CASE SendFC \/ CountBlock
      BY <2>4 DEF SendFC, CountBlock, bus, R!SendCTS, R!SendWait, R!cantp_can_tx, R!EndBlock,
         R!AwaitNextCF
    <2>5. CASE UNCHANGED vars
      BY <2>5, Unmoved DEF bus, B
    <2> QED
      BY <1>3, <2>1, <2>2, <2>3, <2>4, <2>5 DEF Next
  <1>4. ASSUME UNCHANGED <<toB, inbox>> PROVE OrderInv'
    BY <1>4 DEF OrderInv, FrameNo
  <1> QED
    BY <1>1, <1>2, <1>3, <1>4

\* A function on 1..n is a sequence.
LEMMA FunctionsAreSeqs ==
  ASSUME NEW n \in Nat, NEW s \in [1..n -> Nat] PROVE s \in Seq(Nat) /\ Len(s) = n
  <1>1. s \in Seq(Nat)
    BY SeqDef
  <1>2. Len(s) \in Nat /\ DOMAIN s = 1..Len(s)
    BY <1>1, LenProperties
  <1>3. 1..Len(s) = 1..n
    BY <1>2
  <1>4. Len(s) = n
    <2> PICK k : k = Len(s)
      OBVIOUS
    <2>1. k \in Nat /\ 1..k = 1..n
      BY <1>2, <1>3
    <2>2. k \in 1..k \/ k = 0
      BY <2>1
    <2>3. n \in 1..n \/ n = 0
      OBVIOUS
    <2> QED
      BY <2>1, <2>2, <2>3
  <1> QED
    BY <1>1, <1>4

\* A sequence that goes on after another appends to it.
LEMMA OneMore ==
  ASSUME NEW n \in Nat, NEW s \in Seq(Nat), Len(s) = n,
         NEW t \in Seq(Nat), Len(t) = n + 1, \A i \in 1..n : t[i] = s[i]
  PROVE  t = Append(s, t[n + 1])
  <1>1. n + 1 \in 1..n + 1
    OBVIOUS
  <1>2. t[n + 1] \in Nat
    BY <1>1, ElementOfSeq
  <1> PICK u : u = Append(s, t[n + 1])
    OBVIOUS
  <1>3. /\ u \in Seq(Nat) /\ Len(u) = n + 1 /\ u[n + 1] = t[n + 1]
        /\ \A i \in 1..n : u[i] = s[i]
    BY <1>2, AppendProperties
  <1>4. \A i \in 1..n + 1 : i \in 1..n \/ i = n + 1
    OBVIOUS
  <1>5. \A i \in 1..n + 1 : t[i] = u[i]
    BY <1>3, <1>4
  <1>6. t = u
    BY <1>3, <1>5, SeqEqual
  <1> QED
    BY <1>6

\* What the service does not see.
LEMMA ServiceSame ==
  ASSUME UNCHANGED <<msg, owed, result, inbox>> PROVE UNCHANGED Service!mvars
  BY DEF Service!mvars

\* A message accepted.
LEMMA AcceptMapped ==
  ASSUME JointInv, NEW l \in Lens, SP!cantp_send_SF(l) \/ SP!cantp_send_FF(l), inbox' = inbox
  PROVE  Service!Next
  <1>1. owed = 0 /\ owed' = owed + 1 /\ msg' = msg + 1 /\ result' = "none"
    BY DEF SP!cantp_send_SF, SP!cantp_send_FF, SP!StartMessage
  <1>2. owed' = 1
    BY <1>1
  <1> QED
    BY <1>1, <1>2 DEF Service!Next, Service!Accept

\* What A's own steps tell its session layer.
LEMMA Concludes ==
  ASSUME JointInv, HandOver \/ Task \/ Rx \/ Cb \/ Expire \/ GiveUp
  PROVE  \/ UNCHANGED <<owed, result>>
         \/ /\ owed = 1 /\ owed' = 0
            /\ result' \in {"N_OK", "TX_DONE", "N_TIMEOUT_As", "N_TIMEOUT_Bs"}
  <1>1. /\ SP!ThreadsInv /\ owed = IF state = "IDLE" THEN 0 ELSE 1
    BY DEF JointInv, Typed, SP!IInv, SP!Safe, SP!OneConclusion
  <1>2. ASSUME state # "IDLE", owed' = owed - 1 PROVE owed = 1 /\ owed' = 0
    BY <1>1, <1>2
  <1>3. CASE HandOver \/ Rx \/ Expire \/ GiveUp
    BY <1>3 DEF HandOver, Rx, Expire, GiveUp, S!cantp_send_tx, S!cantp_can_tx_nb, S!history,
       S!RxStep, S!FCCheck, S!FCWake, S!FCWaitTimeout, S!FCRecheck,
       S!sndr_rx_flow_control_frame, S!FirstCF_tx, S!ByRx, S!TimerExpire, S!DrvDrop
  <1>4. CASE Cb
    <2>1. CASE S!TimerCbRead
      BY <2>1 DEF S!TimerCbRead
    <2>2. CASE S!TimerCbReport
      <3>1. cb \in {"N_TIMEOUT_As", "N_TIMEOUT_Bs"} /\ owed' = owed - 1 /\ result' = cb
        BY <2>2 DEF S!TimerCbReport, S!Conclude
      <3>2. state # "IDLE"
        BY <1>1, <3>1 DEF SP!ThreadsInv, SP!Sending
      <3> QED
        BY <1>2, <3>1, <3>2
    <2> QED
      BY <1>4, <2>1, <2>2 DEF Cb, S!CbStep
  <1>5. CASE Task
    <2>1. CASE S!ConfirmSF \/ S!ConfirmCF
      <3>1. CASE UNCHANGED <<owed, result>>
        BY <3>1
      <3>2. CASE ~UNCHANGED <<owed, result>>
        <4>1. /\ task \in {"sf_done", "cf_done"} /\ owed' = owed - 1
              /\ result' \in {"N_OK", "TX_DONE"}
          BY <2>1, <3>2 DEF S!ConfirmSF, S!ConfirmCF, S!ConfirmLastCF, S!ConfirmPastEnd,
             S!ConfirmBlockEnd, S!ConfirmMore, S!Conclude
        <4>2. state # "IDLE"
          BY <1>1, <4>1 DEF SP!ThreadsInv
        <4> QED
          BY <1>2, <4>1, <4>2
      <3> QED
        BY <3>1, <3>2
    <2>2. CASE ~(S!ConfirmSF \/ S!ConfirmCF)
      BY <1>5, <2>2 DEF Task, S!TaskStep, S!TaskPoll, S!TaskWake, S!TaskTxDone,
         S!TaskTxTimeout, S!ConfirmRead, S!ConfirmFF, S!NextCF, S!NextCF_tx,
         S!cantp_can_tx_nb, S!history
    <2> QED
      BY <2>1, <2>2
  <1> QED
    BY <1>3, <1>4, <1>5

\* The messages that B has delivered have numbers.
LEMMA Deliverables ==
  ASSUME JointInv PROVE Len(inbox) \in Nat /\ \A i \in 1..Len(inbox) : inbox[i].msg \in Nat
  <1>1. inbox \in Seq(RP!Delivery)
    BY DEF JointInv, Typed, RP!RoleTypeOK
  <1>2. \A d \in RP!Delivery : d.msg \in Nat
    BY DEF RP!Delivery
  <1> HIDE DEF RP!Delivery
  <1>3. Len(inbox) \in Nat /\ \A i \in 1..Len(inbox) : inbox[i] \in RP!Delivery
    BY <1>1, LenProperties, ElementOfSeq
  <1> QED
    BY <1>2, <1>3

\* A verdict of A's is the service's, and a failure is of a message not delivered.
LEMMA ConclusionMapped ==
  ASSUME JointInv, VerdictAgrees', HandOver \/ Task \/ Rx \/ Cb \/ Expire \/ GiveUp
  PROVE  [Service!Next]_(Service!mvars)
  <1>1. msg' = msg /\ inbox' = inbox
    BY OwnAlone DEF Alone, B
  <1>2. CASE UNCHANGED <<owed, result>>
    BY <1>1, <1>2, ServiceSame
  <1>3. CASE owed = 1 /\ owed' = 0 /\ result' \in {"N_OK", "TX_DONE"}
    <2>1. Service!Confirm
      BY <1>1, <1>3 DEF Service!Confirm
    <2> QED
      BY <2>1 DEF Service!Next
  <1>4. CASE owed = 1 /\ owed' = 0 /\ result' \in {"N_TIMEOUT_As", "N_TIMEOUT_Bs"}
    <2>1. \A i \in 1..Len(inbox) : inbox[i].msg # msg
      BY <1>1, <1>4 DEF VerdictAgrees, Delivered
    <2>2. Service!Fail
      <3>1. Len([i \in 1..Len(inbox) |-> inbox[i].msg]) = Len(inbox)
        <4>1. Len(inbox) \in Nat /\ \A i \in 1..Len(inbox) : inbox[i].msg \in Nat
          BY Deliverables
        <4>2. [i \in 1..Len(inbox) |-> inbox[i].msg] \in [1..Len(inbox) -> Nat]
          BY <4>1
        <4> QED
          BY <4>1, <4>2, FunctionsAreSeqs
      <3> QED
        BY <1>1, <1>4, <2>1, <3>1 DEF Service!Fail
    <2> QED
      BY <2>2 DEF Service!Next
  <1> QED
    BY <1>2, <1>3, <1>4, Concludes

\* A message delivered.
LEMMA DeliveryMapped ==
  ASSUME JointInv, VerdictAgrees', OrderInv, Receive PROVE [Service!Next]_(Service!mvars)
  <1> PICK f, n : f = Head(toB) /\ n = Len(inbox)
    OBVIOUS
  <1>1. Incoming(f) /\ RP!cantp_canrx_cb(f, "A")
    BY ReceiverHandles DEF Receive, Incoming
  <1>2. UNCHANGED <<msg, owed, result>>
    BY DEF Receive, A
  <1>3. CASE inbox' = inbox
    BY <1>2, <1>3, ServiceSame
  <1>4. CASE Gains(f)
    <2>1. Len(inbox') = n + 1 /\ inbox'[n + 1].msg = f.msg /\ \A i \in 1..n : inbox'[i] = inbox[i]
      BY <1>4 DEF Gains
    <2>2. n \in Nat /\ \A i \in 1..n : inbox[i].msg \in Nat
      BY Deliverables
    <2>3. f.msg \in 1..msg /\ msg \in Nat
      BY <1>1, IncomingFrame, JointTypes DEF JointInv, Joint, BusInv, Carried
    <2>4. \A i \in 1..n : inbox[i].msg < f.msg
      BY <1>1, OrderReceive
    <2> PICK s, t : /\ s = [i \in 1..n |-> inbox[i].msg]
                    /\ t = [i \in 1..n + 1 |-> inbox'[i].msg]
      OBVIOUS
    <2>5. s \in [1..n -> Nat]
      BY <2>2
    <2>6. \A i \in 1..n + 1 : i \in 1..n \/ i = n + 1
      BY <2>2
    <2>7. /\ t \in [1..n + 1 -> Nat] /\ t[n + 1] = f.msg
          /\ \A i \in 1..n : t[i] = s[i]
      BY <2>1, <2>2, <2>3, <2>6
    <2>8. t = Append(s, f.msg) /\ Len(s) = n
      <3>1. s \in Seq(Nat) /\ Len(s) = n
        BY <2>2, <2>5, FunctionsAreSeqs
      <3>2. n \in Nat /\ n + 1 \in Nat
        BY <2>2
      <3>3. t \in Seq(Nat) /\ Len(t) = n + 1
        BY <2>7, <3>2, FunctionsAreSeqs
      <3>4. t = Append(s, t[n + 1])
        BY <2>7, <3>1, <3>2, <3>3, OneMore
      <3> QED
        BY <2>7, <3>1, <3>4
    <2>9. f.msg = msg => result \notin {"N_TIMEOUT_As", "N_TIMEOUT_Bs"}
      <3>1. f.msg = msg => Delivered(msg)'
        BY <1>2, <2>1, <2>2 DEF Delivered
      <3> QED
        BY <1>2, <3>1 DEF VerdictAgrees
    <2>10. result \in {"none", "N_OK", "N_TIMEOUT_As", "N_TIMEOUT_Bs", "TX_DONE"}
      BY JointTypes DEF JointInv, SP!TypeOK, SP!Results
    <2>11. Service!Deliver(f.msg)
      BY <1>2, <2>1, <2>4, <2>8, <2>9, <2>10 DEF Service!Deliver
    <2> QED
      BY <2>3, <2>11 DEF Service!Next
  <1> QED
    BY <1>1, <1>3, <1>4, Deliveries

\* Every step.
LEMMA ServiceStep ==
  ASSUME JointInv, VerdictAgrees', OrderInv, [Next]_vars
  PROVE  [Service!Next]_(Service!mvars)
  <1>2. ASSUME NEW l \in Lens, Send(l) PROVE Service!Next
    <2>1. (SP!cantp_send_SF(l) \/ SP!cantp_send_FF(l)) /\ inbox' = inbox
      BY <1>2, SenderStarts DEF Send, Others, B
    <2> QED
      BY <2>1, AcceptMapped
  <1>3. CASE HandOver \/ Task \/ Rx \/ Cb \/ Expire \/ GiveUp
    BY <1>3, ConclusionMapped
  <1>4. CASE Receive
    BY <1>4, DeliveryMapped
  <1>5. CASE Transmit \/ TakeFC \/ SendFC \/ CountBlock \/ UNCHANGED vars
    <2>1. ASSUME Transmit \/ TakeFC PROVE UNCHANGED <<msg, owed, result, inbox>>
      BY <2>1 DEF Transmit, TakeFC, S!DrvTransmit, S!cantp_can_rx, S!ByRx, Others, B
    <2>2. ASSUME SendFC \/ CountBlock PROVE UNCHANGED <<msg, owed, result, inbox>>
      BY <2>2 DEF SendFC, CountBlock, A, R!SendCTS, R!SendWait, R!cantp_can_tx, R!EndBlock,
         R!AwaitNextCF
    <2>3. ASSUME UNCHANGED vars PROVE UNCHANGED <<msg, owed, result, inbox>>
      BY <2>3, Unmoved DEF A, B
    <2>4. UNCHANGED <<msg, owed, result, inbox>>
      BY <1>5, <2>1, <2>2, <2>3
    <2> QED
      BY <2>4, ServiceSame
  <1> QED
    BY <1>2, <1>3, <1>4, <1>5 DEF Next

\* The two nodes are the service that their session layers see.
THEOREM Promise == ASSUME MaxLost < 16 PROVE Spec => ImplementsMessageService
  <1>1. Init => OrderInv /\ Service!Init
    <2> SUFFICES ASSUME Init PROVE OrderInv /\ Service!Init
      OBVIOUS
    <2>1. SP!Init /\ RP!RoleInit
      BY SenderInit, ReceiverInit DEF Init
    <2>2. msg = 0 /\ owed = 0 /\ result = "none" /\ inbox = <<>> /\ toB = <<>>
      BY <2>1 DEF SP!Init, RP!RoleInit, Init
    <2>3. OrderInv
      BY <2>2 DEF OrderInv
    <2>4. [i \in 1..0 |-> inbox[i].msg] = <<>>
      <3> PICK s : s = [i \in 1..0 |-> inbox[i].msg]
        OBVIOUS
      <3>1. s \in [1..0 -> Nat]
        OBVIOUS
      <3>2. s \in Seq(Nat) /\ Len(s) = 0
        BY <3>1, FunctionsAreSeqs
      <3> QED
        BY <3>2, EmptySeq
    <2>5. Service!Init
      BY <2>2, <2>4 DEF Service!Init
    <2> QED
      BY <2>3, <2>5
  <1>2. JointInv /\ VerdictInv /\ OrderInv /\ [Next]_vars => OrderInv'
    BY OrderStep
  <1>3. Spec => []OrderInv
    BY <1>1, <1>2, VerdictAlways, PTL DEF Spec
  <1>4. JointInv /\ OrderInv /\ VerdictAgrees' /\ [Next]_vars => [Service!Next]_(Service!mvars)
    BY ServiceStep
  <1> QED
    BY <1>1, <1>3, <1>4, VerdictAlways, Concord, PTL DEF Spec, ImplementsMessageService, Service!Spec
=============================================================================
