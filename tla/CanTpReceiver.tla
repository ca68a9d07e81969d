--------------------------- MODULE CanTpReceiver ---------------------------
(***************************************************************************)
(* The Receiver role of can-tp.c: the Single, First and Consecutive Frame  *)
(* branches of cantp_canrx_cb with rcvr_rx_first_frame and                 *)
(* rcvr_rx_consecutive_frame, run by cantp_rx_task, and                    *)
(* cantp_rcvr_timer_cb.  Everything runs on the one receive thread; it     *)
(* stands still only inside cantp_can_tx, which blocks until a Flow        *)
(* Control frame is out or N_Ar is over, so those are the steps.           *)
(*                                                                         *)
(* The other nodes on the bus are Peers: each sends its messages frame by  *)
(* frame, the Consecutive Frames once it has seen a Flow Control frame, and*)
(* may give up at any time.  Frames may be lost, and those of several nodes*)
(* arrive in every order.                                                  *)
(***************************************************************************)
EXTENDS CanTpFrames

\* The lengths a First Frame announces.
Lengths == 0..4095

CONSTANTS
  Peers, Self,  \* CAN identifiers: of the nodes that send to this one, its own
  Lens,         \* for each peer, the lengths of its messages
  Params,       \* what cantp_rcvr_params_init may have left in ctx->params
  MaxMsgs,      \* bound on the messages all peers send
  MaxLost,      \* bound on the frames lost on the way
  LateFC,       \* a peer may give up while its Flow Control is being sent
  MaxTxFail     \* bound on the Flow Control frames that are not transmitted

ASSUME PeersAssumption  == Self \notin Peers
ASSUME LensAssumption   == Lens \in [Peers -> SUBSET Lengths]
ASSUME ParamsAssumption ==
  Params \subseteq [block_size : UInt8, st_min : UInt8, wft_num : UInt8]
ASSUME TimingAssumption == LateFC \in BOOLEAN
ASSUME BoundsAssumption == MaxMsgs \in Nat /\ MaxLost \in Nat /\ MaxTxFail \in Nat

VARIABLES
  params,       \* block_size, st_min and wft_num of ctx->params
  rcvr,         \* ctx->rcvr
  bl_index,     \* ctx->sndr.bl_index: the Receiver counts its blocks in it
  rtimer,       \* ctx->rcvr.timer
  rx,           \* where the receive thread is
  sent, peer, lost,             \* the bus: messages, each peer's next frame
  buf, flow, inbox, failed      \* history

bus   == <<sent, peer, lost>>
rvars == <<params, rcvr, bl_index, rtimer, rx, buf, flow, inbox, failed>>
vars  == <<rvars, bus>>

RStates == {"IDLE", "FF_RCVD", "FC_SENDING", "FC_SENT", "TX_DONE", "RX_DONE"}
Ids     == Peers \cup {Self}

\* The bytes a data-carrying frame brings: of message msg, from offset off on.
Chunk      == [msg : Nat, off : Nat]
ChunkOf(f) == [msg |-> f.msg, off |-> f.off]
Delivery   == [id : Ids, len : UInt8, msg : Nat, chunks : Seq(Chunk)]
FlowSent   == [fc : FlowControl, at : Nat, sent : BOOLEAN]

RoleTypeOK ==
  /\ params \in Params
  /\ rcvr \in [state : RStates, len : UInt16, index : UInt16, sn : SeqNum,
               id_pair : Ids, wft_cntr : UInt8]
  /\ bl_index \in UInt8
  /\ rtimer \in {"off", "N_Ar", "N_Br", "N_Cr", "expired"}
  /\ rx \in {"poll", "fc", "wait", "block", "block_fc"}
  /\ buf \in Seq(Chunk) /\ flow \in Seq(FlowSent) /\ inbox \in Seq(Delivery)
  /\ failed \in 0..MaxTxFail

BusTypeOK ==
  /\ sent \in Seq([id : Peers, len : Lengths]) /\ Len(sent) <= MaxMsgs
  /\ peer \in [Peers -> [msg : 0..Len(sent), next : Nat, cts : BOOLEAN]]
  /\ lost \in 0..MaxLost

TypeOK == RoleTypeOK /\ BusTypeOK

RoleInit ==
  /\ params \in Params
  /\ rcvr = [state |-> "IDLE", len |-> 0, index |-> 0, sn |-> 0,
             id_pair |-> Self, wft_cntr |-> 0]
  /\ bl_index = 0 /\ rtimer = "off" /\ rx = "poll"
  /\ buf = <<>> /\ flow = <<>> /\ inbox = <<>> /\ failed = 0

Init ==
  /\ RoleInit
  /\ sent = <<>> /\ peer = [p \in Peers |-> [msg |-> 0, next |-> 0, cts |-> FALSE]]
  /\ lost = 0

----------------------------------------------------------------------------
(* Single Frame: handed to the session layer whatever the state.           *)

\* len is an uint8_t.
cantp_received_cb(f, id, len, chunks) ==
  inbox' = Append(inbox, [id |-> id, len |-> U8(len), msg |-> f.msg, chunks |-> chunks])

rx_single_frame(f, id) ==
  /\ f.pci = "SF"
  /\ rcvr' = [rcvr EXCEPT !.state = "RX_DONE"]
  /\ cantp_received_cb(f, id, f.dl, <<ChunkOf(f)>>)
  /\ UNCHANGED <<params, bl_index, rtimer, rx, buf, flow, failed>>

----------------------------------------------------------------------------
(* First Frame: taken up only in state IDLE, and only if the session layer *)
(* accepts it and finds a buffer.                                          *)

FFRefused(f) ==
  /\ f.pci = "FF" /\ rcvr.state # "IDLE"
  /\ UNCHANGED rvars

\* What the handler has stored by the time it asks the session layer.
NewReception(f, id, s) ==
  rcvr' = [rcvr EXCEPT !.state = s, !.id_pair = id, !.len = f.dl,
                       !.index = IF s = "FC_SENDING" THEN CANTP_FF_NUM_DATA_BYTES ELSE 0]

FFRejected(f, id) ==
  /\ f.pci = "FF" /\ rcvr.state = "IDLE"
  /\ NewReception(f, id, "IDLE") /\ rtimer' = "off"
  /\ UNCHANGED <<params, bl_index, rx, buf, flow, inbox, failed>>

FFNoBuffer(f, id) ==
  /\ f.pci = "FF" /\ rcvr.state = "IDLE"
  /\ NewReception(f, id, "FF_RCVD") /\ rtimer' = "N_Br"
  /\ UNCHANGED <<params, bl_index, rx, buf, flow, inbox, failed>>

FFAccepted(f, id) ==
  /\ f.pci = "FF" /\ rcvr.state = "IDLE"
  /\ NewReception(f, id, "FC_SENDING") /\ rtimer' = "N_Ar"
  /\ buf' = <<ChunkOf(f)>>
  /\ rx' = "fc"
  /\ UNCHANGED <<params, bl_index, flow, inbox, failed>>

rcvr_rx_first_frame(f, id) ==
  FFRejected(f, id) \/ FFNoBuffer(f, id) \/ FFAccepted(f, id)

----------------------------------------------------------------------------
(* Consecutive Frame.                                                       *)

CFIgnored(f, id) ==
  /\ f.pci = "CF"
  /\ rcvr.state # "FC_SENT" \/ rcvr.id_pair # id
  /\ UNCHANGED rvars

CFExpected_AnyId(f, id) == f.pci = "CF" /\ rcvr.state = "FC_SENT"  \* fault
CFExpected(f, id) ==
  f.pci = "CF" /\ rcvr.state = "FC_SENT" /\ rcvr.id_pair = id

InSequence_Unchecked(f) == TRUE                                    \* fault
InSequence(f) == NextSn(rcvr.sn) = f.sn

\* The local sequence number has moved on and N_Cr is stopped for good.
CFDiscarded(f, id) ==
  /\ CFExpected(f, id)
  /\ ~InSequence(f) \/ rcvr.len - rcvr.index <= 0
  /\ rcvr' = [rcvr EXCEPT !.sn = NextSn(rcvr.sn)] /\ rtimer' = "off"
  /\ UNCHANGED <<params, bl_index, rx, buf, flow, inbox, failed>>

LastCF_Strict(remaining) == remaining < CANTP_CF_NUM_DATA_BYTES  \* fault: < for <=
LastCF(remaining) == remaining <= CANTP_CF_NUM_DATA_BYTES

\* bytes_rcvd bytes are copied.  The last frame ends the reception, reported
\* under this node's own identifier; after another come the FC.WAIT frames, if
\* params say so, and the block count.
CFAccepted(f, id) ==
  LET remaining == rcvr.len - rcvr.index IN
  /\ CFExpected(f, id)
  /\ InSequence(f) /\ remaining > 0
  /\ buf' = Append(buf, ChunkOf(f))
  /\ rtimer' = "off"
  /\ rcvr' = [rcvr EXCEPT
       !.sn = NextSn(rcvr.sn), !.index = U16(rcvr.index + NToSend(remaining)),
       !.state = IF LastCF(remaining) THEN "TX_DONE" ELSE @,
       !.wft_cntr = IF LastCF(remaining) THEN @ ELSE 0]
  /\ IF LastCF(remaining)
     THEN cantp_received_cb(f, Self, rcvr.len, buf') /\ UNCHANGED rx
     ELSE rx' = (IF params.wft_num > 0 THEN "wait" ELSE "block") /\ UNCHANGED inbox
  /\ UNCHANGED <<params, bl_index, flow, failed>>

rcvr_rx_consecutive_frame(f, id) == CFDiscarded(f, id) \/ CFAccepted(f, id)

cantp_canrx_cb(f, id) ==
  \/ rx_single_frame(f, id)
  \/ FFRefused(f) \/ rcvr_rx_first_frame(f, id)
  \/ CFIgnored(f, id) \/ rcvr_rx_consecutive_frame(f, id)

----------------------------------------------------------------------------
(* Flow Control: cantp_can_tx returns once the frame is sent or N_Ar over. *)
(* A failure is reported (cantp_sndr_result_cb) and otherwise ignored.     *)

CTSFrame  == [fs |-> "CTS", bs |-> params.block_size, st |-> params.st_min]
WaitFrame == [fs |-> "WAIT", bs |-> 0, st |-> 0]

cantp_can_tx(f, ok) ==
  /\ failed' = IF ok THEN failed ELSE failed + 1
  /\ failed' <= MaxTxFail
  /\ flow' = Append(flow, [fc |-> f, at |-> Len(buf) - 1, sent |-> ok])
  /\ UNCHANGED <<params, bl_index, buf, inbox>>

\* Fault: the state is not set, so that the frames asked for are ignored.
SendCTS_StateKept(ok) ==
  /\ rx \in {"fc", "block_fc"} /\ rx' = "poll"
  /\ cantp_can_tx(CTSFrame, ok)
  /\ UNCHANGED rcvr
  /\ rtimer' = "N_Cr"

\* Clear to send, for the first block or the next one: then await its frames.
SendCTS(ok) ==
  /\ rx \in {"fc", "block_fc"} /\ rx' = "poll"
  /\ cantp_can_tx(CTSFrame, ok)
  /\ rcvr' = [rcvr EXCEPT !.state = "FC_SENT"]
  /\ rtimer' = "N_Cr"

\* One turn of the do-while loop that sends wft_num FC.WAIT frames.
SendWait(ok) ==
  LET cntr == U8(rcvr.wft_cntr + 1) IN
  /\ rx = "wait"
  /\ cantp_can_tx(WaitFrame, ok)
  /\ rcvr' = [rcvr EXCEPT !.state = "FC_SENT", !.wft_cntr = cntr]
  /\ rtimer' = IF cntr > params.wft_num THEN "N_Cr" ELSE "N_Br"
  /\ rx' = IF cntr < params.wft_num THEN "wait" ELSE "block"

\* The block count, on the Sender role's counter: at the end of a block send
\* Flow Control, otherwise await the next frame.
BlockFull_Late == params.block_size > 0 /\ U8(bl_index + 1) > params.block_size  \* fault
BlockFull == params.block_size > 0 /\ U8(bl_index + 1) >= params.block_size

EndBlock ==
  /\ rx = "block" /\ BlockFull
  /\ bl_index' = 0
  /\ rx' = "block_fc"
  /\ UNCHANGED <<params, rcvr, rtimer, buf, flow, inbox, failed>>

\* Fault: N_Cr is not started again.
AwaitNextCF_NoTimer ==
  /\ rx = "block" /\ ~BlockFull
  /\ bl_index' = IF params.block_size > 0 THEN U8(bl_index + 1) ELSE bl_index
  /\ rx' = "poll"
  /\ UNCHANGED <<params, rcvr, rtimer, buf, flow, inbox, failed>>

AwaitNextCF ==
  /\ rx = "block" /\ ~BlockFull
  /\ bl_index' = IF params.block_size > 0 THEN U8(bl_index + 1) ELSE bl_index
  /\ rx' = "poll" /\ rtimer' = "N_Cr"
  /\ UNCHANGED <<params, rcvr, buf, flow, inbox, failed>>

\* cantp_rcvr_timer_cb logs and does nothing.
cantp_rcvr_timer_cb ==
  /\ rtimer \in {"N_Ar", "N_Br", "N_Cr"} /\ rtimer' = "expired"
  /\ UNCHANGED <<params, rcvr, bl_index, rx, buf, flow, inbox, failed>>

----------------------------------------------------------------------------
(* The bus.                                                                 *)

\* A Flow Control frame bears no receiver's name: whoever waits for one takes
\* it.  One reported as failed may be out all the same.
CTSOut(out) ==
  /\ peer' = [p \in Peers |->
                [peer[p] EXCEPT !.cts = @ \/ (out /\ peer[p].next = 1)]]
  /\ UNCHANGED <<sent, lost>>

\* A peer starts a message, giving up the one it was sending.
PeerStart(p, l) ==
  /\ Len(sent) < MaxMsgs
  /\ LateFC \/ rx = "poll"
  /\ sent' = Append(sent, [id |-> p, len |-> l])
  /\ peer' = [peer EXCEPT ![p] = [msg |-> Len(sent) + 1, next |-> 0, cts |-> FALSE]]
  /\ UNCHANGED <<lost, rvars>>

HasFrame(p) ==
  /\ peer[p].msg > 0
  /\ peer[p].next < NumFrames(sent[peer[p].msg].len)
  /\ peer[p].next = 0 \/ peer[p].cts
NextFrame(p) == Segment(peer[p].msg, sent[peer[p].msg].len, peer[p].next)
Advance(p)   == peer' = [peer EXCEPT ![p].next = @ + 1] /\ UNCHANGED sent

FrameLost(p) ==
  /\ HasFrame(p) /\ Advance(p)
  /\ lost < MaxLost /\ lost' = lost + 1
  /\ UNCHANGED rvars

\* cantp_rx_task: cantp_can_rx returns a frame, cantp_canrx_cb handles it.
cantp_rx_task(p) ==
  /\ rx = "poll"
  /\ HasFrame(p) /\ Advance(p)
  /\ cantp_canrx_cb(NextFrame(p), p)
  /\ UNCHANGED lost

Next ==
  \/ \E p \in Peers : \E l \in Lens[p] : PeerStart(p, l)
  \/ \E p \in Peers : FrameLost(p)
  \/ \E p \in Peers : cantp_rx_task(p)
  \/ \E ok, out \in BOOLEAN : (ok => out) /\ SendCTS(ok) /\ CTSOut(out)
  \/ \E ok \in BOOLEAN : SendWait(ok) /\ UNCHANGED bus
  \/ EndBlock /\ UNCHANGED bus
  \/ AwaitNextCF /\ UNCHANGED bus
  \/ cantp_rcvr_timer_cb /\ UNCHANGED bus

Spec == Init /\ [][Next]_vars

----------------------------------------------------------------------------
(* Properties.                                                              *)

\* What the buffer holds is a prefix of one message, its bytes in order and
\* counted by rcvr.index, whatever other peers send in between.
BufferIntact ==
  buf # <<>> =>
    LET m == sent[buf[1].msg] IN
    /\ rcvr.id_pair = m.id /\ rcvr.len = m.len
    /\ Len(buf) <= NumFrames(m.len)
    /\ \A k \in 1..Len(buf) : buf[k] = ChunkOf(Segment(buf[1].msg, m.len, k - 1))
    /\ rcvr.index = IF Len(buf) = NumFrames(m.len) THEN m.len ELSE CFOffset(Len(buf))

\* What the session layer receives is a whole message of the length sent.
DeliveredIntact ==
  \A i \in 1..Len(inbox) :
    LET d == inbox[i]
        l == sent[d.msg].len IN
    /\ d.len = l
    /\ d.chunks = [k \in 1..NumFrames(l) |-> ChunkOf(Segment(d.msg, l, k - 1))]

\* Between frames, the Flow Control sent so far is what the number of accepted
\* Consecutive Frames calls for: CTS for the First Frame; after each but the
\* last wft_num times WAIT, and CTS after every block_size-th.
SentAt(k) == {i \in DOMAIN flow : flow[i].at = k}
InARow(k, waits, cts) ==
  LET now == SentAt(k) IN
  \E b \in 0..Len(flow) :
    /\ now = b + 1..b + waits + cts
    /\ \A i \in now : flow[i].fc.fs = IF i <= b + waits THEN "WAIT" ELSE "CTS"
EndsBlock(k) == params.block_size > 0 /\ k % params.block_size = 0

FlowSchedule ==
  rx = "poll" =>
    \A k \in 0..Len(buf) - 1 :
      IF k = 0 THEN InARow(k, 0, 1)
      ELSE IF k = Len(buf) - 1 /\ rcvr.index = rcvr.len THEN InARow(k, 0, 0)
      ELSE InARow(k, params.wft_num, IF EndsBlock(k) THEN 1 ELSE 0)

\* While the Receiver waits for a Consecutive Frame, N_Cr watches over it.
\* (A frame out of sequence stops N_Cr for good, so a lost one does.)
NCrArmed ==
  rx = "poll" /\ rcvr.state = "FC_SENT" /\ lost = 0 => rtimer \in {"N_Cr", "expired"}

\* can-tp.c: "The receiver can accept a FF only if it is in IDLE state i.e.
\* not receiving another CAN-TP message".  So one that is not receiving asks
\* the session layer.
FFTakenUp ==
  [][ \A p \in Peers :
        cantp_rx_task(p) /\ FFRefused(NextFrame(p))
          => rcvr.state \notin {"IDLE", "TX_DONE", "RX_DONE"} ]_vars

\* can-tp.c, where Flow Control could not be sent: "Abort message reception".
FCFailureAborts == [][failed > 0 => UNCHANGED buf]_vars
=============================================================================
