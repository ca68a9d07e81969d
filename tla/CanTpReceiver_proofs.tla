------------------------ MODULE CanTpReceiver_proofs ------------------------
(***************************************************************************)
(* Theorems about CanTpReceiver, for any peers, messages and parameters.   *)
(***************************************************************************)
EXTENDS CanTpReceiver, CanTpFrames_proofs, SequenceTheorems

----------------------------------------------------------------------------
(* Type correctness.  A Flow Control frame records how many chunks are in   *)
(* the buffer, so it takes that the thread is busy with one only when the   *)
(* buffer has some.                                                         *)

ControlOK ==
  /\ rcvr.state \in {"IDLE", "FF_RCVD"} => buf = <<>>
  /\ buf = <<>> => /\ rx = "poll" /\ rcvr.sn = 0
                   /\ rcvr.state \notin {"FC_SENDING", "FC_SENT", "TX_DONE"}
  /\ rx = "poll" => rcvr.state # "FC_SENDING"
  /\ rx = "fc" => rcvr.state = "FC_SENDING"
  /\ rx \in {"wait", "block", "block_fc"} => rcvr.state = "FC_SENT"

\* The fields of ctx->params.
LEMMA ParamsTypes ==
  params \in Params =>
    /\ params.block_size \in UInt8 /\ params.st_min \in UInt8 /\ params.wft_num \in UInt8
    /\ params.block_size \in Nat /\ params.wft_num \in Nat
  BY ParamsAssumption, TypeRanges

\* The peer's frames are frames.
LEMMA SegmentTypes ==
  ASSUME NEW m \in Nat, NEW l \in Lengths, NEW k \in Nat, k < NumFrames(l)
  PROVE  /\ Segment(m, l, k).pci \in {"SF", "FF", "CF"}
         /\ Segment(m, l, k).msg = m
         /\ Segment(m, l, k).off \in Nat
         /\ Segment(m, l, k).pci \in {"SF", "FF"} => k = 0 /\ Segment(m, l, k).dl = l
  <1>1. CASE k = 0
    <2>1. FFLen(l) = l
      BY DEF FFLen, Lengths
    <2> QED
      BY <1>1, <2>1 DEF Segment, SingleFrame, FirstFrame
  <1>2. CASE k > 0
    <2>1. CFOffset(k) \in Nat
      BY <1>2 DEF CFOffset, CANTP_FF_NUM_DATA_BYTES, CANTP_CF_NUM_DATA_BYTES
    <2> QED
      BY <1>2, <2>1 DEF Segment, ConsecutiveFrame
  <1> QED
    BY <1>1, <1>2

\* The messages on the bus.
LEMMA SentTypes ==
  ASSUME sent \in Seq([id : Peers, len : Lengths]), NEW m \in 1..Len(sent)
  PROVE  sent[m].id \in Peers /\ sent[m].len \in Lengths
  <1> DEFINE S == [id : Peers, len : Lengths]
  <1>1. sent \in Seq(S)
    OBVIOUS
  <1> HIDE DEF S
  <1>2. sent[m] \in S
    BY <1>1, ElementOfSeq
  <1> QED
    BY <1>2 DEF S

\* A peer that has a frame is within a message.
LEMMA PeerTypes ==
  ASSUME TypeOK, NEW p \in Peers
  PROVE  /\ peer[p].msg \in Nat /\ peer[p].next \in Nat
         /\ peer[p].msg > 0 => peer[p].msg \in 1..Len(sent)
  <1>1. peer \in [Peers -> [msg : 0..Len(sent), next : Nat, cts : BOOLEAN]]
    BY DEF TypeOK, BusTypeOK
  <1>2. Len(sent) \in Nat
    BY LenProperties DEF TypeOK, BusTypeOK
  <1>3. peer[p] \in [msg : 0..Len(sent), next : Nat, cts : BOOLEAN]
    BY <1>1
  <1>4. peer[p].msg \in 0..Len(sent) /\ peer[p].next \in Nat
    BY <1>3
  <1> QED
    BY <1>2, <1>4

\* A peer that has a frame sends one of its message's.
LEMMA NextFrameIs ==
  ASSUME TypeOK, NEW p \in Peers, HasFrame(p)
  PROVE  \E m \in Nat, l \in Lengths, k \in Nat :
           k < NumFrames(l) /\ NextFrame(p) = Segment(m, l, k)
  <1>1. peer[p].msg \in 1..Len(sent) /\ peer[p].msg \in Nat /\ peer[p].next \in Nat
    BY PeerTypes DEF HasFrame
  <1>2. sent \in Seq([id : Peers, len : Lengths])
    BY DEF TypeOK, BusTypeOK
  <1>3. sent[peer[p].msg].len \in Lengths
    BY <1>1, <1>2, SentTypes
  <1>4. peer[p].next < NumFrames(sent[peer[p].msg].len)
    BY DEF HasFrame
  <1>5. NextFrame(p) = Segment(peer[p].msg, sent[peer[p].msg].len, peer[p].next)
    BY DEF NextFrame
  <1> QED
    BY <1>1, <1>3, <1>4, <1>5, Zenon

\* So is what a peer sends next.
LEMMA NextFrameTypes ==
  ASSUME TypeOK, NEW p \in Peers, HasFrame(p)
  PROVE  /\ NextFrame(p).pci \in {"SF", "FF", "CF"}
         /\ NextFrame(p).msg \in Nat /\ ChunkOf(NextFrame(p)) \in Chunk
         /\ NextFrame(p).pci \in {"SF", "FF"} => NextFrame(p).dl \in UInt16
  <1>1. PICK m \in Nat, l \in Lengths, k \in Nat :
          k < NumFrames(l) /\ NextFrame(p) = Segment(m, l, k)
    BY NextFrameIs
  <1> DEFINE f == Segment(m, l, k)
  <1>2. /\ f.pci \in {"SF", "FF", "CF"} /\ f.msg = m /\ f.off \in Nat
        /\ f.pci \in {"SF", "FF"} => f.dl = l
    BY <1>1, SegmentTypes
  <1> HIDE DEF f
  <1>3. ChunkOf(f) \in Chunk
    BY <1>2 DEF Chunk, ChunkOf
  <1>4. l \in UInt16
    BY DEF Lengths, UInt16
  <1>5. NextFrame(p) = f
    BY <1>1 DEF f
  <1> QED
    BY <1>2, <1>3, <1>4, <1>5

\* A frame is handled.
LEMMA HandlerTyped ==
  ASSUME RoleTypeOK, NEW f, NEW p \in Peers, cantp_canrx_cb(f, p),
         ChunkOf(f) \in Chunk, f.msg \in Nat, f.pci \in {"SF", "FF"} => f.dl \in UInt16
  PROVE  RoleTypeOK'
  <1> DEFINE c == ChunkOf(f)
  <1>1. c \in Chunk /\ f.msg \in Nat /\ (f.pci \in {"SF", "FF"} => f.dl \in UInt16)
    OBVIOUS
  <1>2. RoleTypeOK
    OBVIOUS
  <1> HIDE DEF c
  <1>3. CASE FFRefused(f) \/ CFIgnored(f, p)
    BY <1>2, <1>3 DEF RoleTypeOK, FFRefused, CFIgnored, rvars
  <1>4. CASE rx_single_frame(f, p)
    <2>1. f.dl \in Int
      BY <1>1, <1>4, TypeRanges DEF rx_single_frame
    <2>2. [id |-> p, len |-> U8(f.dl), msg |-> f.msg, chunks |-> <<c>>] \in Delivery
      BY <1>1, <2>1, U8Type DEF Delivery, Ids
    <2>3. inbox' \in Seq(Delivery)
      BY <1>2, <1>4, <2>2 DEF rx_single_frame, cantp_received_cb, RoleTypeOK, c
    <2> QED
      BY <1>2, <1>4, <2>3 DEF RoleTypeOK, rx_single_frame, RStates
  <1>5. CASE FFRejected(f, p) \/ FFNoBuffer(f, p) \/ FFAccepted(f, p)
    <2>1. rcvr' \in [state : RStates, len : UInt16, index : UInt16, sn : SeqNum,
                     id_pair : Ids, wft_cntr : UInt8]
      BY <1>1, <1>2, <1>5, StoredConstants
         DEF FFRejected, FFNoBuffer, FFAccepted, NewReception, RoleTypeOK, RStates, Ids
    <2>2. buf' \in Seq(Chunk)
      <3>1. <<c>> \in Seq(Chunk)
        BY <1>1
      <3>2. buf \in Seq(Chunk)
        BY <1>2 DEF RoleTypeOK
      <3>3. buf' = buf \/ buf' = <<c>>
        BY <1>5 DEF FFRejected, FFNoBuffer, FFAccepted, c
      <3> QED
        BY <3>1, <3>2, <3>3
    <2> QED
      BY <1>2, <1>5, <2>1, <2>2 DEF FFRejected, FFNoBuffer, FFAccepted, RoleTypeOK
  <1>6. CASE CFDiscarded(f, p)
    BY <1>2, <1>6, NextSnType DEF CFDiscarded, RoleTypeOK
  <1>7. CASE CFAccepted(f, p)
    <2> DEFINE n == NToSend(rcvr.len - rcvr.index)
    <2>1. rcvr.len \in Int /\ rcvr.index \in Int
      BY <1>2, TypeRanges DEF RoleTypeOK
    <2>2. n \in Int
      BY <2>1, NToSendType, TypeRanges
    <2>3. U16(rcvr.index + n) \in UInt16 /\ NextSn(rcvr.sn) \in SeqNum /\ 0 \in UInt8
      BY <1>2, <2>1, <2>2, U16Type, NextSnType, StoredConstants DEF RoleTypeOK
    <2> HIDE DEF n
    <2>4. rcvr' \in [state : RStates, len : UInt16, index : UInt16, sn : SeqNum,
                     id_pair : Ids, wft_cntr : UInt8]
      BY <1>2, <1>7, <2>3 DEF CFAccepted, RoleTypeOK, RStates, n
    <2>5. buf' \in Seq(Chunk)
      BY <1>1, <1>2, <1>7 DEF CFAccepted, RoleTypeOK, c
    <2>6. inbox' \in Seq(Delivery)
      <3>1. [id |-> Self, len |-> U8(rcvr.len), msg |-> f.msg, chunks |-> buf'] \in Delivery
        BY <1>1, <2>1, <2>5, U8Type DEF Delivery, Ids
      <3>2. inbox' = inbox \/ inbox' =
              Append(inbox, [id |-> Self, len |-> U8(rcvr.len), msg |-> f.msg, chunks |-> buf'])
        BY <1>7 DEF CFAccepted, cantp_received_cb
      <3>3. inbox \in Seq(Delivery)
        BY <1>2 DEF RoleTypeOK
      <3> QED
        BY <3>1, <3>2, <3>3
    <2>7. rx' \in {"poll", "fc", "wait", "block", "block_fc"}
      BY <1>2, <1>7 DEF CFAccepted, RoleTypeOK
    <2> QED
      BY <1>2, <1>7, <2>4, <2>5, <2>6, <2>7 DEF CFAccepted, RoleTypeOK
  <1> QED
    BY <1>3, <1>4, <1>5, <1>6, <1>7
       DEF cantp_canrx_cb, rcvr_rx_first_frame, rcvr_rx_consecutive_frame

\* One Flow Control frame is sent, or not.
LEMMA CanTxTyped ==
  ASSUME RoleTypeOK, buf # <<>>, NEW f \in FlowControl, NEW ok \in BOOLEAN,
         cantp_can_tx(f, ok)
  PROVE  /\ params' \in Params /\ bl_index' \in UInt8 /\ buf' \in Seq(Chunk)
         /\ inbox' \in Seq(Delivery) /\ failed' \in 0..MaxTxFail
         /\ flow' \in Seq(FlowSent)
  <1>1. failed' \in 0..MaxTxFail
    BY BoundsAssumption DEF RoleTypeOK, cantp_can_tx
  <1>2. Len(buf) - 1 \in Nat
    <2>1. buf \in Seq(Chunk)
      BY DEF RoleTypeOK
    <2> QED
      BY <2>1, EmptySeq, LenProperties
  <1>3. [fc |-> f, at |-> Len(buf) - 1, sent |-> ok] \in FlowSent
    BY <1>2 DEF FlowSent
  <1>4. flow' \in Seq(FlowSent)
    BY <1>3, AppendProperties DEF cantp_can_tx, RoleTypeOK
  <1> QED
    BY <1>1, <1>4 DEF cantp_can_tx, RoleTypeOK

\* The frames the Receiver sends.
LEMMA FlowFrames ==
  ASSUME RoleTypeOK PROVE CTSFrame \in FlowControl /\ WaitFrame \in FlowControl
  BY ParamsTypes, StoredConstants
     DEF RoleTypeOK, CTSFrame, WaitFrame, FlowControl, FlowStatus

\* The steps of the receive thread between two frames.
LEMMA ThreadTyped ==
  ASSUME RoleTypeOK, ControlOK,
         \/ \E ok \in BOOLEAN : SendCTS(ok) \/ SendWait(ok)
         \/ EndBlock \/ AwaitNextCF \/ cantp_rcvr_timer_cb
  PROVE  RoleTypeOK'
  <1>1. RoleTypeOK
    OBVIOUS
  <1>2. ASSUME NEW ok \in BOOLEAN, SendCTS(ok) PROVE RoleTypeOK'
    <2>1. buf # <<>>
      BY <1>2 DEF ControlOK, SendCTS
    <2>2. cantp_can_tx(CTSFrame, ok)
      BY <1>2 DEF SendCTS
    <2>3. rcvr' \in [state : RStates, len : UInt16, index : UInt16, sn : SeqNum,
                     id_pair : Ids, wft_cntr : UInt8]
      BY <1>1, <1>2 DEF SendCTS, RoleTypeOK, RStates
    <2> QED
      BY <1>1, <1>2, <2>1, <2>2, <2>3, CanTxTyped, FlowFrames DEF SendCTS, RoleTypeOK
  <1>3. ASSUME NEW ok \in BOOLEAN, SendWait(ok) PROVE RoleTypeOK'
    <2>1. buf # <<>>
      BY <1>3 DEF ControlOK, SendWait
    <2>2. cantp_can_tx(WaitFrame, ok)
      BY <1>3 DEF SendWait
    <2>3. rcvr' \in [state : RStates, len : UInt16, index : UInt16, sn : SeqNum,
                     id_pair : Ids, wft_cntr : UInt8]
      <3>1. rcvr.wft_cntr + 1 \in Int
        BY <1>1, TypeRanges DEF RoleTypeOK
      <3>2. U8(rcvr.wft_cntr + 1) \in UInt8
        BY <3>1, U8Type
      <3> QED
        BY <1>1, <1>3, <3>2 DEF SendWait, RoleTypeOK, RStates
    <2>4. rtimer' \in {"N_Cr", "N_Br"} /\ rx' \in {"wait", "block"}
      BY <1>3 DEF SendWait
    <2> QED
      BY <1>1, <2>1, <2>2, <2>3, <2>4, CanTxTyped, FlowFrames DEF RoleTypeOK
  <1>4. ASSUME EndBlock PROVE RoleTypeOK'
    BY <1>1, <1>4, StoredConstants DEF EndBlock, RoleTypeOK
  <1>5. ASSUME AwaitNextCF PROVE RoleTypeOK'
    <2>1. bl_index' \in UInt8
      BY <1>1, <1>5, TypeRanges, U8Type DEF AwaitNextCF, RoleTypeOK
    <2> QED
      BY <1>1, <1>5, <2>1 DEF AwaitNextCF, RoleTypeOK
  <1>6. ASSUME cantp_rcvr_timer_cb PROVE RoleTypeOK'
    BY <1>1, <1>6 DEF cantp_rcvr_timer_cb, RoleTypeOK
  <1> QED
    BY <1>2, <1>3, <1>4, <1>5, <1>6

\* The steps on the bus.
LEMMA BusTyped ==
  ASSUME BusTypeOK,
         \/ \E q \in Peers : \E l \in Lens[q] : PeerStart(q, l)
         \/ \E q \in Peers : HasFrame(q) /\ Advance(q) /\ lost' = lost
         \/ \E q \in Peers : FrameLost(q)
         \/ \E out \in BOOLEAN : CTSOut(out)
         \/ UNCHANGED bus
  PROVE  BusTypeOK'
  <1> DEFINE At(n) == [msg : 0..n, next : Nat, cts : BOOLEAN]
  <1>1. Len(sent) \in Nat /\ sent \in Seq([id : Peers, len : Lengths])
    BY LenProperties DEF BusTypeOK
  <1>2. peer \in [Peers -> At(Len(sent))]
    BY DEF BusTypeOK
  <1>3. ASSUME NEW q \in Peers, NEW l \in Lens[q], PeerStart(q, l) PROVE BusTypeOK'
    <2>1. l \in Lengths
      BY LensAssumption
    <2>2. /\ sent' \in Seq([id : Peers, len : Lengths])
          /\ Len(sent') = Len(sent) + 1 /\ Len(sent') <= MaxMsgs
      <3>1. [id |-> q, len |-> l] \in [id : Peers, len : Lengths]
        BY <2>1
      <3> QED
        BY <1>1, <1>3, <3>1, AppendProperties, BoundsAssumption DEF PeerStart
    <2>3. At(Len(sent)) \subseteq At(Len(sent'))
      BY <1>1, <2>2
    <2>4. [msg |-> Len(sent) + 1, next |-> 0, cts |-> FALSE] \in At(Len(sent'))
      BY <1>1, <2>2
    <2> HIDE DEF At
    <2>5. peer' \in [Peers -> At(Len(sent'))]
      BY <1>2, <1>3, <2>3, <2>4 DEF PeerStart
    <2> QED
      BY <1>3, <2>2, <2>5 DEF PeerStart, BusTypeOK, At
  <1>4. ASSUME NEW q \in Peers, Advance(q) PROVE peer' \in [Peers -> At(Len(sent))] /\ sent' = sent
    <2>1. peer[q] \in At(Len(sent))
      BY <1>2
    <2>2. [peer[q] EXCEPT !.next = @ + 1] \in At(Len(sent))
      BY <2>1
    <2> HIDE DEF At
    <2> QED
      BY <1>2, <1>4, <2>2 DEF Advance
  <1>5. ASSUME NEW out \in BOOLEAN, CTSOut(out) PROVE BusTypeOK'
    <2>1. ASSUME NEW q \in Peers
          PROVE  [peer[q] EXCEPT !.cts = @ \/ (out /\ peer[q].next = 1)] \in At(Len(sent))
      <3>1. peer[q] \in At(Len(sent))
        BY <1>2
      <3> QED
        BY <3>1
    <2> HIDE DEF At
    <2>2. peer' \in [Peers -> At(Len(sent))]
      BY <1>5, <2>1 DEF CTSOut
    <2> QED
      BY <1>5, <2>2 DEF CTSOut, BusTypeOK, At
  <1>6. ASSUME NEW q \in Peers, FrameLost(q) PROVE BusTypeOK'
    <2>1. lost' \in 0..MaxLost
      BY <1>6, BoundsAssumption DEF FrameLost, BusTypeOK
    <2> QED
      BY <1>4, <1>6, <2>1 DEF FrameLost, BusTypeOK
  <1>7. ASSUME NEW q \in Peers, Advance(q), lost' = lost PROVE BusTypeOK'
    BY <1>4, <1>7 DEF BusTypeOK
  <1>8. ASSUME UNCHANGED bus PROVE BusTypeOK'
    BY <1>8 DEF BusTypeOK, bus
  <1> QED
    BY <1>3, <1>5, <1>6, <1>7, <1>8

\* What the thread is doing agrees with the state and the buffer.
LEMMA HandlerControlled ==
  ASSUME RoleTypeOK, ControlOK, rx = "poll", NEW f, NEW p, ChunkOf(f) \in Chunk,
         cantp_canrx_cb(f, p)
  PROVE  ControlOK'
  <1>1. CASE FFRefused(f) \/ CFIgnored(f, p)
    BY <1>1 DEF FFRefused, CFIgnored, rvars, ControlOK
  <1>2. CASE rx_single_frame(f, p)
    BY <1>2 DEF rx_single_frame, ControlOK, RoleTypeOK
  <1>3. CASE FFRejected(f, p) \/ FFNoBuffer(f, p)
    BY <1>3 DEF FFRejected, FFNoBuffer, NewReception, ControlOK, RoleTypeOK
  <1>4. CASE FFAccepted(f, p)
    <2>1. buf' # <<>>
      BY <1>4 DEF FFAccepted
    <2> QED
      BY <1>4, <2>1 DEF FFAccepted, NewReception, ControlOK, RoleTypeOK
  <1>5. CASE CFDiscarded(f, p)
    BY <1>5 DEF CFDiscarded, CFExpected, ControlOK, RoleTypeOK
  <1>6. CASE CFAccepted(f, p)
    <2>1. buf' # <<>>
      <3>1. buf \in Seq(Chunk) /\ buf' = Append(buf, ChunkOf(f))
        BY <1>6 DEF RoleTypeOK, CFAccepted
      <3>2. Len(buf') = Len(buf) + 1 /\ Len(buf) \in Nat
        BY <3>1, AppendProperties, LenProperties
      <3> QED
        BY <3>2, EmptySeq
    <2>2. \/ rcvr'.state = "TX_DONE" /\ rx' = "poll"
          \/ rcvr'.state = "FC_SENT" /\ rx' \in {"wait", "block"}
      BY <1>6 DEF CFAccepted, CFExpected, RoleTypeOK
    <2> QED
      BY <2>1, <2>2 DEF ControlOK
  <1> QED
    BY <1>1, <1>2, <1>3, <1>4, <1>5, <1>6
       DEF cantp_canrx_cb, rcvr_rx_first_frame, rcvr_rx_consecutive_frame

LEMMA ThreadControlled ==
  ASSUME RoleTypeOK, ControlOK,
         \/ \E ok \in BOOLEAN : SendCTS(ok) \/ SendWait(ok)
         \/ EndBlock \/ AwaitNextCF \/ cantp_rcvr_timer_cb
  PROVE  ControlOK'
  <1>1. ASSUME NEW ok \in BOOLEAN, SendCTS(ok) PROVE ControlOK'
    BY <1>1 DEF SendCTS, cantp_can_tx, ControlOK, RoleTypeOK
  <1>2. ASSUME NEW ok \in BOOLEAN, SendWait(ok) PROVE ControlOK'
    BY <1>2 DEF SendWait, cantp_can_tx, ControlOK, RoleTypeOK
  <1>3. ASSUME EndBlock PROVE ControlOK'
    BY <1>3 DEF EndBlock, ControlOK
  <1>4. ASSUME AwaitNextCF PROVE ControlOK'
    <2>1. buf # <<>> /\ rcvr.state = "FC_SENT"
      BY <1>4 DEF AwaitNextCF, ControlOK
    <2> QED
      BY <1>4, <2>1 DEF AwaitNextCF, ControlOK
  <1>5. ASSUME cantp_rcvr_timer_cb PROVE ControlOK'
    BY <1>5 DEF cantp_rcvr_timer_cb, ControlOK
  <1> QED
    BY <1>1, <1>2, <1>3, <1>4, <1>5

TypedInv == TypeOK /\ ControlOK

LEMMA RoleInitTyped == RoleInit => RoleTypeOK /\ ControlOK
  <1> SUFFICES ASSUME RoleInit PROVE RoleTypeOK /\ ControlOK
    OBVIOUS
  <1>1. RoleTypeOK
    BY StoredConstants, BoundsAssumption, EmptySeq DEF RoleInit, RoleTypeOK, RStates, Ids
  <1>2. ControlOK
    BY DEF RoleInit, ControlOK
  <1> QED
    BY <1>1, <1>2

LEMMA TypedInit == Init => TypedInv
  <1> SUFFICES ASSUME Init PROVE TypedInv
    OBVIOUS
  <1>1. RoleTypeOK /\ ControlOK
    BY RoleInitTyped DEF Init
  <1>2. BusTypeOK
    <2>1. sent \in Seq([id : Peers, len : Lengths]) /\ Len(sent) = 0
      BY EmptySeq DEF Init
    <2> QED
      BY <2>1, BoundsAssumption DEF Init, BusTypeOK
  <1> QED
    BY <1>1, <1>2 DEF TypedInv, TypeOK

LEMMA TypedStep == TypedInv /\ [Next]_vars => TypedInv'
  <1> SUFFICES ASSUME TypedInv, [Next]_vars PROVE TypedInv'
    OBVIOUS
  <1>0. TypeOK /\ RoleTypeOK /\ BusTypeOK /\ ControlOK
    BY DEF TypedInv, TypeOK
  <1>1. ASSUME UNCHANGED rvars PROVE RoleTypeOK' /\ ControlOK'
    BY <1>0, <1>1 DEF rvars, RoleTypeOK, ControlOK
  <1>2. ASSUME NEW p \in Peers, NEW l \in Lens[p], PeerStart(p, l) PROVE TypedInv'
    BY <1>0, <1>1, <1>2, BusTyped DEF PeerStart, TypedInv, TypeOK
  <1>3. ASSUME NEW p \in Peers, FrameLost(p) PROVE TypedInv'
    BY <1>0, <1>1, <1>3, BusTyped DEF FrameLost, TypedInv, TypeOK
  <1>4. ASSUME NEW p \in Peers, cantp_rx_task(p) PROVE TypedInv'
    <2>1. HasFrame(p) /\ Advance(p) /\ cantp_canrx_cb(NextFrame(p), p) /\ lost' = lost /\ rx = "poll"
      BY <1>4 DEF cantp_rx_task
    <2>2. RoleTypeOK' /\ BusTypeOK'
      BY <1>0, <2>1, NextFrameTypes, HandlerTyped, BusTyped
    <2>3. ControlOK'
      BY <1>0, <2>1, NextFrameTypes, HandlerControlled
    <2> QED
      BY <2>2, <2>3 DEF TypedInv, TypeOK
  <1>5. ASSUME NEW ok \in BOOLEAN, NEW out \in BOOLEAN, SendCTS(ok), CTSOut(out) PROVE TypedInv'
    BY <1>0, <1>5, BusTyped, ThreadTyped, ThreadControlled DEF TypedInv, TypeOK
  <1>6. ASSUME UNCHANGED bus,
               \/ \E ok \in BOOLEAN : SendWait(ok)
               \/ EndBlock \/ AwaitNextCF \/ cantp_rcvr_timer_cb
        PROVE  TypedInv'
    BY <1>0, <1>6, BusTyped, ThreadTyped, ThreadControlled DEF TypedInv, TypeOK
  <1>7. ASSUME UNCHANGED vars PROVE TypedInv'
    <2>1. UNCHANGED bus /\ UNCHANGED rvars
      BY <1>7 DEF vars
    <2> QED
      BY <1>0, <1>1, <2>1, BusTyped DEF TypedInv, TypeOK
  <1> QED
    BY <1>2, <1>3, <1>4, <1>5, <1>6, <1>7 DEF Next

\* Every variable of the Receiver stays in the range of its C type, whatever
\* the peers send, lose and give up.
THEOREM Typing == Spec => []TypeOK
  <1>1. TypedInv => TypeOK
    BY DEF TypedInv
  <1> QED
    BY TypedInit, TypedStep, <1>1, PTL DEF Spec

----------------------------------------------------------------------------
(* The Flow Control schedule.  The invariant follows the receive thread     *)
(* through the frames it sends after an accepted Consecutive Frame, and     *)
(* bl_index, which counts those frames modulo block_size.                   *)

LEMMA Remainder ==
  ASSUME NEW b \in Nat, b > 0, NEW q \in Int, NEW r \in Nat, r < b
  PROVE  ((b * q) + r) % b = r
  OBVIOUS

LEMMA NextRemainder ==
  ASSUME NEW b \in Nat, b > 0, NEW k \in Nat
  PROVE  /\ k % b \in Nat /\ k % b < b
         /\ (k % b) + 1 = b => (k + 1) % b = 0
         /\ (k % b) + 1 < b => (k + 1) % b = (k % b) + 1
  <1> DEFINE q == k \div b  r == k % b
  <1>1. q \in Int /\ r \in Nat /\ r < b /\ k = (b * q) + r
    OBVIOUS
  <1> HIDE DEF q, r
  <1>2. ASSUME r + 1 < b PROVE (k + 1) % b = r + 1
    <2>1. k + 1 = (b * q) + (r + 1)
      BY <1>1
    <2>2. ((b * q) + (r + 1)) % b = r + 1
      BY <1>1, <1>2, Remainder
    <2> QED
      BY <2>1, <2>2
  <1>3. ASSUME r + 1 = b PROVE (k + 1) % b = 0
    <2>1. k + 1 = (b * (q + 1)) + 0
      BY <1>1, <1>3
    <2>2. ((b * (q + 1)) + 0) % b = 0
      BY <1>1, Remainder
    <2> QED
      BY <2>1, <2>2
  <1> QED
    BY <1>1, <1>2, <1>3 DEF r

\* The last frame is the one that brings all that remains.
LEMMA NToSendValue ==
  ASSUME NEW r \in Nat, r > 0
  PROVE  IF LastCF(r) THEN NToSend(r) = r ELSE r > 7 /\ NToSend(r) = 7
  <1>1. LastCF(r) <=> r <= 7
    BY DEF LastCF, CANTP_CF_NUM_DATA_BYTES
  <1>2. NToSend(r) = IF r > 7 THEN 7 ELSE r % 256
    BY DEF NToSend, U8, CANTP_CF_NUM_DATA_BYTES
  <1>3. r <= 7 => r % 256 = r
    OBVIOUS
  <1> QED
    BY <1>1, <1>2, <1>3

\* How many Consecutive Frames have been accepted, and what has been sent after
\* the last of them: waits times WAIT, then cts times CTS.
Accepted == Len(buf) - 1
LastSent(waits, cts) ==
  /\ waits + cts <= Len(flow)
  /\ SentAt(Accepted) = Len(flow) - (waits + cts) + 1..Len(flow)
  /\ \A i \in SentAt(Accepted) :
       flow[i].fc.fs = IF i <= Len(flow) - cts THEN "WAIT" ELSE "CTS"

BlockCTS(k) == IF EndsBlock(k) THEN 1 ELSE 0

Sending ==
  /\ rx = "fc" => Accepted = 0 /\ LastSent(0, 0)
  /\ rx = "poll" => IF Accepted = 0 THEN LastSent(0, 1)
                    ELSE IF rcvr.index = rcvr.len THEN LastSent(0, 0)
                    ELSE LastSent(params.wft_num, BlockCTS(Accepted))
  /\ rx \in {"wait", "block", "block_fc"} => Accepted > 0 /\ rcvr.index # rcvr.len
  /\ rx = "wait" => rcvr.wft_cntr < params.wft_num /\ LastSent(rcvr.wft_cntr, 0)
  /\ rx = "block" => LastSent(params.wft_num, 0)
  /\ rx = "block_fc" => LastSent(params.wft_num, 0) /\ EndsBlock(Accepted)

Counting ==
  rcvr.state \in {"FC_SENDING", "FC_SENT"} /\ params.block_size > 0 =>
    bl_index = (IF rx \in {"wait", "block"} THEN Accepted - 1 ELSE Accepted)
               % params.block_size

SentBefore ==
  /\ \A i \in DOMAIN flow : flow[i].at \in 0..Accepted
  /\ Accepted > 0 => InARow(0, 0, 1)
  /\ \A k \in 1..Accepted - 1 : InARow(k, params.wft_num, BlockCTS(k))

FlowInv ==
  /\ SentBefore
  /\ IF buf = <<>> THEN bl_index = 0 ELSE Sending /\ Counting

LEMMA FlowInvSchedules == RoleTypeOK /\ ControlOK /\ FlowInv => FlowSchedule
  <1> SUFFICES ASSUME RoleTypeOK, FlowInv, rx = "poll", NEW k \in 0..Len(buf) - 1
               PROVE  IF k = 0 THEN InARow(k, 0, 1)
                      ELSE IF k = Len(buf) - 1 /\ rcvr.index = rcvr.len THEN InARow(k, 0, 0)
                      ELSE InARow(k, params.wft_num, BlockCTS(k))
    BY DEF FlowSchedule, BlockCTS
  <1>1. buf \in Seq(Chunk) /\ flow \in Seq(FlowSent) /\ params \in Params
    BY DEF RoleTypeOK
  <1>2. Len(buf) \in Nat /\ Len(flow) \in Nat /\ buf # <<>> /\ params.wft_num \in Nat
    BY <1>1, LenProperties, EmptySeq, ParamsTypes
  <1>3. ASSUME k = Accepted, NEW w \in Nat, NEW c \in Nat, LastSent(w, c)
        PROVE  InARow(k, w, c)
    <2> DEFINE b == Len(flow) - (w + c)
    <2>1. b \in 0..Len(flow) /\ b + w = Len(flow) - c /\ b + w + c = Len(flow)
      BY <1>2, <1>3 DEF LastSent
    <2> HIDE DEF b
    <2>2. /\ SentAt(k) = b + 1..b + w + c
          /\ \A i \in SentAt(k) : flow[i].fc.fs = IF i <= b + w THEN "WAIT" ELSE "CTS"
      BY <1>3, <2>1 DEF LastSent, b
    <2> QED
      BY <2>1, <2>2 DEF InARow
  <1>4. CASE k = Accepted
    <2>1. Sending /\ BlockCTS(k) \in Nat
      BY <1>2 DEF FlowInv, BlockCTS
    <2> QED
      BY <1>2, <1>3, <1>4, <2>1 DEF Sending, Accepted
  <1>5. CASE k # Accepted
    BY <1>2, <1>5 DEF FlowInv, SentBefore, Accepted
  <1> QED
    BY <1>4, <1>5

\* A Flow Control frame is added to those sent after the last frame.
LEMMA FlowGrows ==
  ASSUME RoleTypeOK, ControlOK, buf # <<>>, SentBefore, params' = params,
         NEW f \in FlowControl, NEW ok \in BOOLEAN, cantp_can_tx(f, ok)
  PROVE  /\ SentBefore'
         /\ \A w \in Nat : LastSent(w, 0) =>
              /\ f.fs = "WAIT" => LastSent(w + 1, 0)'
              /\ f.fs = "CTS" => LastSent(w, 1)'
  <1> DEFINE n == Len(flow)  e == [fc |-> f, at |-> Len(buf) - 1, sent |-> ok]
  <1>1. flow \in Seq(FlowSent) /\ buf \in Seq(Chunk) /\ flow' = Append(flow, e) /\ buf' = buf
    BY DEF RoleTypeOK, cantp_can_tx
  <1>2. n \in Nat /\ Len(buf) \in Nat /\ Len(buf) > 0
    BY <1>1, LenProperties, EmptySeq
  <1>3. e \in FlowSent /\ e.at = Accepted /\ e.fc = f /\ Accepted \in Nat /\ Accepted' = Accepted
    BY <1>1, <1>2 DEF FlowSent, Accepted
  <1> HIDE DEF e
  <1>4. /\ Len(flow') = n + 1 /\ flow'[n + 1] = e
        /\ \A i \in 1..n : flow'[i] = flow[i]
    BY <1>1, <1>3, AppendProperties
  <1>5. flow' \in Seq(FlowSent)
    BY <1>1, <1>3, AppendProperties
  <1>6. DOMAIN flow = 1..n /\ DOMAIN flow' = 1..n + 1
    BY <1>1, <1>4, <1>5, LenProperties
  <1> HIDE DEF n
  <1>7. SentAt(Accepted)' = SentAt(Accepted) \cup {n + 1}
    BY <1>2, <1>3, <1>4, <1>6 DEF SentAt
  <1>8. ASSUME NEW k, k # Accepted
        PROVE  /\ SentAt(k)' = SentAt(k)
               /\ \A i \in SentAt(k) : flow'[i] = flow[i]
    BY <1>2, <1>3, <1>4, <1>6, <1>8 DEF SentAt
  <1>9. ASSUME NEW k, k # Accepted, NEW w, NEW c, InARow(k, w, c) PROVE InARow(k, w, c)'
    <2>1. PICK b \in 0..n :
            /\ SentAt(k) = b + 1..b + w + c
            /\ \A i \in SentAt(k) : flow[i].fc.fs = IF i <= b + w THEN "WAIT" ELSE "CTS"
      BY <1>9 DEF InARow, n
    <2>2. b \in 0..Len(flow')
      BY <1>2, <1>4
    <2> QED
      BY <1>8, <1>9, <2>1, <2>2 DEF InARow
  <1>10. SentBefore'
    <2>1. \A i \in DOMAIN flow' : flow'[i].at \in 0..Accepted
      BY <1>2, <1>3, <1>4, <1>6 DEF SentBefore
    <2>2. Accepted > 0 => InARow(0, 0, 1)'
      BY <1>3, <1>9 DEF SentBefore
    <2>3. ASSUME NEW k \in 1..Accepted - 1 PROVE InARow(k, params.wft_num, BlockCTS(k))'
      <3>1. k # Accepted /\ BlockCTS(k)' = BlockCTS(k)
        BY <1>3 DEF BlockCTS, EndsBlock
      <3> QED
        BY <1>9, <3>1 DEF SentBefore
    <2> QED
      BY <1>3, <2>1, <2>2, <2>3 DEF SentBefore
  <1>11. ASSUME NEW w \in Nat, LastSent(w, 0), f.fs = "WAIT" PROVE LastSent(w + 1, 0)'
    <2>1. /\ w <= n /\ SentAt(Accepted) = n - w + 1..n
          /\ \A i \in SentAt(Accepted) : flow[i].fc.fs = "WAIT"
      BY <1>2, <1>11 DEF LastSent, n
    <2>2. SentAt(Accepted)' = (n + 1) - ((w + 1) + 0) + 1..n + 1
      BY <1>2, <1>7, <2>1
    <2>3. \A i \in SentAt(Accepted)' : flow'[i].fc.fs = "WAIT"
      BY <1>2, <1>3, <1>4, <1>7, <1>11, <2>1
    <2> QED
      BY <1>2, <1>3, <1>4, <2>1, <2>2, <2>3 DEF LastSent
  <1>12. ASSUME NEW w \in Nat, LastSent(w, 0), f.fs = "CTS" PROVE LastSent(w, 1)'
    <2>1. /\ w <= n /\ SentAt(Accepted) = n - w + 1..n
          /\ \A i \in SentAt(Accepted) : flow[i].fc.fs = "WAIT"
      BY <1>2, <1>12 DEF LastSent, n
    <2>2. SentAt(Accepted)' = (n + 1) - (w + 1) + 1..n + 1
      BY <1>2, <1>7, <2>1
    <2>3. \A i \in SentAt(Accepted)' : flow'[i].fc.fs = IF i <= n THEN "WAIT" ELSE "CTS"
      BY <1>2, <1>3, <1>4, <1>7, <1>12, <2>1
    <2> QED
      BY <1>2, <1>3, <1>4, <2>1, <2>2, <2>3 DEF LastSent
  <1> QED
    BY <1>10, <1>11, <1>12

\* A step that sends nothing and accepts nothing.
LEMMA FlowStill ==
  ASSUME UNCHANGED <<params, flow, buf>>
  PROVE  /\ SentBefore' = SentBefore /\ Accepted' = Accepted
         /\ \A w, c : LastSent(w, c)' = LastSent(w, c)
         /\ \A k : EndsBlock(k)' = EndsBlock(k) /\ BlockCTS(k)' = BlockCTS(k)
  BY DEF SentBefore, Accepted, LastSent, EndsBlock, BlockCTS, SentAt, InARow

\* The steps that leave the message being received as it is.
LEMMA FlowKept ==
  ASSUME FlowInv, UNCHANGED <<params, flow, buf, bl_index>>, rx' = rx,
         rcvr'.index = rcvr.index, rcvr'.len = rcvr.len, rcvr'.wft_cntr = rcvr.wft_cntr,
         rcvr'.state \in {"FC_SENDING", "FC_SENT"} => rcvr.state \in {"FC_SENDING", "FC_SENT"}
  PROVE  FlowInv'
  <1>1. Sending => Sending'
    BY FlowStill DEF Sending
  <1>2. Counting => Counting'
    BY FlowStill DEF Counting
  <1> QED
    BY <1>1, <1>2, FlowStill DEF FlowInv

\* A Consecutive Frame is accepted: nothing is sent for it yet.
LEMMA AcceptedFlow ==
  ASSUME RoleTypeOK, ControlOK, FlowInv, rx = "poll", NEW f, NEW p, ChunkOf(f) \in Chunk,
         CFAccepted(f, p)
  PROVE  FlowInv'
  <1> DEFINE remaining == rcvr.len - rcvr.index  bs == params.block_size
  <1>1. /\ buf \in Seq(Chunk) /\ flow \in Seq(FlowSent) /\ params \in Params
        /\ rcvr.state = "FC_SENT" /\ buf # <<>>
    BY DEF RoleTypeOK, ControlOK, CFAccepted, CFExpected
  <1>2. rcvr.len \in UInt16 /\ rcvr.index \in Nat /\ rcvr.len \in Nat
    <2>1. rcvr.len \in UInt16 /\ rcvr.index \in UInt16
      BY DEF RoleTypeOK
    <2> QED
      BY <2>1, TypeRanges
  <1>3. /\ buf' = Append(buf, ChunkOf(f)) /\ UNCHANGED <<params, bl_index, flow>>
        /\ remaining > 0 /\ rcvr'.len = rcvr.len
    BY DEF CFAccepted, RoleTypeOK
  <1>4. Len(buf) \in Nat /\ Len(flow) \in Nat /\ Len(buf) > 0 /\ Len(buf') = Len(buf) + 1
    BY <1>1, <1>3, LenProperties, EmptySeq, AppendProperties
  <1>5. Accepted \in Nat /\ Accepted' = Accepted + 1 /\ buf' # <<>>
    <2>1. buf' \in Seq(Chunk)
      BY <1>1, <1>3, AppendProperties
    <2> QED
      BY <1>4, <2>1, EmptySeq DEF Accepted
  <1>6. \/ /\ LastCF(remaining) /\ rcvr'.state = "TX_DONE"
           /\ rcvr'.index = rcvr'.len /\ rx' = "poll"
        \/ /\ ~LastCF(remaining) /\ rcvr'.state = "FC_SENT"
           /\ rcvr'.index # rcvr'.len /\ rcvr'.wft_cntr = 0
           /\ rx' = IF params.wft_num > 0 THEN "wait" ELSE "block"
    <2>1. /\ rcvr'.index = U16(rcvr.index + NToSend(remaining))
          /\ rcvr'.state = IF LastCF(remaining) THEN "TX_DONE" ELSE rcvr.state
          /\ rcvr'.wft_cntr = IF LastCF(remaining) THEN rcvr.wft_cntr ELSE 0
          /\ ~LastCF(remaining) => rx' = IF params.wft_num > 0 THEN "wait" ELSE "block"
          /\ LastCF(remaining) => rx' = rx
      BY DEF CFAccepted, RoleTypeOK
    <2>2. remaining \in Nat /\ remaining > 0 /\ rcvr.index + remaining = rcvr.len
      BY <1>2, <1>3
    <2> HIDE DEF remaining
    <2>3. CASE LastCF(remaining)
      <3>1. NToSend(remaining) = remaining
        BY <2>2, <2>3, NToSendValue
      <3>2. U16(rcvr.len) = rcvr.len
        BY <1>2, U16Below
      <3> QED
        BY <1>3, <2>1, <2>2, <2>3, <3>1, <3>2
    <2>4. CASE ~LastCF(remaining)
      <3>1. remaining > 7 /\ NToSend(remaining) = 7
        BY <2>2, <2>4, NToSendValue
      <3>2. rcvr.index + 7 < rcvr.len
        BY <1>2, <2>2, <3>1
      <3>3. U16(rcvr.index + 7) = rcvr.index + 7
        BY <1>2, <3>2, U16Below
      <3>4. rcvr'.index # rcvr.len
        BY <1>2, <2>1, <3>1, <3>2, <3>3
      <3> QED
        BY <1>1, <1>3, <2>1, <2>4, <3>4
    <2> QED
      BY <2>3, <2>4
  <1> HIDE DEF remaining
  <1>7. rcvr.index # rcvr.len
    <2>1. rcvr.len - rcvr.index > 0
      BY <1>3 DEF remaining
    <2> QED
      BY <1>2, <2>1
  <1>8. \A k, w, c : InARow(k, w, c)' = InARow(k, w, c)
    BY <1>3 DEF InARow, SentAt
  <1>9. \A k : BlockCTS(k)' = BlockCTS(k) /\ EndsBlock(k)' = EndsBlock(k)
    BY <1>3 DEF BlockCTS, EndsBlock
  <1>10. FlowSchedule
    BY FlowInvSchedules
  <1>11. /\ Accepted = 0 => InARow(0, 0, 1)
         /\ Accepted > 0 => InARow(Accepted, params.wft_num, BlockCTS(Accepted))
    <2>1. Accepted \in 0..Len(buf) - 1
      BY <1>4 DEF Accepted
    <2> QED
      BY <1>7, <1>10, <2>1 DEF FlowSchedule, BlockCTS, Accepted
  <1>12. SentBefore'
    <2>1. \A i \in DOMAIN flow' : flow'[i].at \in 0..Accepted'
      BY <1>3, <1>5 DEF FlowInv, SentBefore
    <2>2. InARow(0, 0, 1)'
      BY <1>5, <1>8, <1>11 DEF FlowInv, SentBefore
    <2>3. ASSUME NEW k \in 1..Accepted' - 1 PROVE InARow(k, params.wft_num, BlockCTS(k))
      <3>1. CASE k = Accepted
        BY <1>5, <1>11, <3>1
      <3>2. CASE k # Accepted
        <4>1. k \in 1..Accepted - 1
          BY <1>5, <3>2
        <4> QED
          BY <4>1 DEF FlowInv, SentBefore
      <3> QED
        BY <3>1, <3>2
    <2> QED
      BY <1>3, <1>8, <1>9, <2>1, <2>2, <2>3 DEF SentBefore
  <1>13. LastSent(0, 0)'
    <2>1. SentAt(Accepted + 1) = {}
      <3>1. \A i \in DOMAIN flow : flow[i].at \in 0..Accepted
        BY DEF FlowInv, SentBefore
      <3> QED
        BY <1>5, <3>1 DEF SentAt
    <2>2. SentAt(Accepted)' = {}
      BY <1>3, <1>5, <2>1 DEF SentAt
    <2> QED
      BY <1>3, <1>4, <2>2 DEF LastSent
  <1>14. Sending'
    <2>1. params.wft_num \in Nat
      BY <1>1, ParamsTypes
    <2> QED
      BY <1>3, <1>5, <1>6, <1>13, <2>1 DEF Sending
  <1>15. Counting'
    <2>1. ASSUME ~LastCF(remaining), bs > 0 PROVE bl_index = Accepted % bs
      BY <1>1, <2>1 DEF FlowInv, Counting
    <2>2. ~LastCF(remaining) => rx' \in {"wait", "block"} /\ Accepted' - 1 = Accepted
      BY <1>5, <1>6
    <2> QED
      BY <1>3, <1>6, <2>1, <2>2 DEF Counting
  <1> QED
    BY <1>5, <1>12, <1>14, <1>15 DEF FlowInv

\* A frame is handled.
LEMMA HandlerFlow ==
  ASSUME RoleTypeOK, ControlOK, FlowInv, rx = "poll", NEW f, NEW p, ChunkOf(f) \in Chunk,
         cantp_canrx_cb(f, p)
  PROVE  FlowInv'
  <1>1. CASE FFRefused(f) \/ CFIgnored(f, p)
    BY <1>1, FlowKept DEF FFRefused, CFIgnored, rvars
  <1>2. CASE rx_single_frame(f, p) \/ CFDiscarded(f, p)
    BY <1>2, FlowKept DEF rx_single_frame, CFDiscarded, CFExpected, RoleTypeOK
  <1>3. CASE rcvr_rx_first_frame(f, p)
    <2>1. buf = <<>> /\ bl_index = 0 /\ flow \in Seq(FlowSent) /\ params \in Params
      BY <1>3 DEF FFRejected, FFNoBuffer, FFAccepted, rcvr_rx_first_frame, FlowInv,
                  ControlOK, RoleTypeOK
    <2>2. CASE FFRejected(f, p) \/ FFNoBuffer(f, p)
      BY <2>1, <2>2, FlowStill DEF FFRejected, FFNoBuffer, FlowInv
    <2>3. CASE FFAccepted(f, p)
      <3>1. /\ buf' = <<ChunkOf(f)>> /\ UNCHANGED <<params, bl_index, flow>> /\ rx' = "fc"
        BY <2>3 DEF FFAccepted
      <3>2. Len(buf') = 1 /\ buf' # <<>> /\ Accepted' = 0
        BY <3>1 DEF Accepted
      <3>3. DOMAIN flow = {} /\ Len(flow) = 0
        <4>1. Len(buf) = 0
          BY <2>1, EmptySeq
        <4>2. DOMAIN flow = {}
          <5>1. 0..Accepted = {}
            BY <4>1 DEF Accepted
          <5>2. \A i \in DOMAIN flow : flow[i].at \in 0..Accepted
            BY DEF FlowInv, SentBefore
          <5> QED
            BY <5>1, <5>2
        <4>3. DOMAIN flow = 1..Len(flow) /\ Len(flow) \in Nat
          BY <2>1, LenProperties
        <4>4. Len(flow) = 0
          <5> DEFINE n == Len(flow)
          <5>1. n \in Nat /\ 1..n = {}
            BY <4>2, <4>3
          <5> HIDE DEF n
          <5>2. n = 0
            BY <5>1
          <5> QED
            BY <5>2 DEF n
        <4> QED
          BY <4>2, <4>4
      <3>4. SentBefore'
        BY <3>1, <3>2, <3>3 DEF SentBefore
      <3>5. LastSent(0, 0)'
        BY <3>1, <3>3 DEF LastSent, SentAt
      <3>6. Sending'
        BY <3>1, <3>2, <3>5 DEF Sending
      <3>7. Counting'
        <4>1. params.block_size > 0 => 0 % params.block_size = 0
          BY <2>1, ParamsTypes
        <4> QED
          BY <2>1, <3>1, <3>2, <4>1 DEF Counting
      <3> QED
        BY <3>2, <3>4, <3>6, <3>7 DEF FlowInv
    <2> QED
      BY <1>3, <2>2, <2>3 DEF rcvr_rx_first_frame
  <1>4. CASE CFAccepted(f, p)
    BY <1>4, AcceptedFlow
  <1> QED
    BY <1>1, <1>2, <1>3, <1>4 DEF cantp_canrx_cb, rcvr_rx_consecutive_frame

\* The steps of the receive thread between two frames.
LEMMA ThreadFlow ==
  ASSUME RoleTypeOK, ControlOK, FlowInv,
         \/ \E ok \in BOOLEAN : SendCTS(ok) \/ SendWait(ok)
         \/ EndBlock \/ AwaitNextCF \/ cantp_rcvr_timer_cb
  PROVE  FlowInv'
  <1>1. /\ params \in Params /\ params.wft_num \in UInt8 /\ params.block_size \in UInt8
        /\ params.wft_num \in Nat /\ params.block_size \in Nat
    BY ParamsTypes DEF RoleTypeOK
  <1>2. rcvr.wft_cntr \in UInt8 /\ buf \in Seq(Chunk)
    BY DEF RoleTypeOK
  <1>3. rx # "poll" => buf # <<>> /\ Sending /\ Counting /\ Accepted \in Nat
    <2>1. rx # "poll" => buf # <<>>
      BY DEF ControlOK
    <2> QED
      BY <1>2, <2>1, LenProperties, EmptySeq DEF FlowInv, Accepted
  <1>4. ASSUME NEW ok \in BOOLEAN, SendCTS(ok) PROVE FlowInv'
    <2>1. /\ rx \in {"fc", "block_fc"} /\ rx' = "poll" /\ cantp_can_tx(CTSFrame, ok)
          /\ rcvr'.index = rcvr.index /\ rcvr'.len = rcvr.len
          /\ UNCHANGED <<params, bl_index, buf>>
      BY <1>4 DEF SendCTS, cantp_can_tx, RoleTypeOK
    <2>2. SentBefore' /\ (\A w \in Nat : LastSent(w, 0) => LastSent(w, 1)')
      BY <1>3, <2>1, FlowFrames, FlowGrows DEF FlowInv, CTSFrame
    <2>3. Accepted' = Accepted /\ (\A k : BlockCTS(k)' = BlockCTS(k))
      BY <2>1 DEF Accepted, BlockCTS, EndsBlock
    <2>4. Sending'
      <3>1. CASE rx = "fc"
        BY <1>3, <2>1, <2>2, <2>3, <3>1 DEF Sending
      <3>2. CASE rx = "block_fc"
        <4>1. /\ Accepted > 0 /\ rcvr.index # rcvr.len /\ BlockCTS(Accepted) = 1
              /\ LastSent(params.wft_num, 0)
          BY <1>3, <3>2 DEF Sending, BlockCTS
        <4> QED
          BY <1>1, <1>3, <2>1, <2>2, <2>3, <4>1 DEF Sending
      <3> QED
        BY <2>1, <3>1, <3>2
    <2>5. Counting'
      <3>1. rcvr.state \in {"FC_SENDING", "FC_SENT"}
        BY <2>1 DEF ControlOK
      <3> QED
        BY <1>3, <2>1, <2>3, <3>1 DEF Counting
    <2> QED
      BY <1>3, <2>1, <2>2, <2>4, <2>5 DEF FlowInv
  <1>5. ASSUME NEW ok \in BOOLEAN, SendWait(ok) PROVE FlowInv'
    <2>1. /\ rx = "wait" /\ cantp_can_tx(WaitFrame, ok)
          /\ rcvr'.index = rcvr.index /\ rcvr'.len = rcvr.len
          /\ UNCHANGED <<params, bl_index, buf>>
          /\ rcvr'.wft_cntr = U8(rcvr.wft_cntr + 1)
          /\ rx' = IF rcvr'.wft_cntr < params.wft_num THEN "wait" ELSE "block"
      BY <1>5 DEF SendWait, cantp_can_tx, RoleTypeOK
    <2>2. SentBefore' /\ (\A w \in Nat : LastSent(w, 0) => LastSent(w + 1, 0)')
      BY <1>3, <2>1, FlowFrames, FlowGrows DEF FlowInv, WaitFrame
    <2>3. Accepted' = Accepted
      BY <2>1 DEF Accepted
    <2>4. /\ rcvr.wft_cntr \in Nat /\ rcvr.wft_cntr < params.wft_num
          /\ LastSent(rcvr.wft_cntr, 0) /\ Accepted > 0 /\ rcvr.index # rcvr.len
      BY <1>2, <1>3, <2>1, TypeRanges DEF Sending
    <2>5. rcvr'.wft_cntr = rcvr.wft_cntr + 1
      BY <1>1, <2>1, <2>4 DEF U8, UInt8
    <2>6. Sending'
      <3>1. rx' = "block" => params.wft_num = rcvr.wft_cntr + 1
        BY <1>1, <2>1, <2>4, <2>5
      <3> QED
        BY <2>1, <2>2, <2>3, <2>4, <2>5, <3>1 DEF Sending
    <2>7. Counting'
      <3>1. rcvr.state \in {"FC_SENDING", "FC_SENT"}
        BY <2>1 DEF ControlOK
      <3> QED
        BY <1>3, <2>1, <2>3, <3>1 DEF Counting
    <2> QED
      BY <1>3, <2>1, <2>2, <2>6, <2>7 DEF FlowInv
  <1>6. ASSUME rx = "block", params.block_size > 0
        PROVE  /\ U8(bl_index + 1) = bl_index + 1
               /\ BlockFull => EndsBlock(Accepted)
               /\ ~BlockFull => ~EndsBlock(Accepted) /\ Accepted % params.block_size = bl_index + 1
    <2> DEFINE b == params.block_size
    <2>1. rcvr.state = "FC_SENT" /\ Accepted > 0 /\ bl_index = (Accepted - 1) % b
      BY <1>3, <1>6 DEF ControlOK, Sending, Counting
    <2>2. Accepted - 1 \in Nat /\ b \in Nat /\ b > 0 /\ (Accepted - 1) + 1 = Accepted
      BY <1>1, <1>3, <1>6, <2>1
    <2>3. /\ bl_index \in Nat /\ bl_index < b
          /\ bl_index + 1 = b => Accepted % b = 0
          /\ bl_index + 1 < b => Accepted % b = bl_index + 1
      BY <2>1, <2>2, NextRemainder
    <2>4. U8(bl_index + 1) = bl_index + 1
      BY <1>1, <2>3 DEF U8, UInt8
    <2>5. BlockFull <=> bl_index + 1 = b
      BY <1>1, <1>6, <2>3, <2>4 DEF BlockFull
    <2> QED
      BY <1>1, <1>6, <2>3, <2>4, <2>5 DEF EndsBlock
  <1>7. ASSUME EndBlock PROVE FlowInv'
    <2>1. /\ rx = "block" /\ BlockFull /\ params.block_size > 0 /\ bl_index' = 0
          /\ rx' = "block_fc" /\ UNCHANGED <<params, rcvr, buf, flow>>
      BY <1>7 DEF EndBlock, BlockFull
    <2>2. EndsBlock(Accepted)
      BY <1>6, <2>1
    <2>3. Sending'
      BY <1>3, <2>1, <2>2, FlowStill DEF Sending
    <2>4. Counting'
      BY <2>1, <2>2, FlowStill DEF Counting, EndsBlock
    <2> QED
      BY <1>3, <2>1, <2>3, <2>4, FlowStill DEF FlowInv
  <1>8. ASSUME AwaitNextCF PROVE FlowInv'
    <2>1. /\ rx = "block" /\ ~BlockFull /\ rx' = "poll" /\ UNCHANGED <<params, rcvr, buf, flow>>
          /\ params.block_size > 0 => bl_index' = U8(bl_index + 1)
      BY <1>8 DEF AwaitNextCF
    <2>2. BlockCTS(Accepted) = 0
      BY <1>1, <1>6, <2>1 DEF BlockCTS, EndsBlock
    <2>3. Sending'
      BY <1>3, <2>1, <2>2, FlowStill DEF Sending
    <2>4. Counting'
      BY <1>1, <1>6, <2>1, FlowStill DEF Counting
    <2> QED
      BY <1>3, <2>1, <2>3, <2>4, FlowStill DEF FlowInv
  <1>9. ASSUME cantp_rcvr_timer_cb PROVE FlowInv'
    BY <1>9, FlowKept DEF cantp_rcvr_timer_cb
  <1> QED
    BY <1>4, <1>5, <1>7, <1>8, <1>9

LEMMA RoleInitFlow == RoleInit => FlowInv
  <1> SUFFICES ASSUME RoleInit PROVE FlowInv
    OBVIOUS
  <1>1. buf = <<>> /\ flow = <<>> /\ bl_index = 0 /\ Len(buf) = 0 /\ DOMAIN flow = {}
    BY DEF RoleInit
  <1> QED
    BY <1>1 DEF FlowInv, SentBefore, Accepted

LEMMA FlowStep == TypedInv /\ FlowInv /\ [Next]_vars => FlowInv'
  <1> SUFFICES ASSUME TypedInv, FlowInv, [Next]_vars PROVE FlowInv'
    OBVIOUS
  <1>1. TypeOK /\ RoleTypeOK /\ ControlOK
    BY DEF TypedInv, TypeOK
  <1>2. ASSUME UNCHANGED rvars PROVE FlowInv'
    BY <1>2, FlowKept DEF rvars
  <1>3. ASSUME NEW p \in Peers, cantp_rx_task(p) PROVE FlowInv'
    <2>1. HasFrame(p) /\ cantp_canrx_cb(NextFrame(p), p) /\ rx = "poll"
      BY <1>3 DEF cantp_rx_task
    <2> QED
      BY <1>1, <2>1, NextFrameTypes, HandlerFlow
  <1>4. ASSUME \/ \E ok \in BOOLEAN : SendCTS(ok) \/ SendWait(ok)
               \/ EndBlock \/ AwaitNextCF \/ cantp_rcvr_timer_cb
        PROVE  FlowInv'
    BY <1>1, <1>4, ThreadFlow
  <1> QED
    BY <1>2, <1>3, <1>4 DEF Next, PeerStart, FrameLost, vars

\* Between frames the Flow Control sent is what the accepted frames call for,
\* whatever the peers send, lose and give up and whether or not the Flow Control
\* frames go out: the thread's loop of WAITs, the block count kept in the Sender
\* role's uint8_t and the test for the last frame agree on every message.
THEOREM Scheduling == Spec => []FlowSchedule
  <1>1. TypedInv /\ FlowInv => FlowSchedule
    BY FlowInvSchedules DEF TypedInv, TypeOK
  <1>2. Init => TypedInv /\ FlowInv
    BY TypedInit, RoleInitFlow DEF Init
  <1>3. TypedInv /\ FlowInv /\ [Next]_vars => (TypedInv /\ FlowInv)'
    BY TypedStep, FlowStep
  <1> QED
    BY <1>1, <1>2, <1>3, PTL DEF Spec

=============================================================================
