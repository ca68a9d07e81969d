----------------------- MODULE CanTpReassembly_proofs -----------------------
(***************************************************************************)
(* What the Receiver reassembles: its buffer is a prefix of one message    *)
(* (BufferIntact), as long as a peer does not give up while its Flow       *)
(* Control frame is being sent and fewer than 16 frames are lost, after    *)
(* which a four-bit sequence number is right again.                        *)
(***************************************************************************)
EXTENDS CanTpReceiver_proofs

----------------------------------------------------------------------------
(* Arithmetic of the segmentation and of the sequence number.              *)

LEMMA LengthsNat == \A l \in Lengths : l \in Nat
  BY DEF Lengths

LEMMA MoreThanOne == \A l \in Nat : l > CANTP_SF_NUM_DATA_BYTES => NumFrames(l) > 1
  BY DEF NumFrames, NumCFs, CANTP_SF_NUM_DATA_BYTES, CANTP_FF_NUM_DATA_BYTES,
         CANTP_CF_NUM_DATA_BYTES

\* After k frames of a longer message some bytes are missing, and the k-th
\* Consecutive Frame brings the last of them just if it is the last frame.
LEMMA Progress ==
  ASSUME NEW l \in Nat, l > CANTP_SF_NUM_DATA_BYTES, NEW k \in Nat, k > 0, k < NumFrames(l)
  PROVE  LET remaining == l - CFOffset(k) IN
         /\ remaining > 0
         /\ IF LastCF(remaining)
            THEN k + 1 = NumFrames(l) /\ CFOffset(k) + NToSend(remaining) = l
            ELSE k + 1 < NumFrames(l) /\ CFOffset(k) + NToSend(remaining) = CFOffset(k + 1)
  <1> DEFINE q == l \div 7  remaining == l - CFOffset(k)
  <1>1. NumFrames(l) = 1 + q
    BY DEF NumFrames, NumCFs, CANTP_SF_NUM_DATA_BYTES, CANTP_FF_NUM_DATA_BYTES,
           CANTP_CF_NUM_DATA_BYTES
  <1>2. q \in Nat /\ 7 * q <= l /\ l < 7 * q + 7
    OBVIOUS
  <1>3. remaining = l - 7 * k + 1 /\ CFOffset(k + 1) = CFOffset(k) + 7 /\ CFOffset(k) = 7 * k - 1
    BY DEF CFOffset, CANTP_FF_NUM_DATA_BYTES, CANTP_CF_NUM_DATA_BYTES
  <1>4. LastCF(remaining) <=> remaining <= 7
    BY DEF LastCF, CANTP_CF_NUM_DATA_BYTES
  <1>5. /\ remaining > 7 => NToSend(remaining) = 7
        /\ 0 <= remaining /\ remaining <= 7 => NToSend(remaining) = remaining
    BY <1>3 DEF NToSend, U8, CANTP_CF_NUM_DATA_BYTES
  <1> HIDE DEF q, remaining
  <1>6. remaining > 0
    BY <1>1, <1>2, <1>3
  <1>7. CASE remaining <= 7
    <2>1. k + 1 = NumFrames(l)
      BY <1>1, <1>2, <1>3, <1>7
    <2>2. CFOffset(k) + NToSend(remaining) = l
      BY <1>3, <1>5, <1>6, <1>7
    <2> QED
      BY <1>4, <1>6, <1>7, <2>1, <2>2 DEF remaining
  <1>8. CASE ~(remaining <= 7)
    <2>1. k + 1 < NumFrames(l)
      BY <1>1, <1>2, <1>3, <1>8
    <2>2. CFOffset(k) + NToSend(remaining) = CFOffset(k + 1)
      BY <1>3, <1>5, <1>8
    <2> QED
      BY <1>4, <1>6, <1>8, <2>1, <2>2 DEF remaining
  <1> QED
    BY <1>7, <1>8

\* How far the local sequence number lags behind the peer's next frame: as
\* long as the numbers match only if it does not lag, no frame is mistaken.
Lag(next, sn) == (next - 1 - sn) % 16

LEMMA LagSteps ==
  ASSUME NEW next \in Int, NEW sn \in SeqNum
  PROVE  /\ NextSn(sn) = next % 16 <=> Lag(next, sn) = 0
         /\ Lag(next + 1, NextSn(sn)) = Lag(next, sn)
         /\ Lag(next, sn) < 15 => Lag(next + 1, sn) = Lag(next, sn) + 1
         /\ Lag(next, sn) \in Nat
         /\ Lag(1, 0) = 0
  BY DEF Lag, NextSn, SeqNum

----------------------------------------------------------------------------
(* The inductive invariant.  While a message is being received its sender  *)
(* is either still on it, and ahead of the Receiver by no more frames than *)
(* were lost, or has given up, and then no Flow Control frame will come to *)
(* let it send Consecutive Frames of another message.                      *)

Message == sent[buf[1].msg]

PeerIds ==
  \A p \in Peers : peer[p].msg > 0 => sent[peer[p].msg].id = p

Announced ==
  buf # <<>> => buf[1].msg \in 1..Len(sent) /\ Message.len > CANTP_SF_NUM_DATA_BYTES

Following ==
  rcvr.state \in {"FC_SENDING", "FC_SENT"} =>
    /\ Len(buf) < NumFrames(Message.len)
    /\ IF peer[rcvr.id_pair].msg = buf[1].msg
       THEN LET next == peer[rcvr.id_pair].next IN
            /\ next > 0
            /\ Lag(next, rcvr.sn) <= lost
            /\ Lag(next, rcvr.sn) = 0 => Len(buf) = next
       ELSE /\ ~peer[rcvr.id_pair].cts /\ peer[rcvr.id_pair].next <= 1
            /\ rx = "poll"

BufferInv == TypedInv /\ PeerIds /\ Announced /\ BufferIntact /\ Following

\* The frame a peer sends next, and which message it is of.
LEMMA FrameOf ==
  ASSUME TypedInv, PeerIds, NEW p \in Peers, HasFrame(p)
  PROVE  \E i \in 1..Len(sent), l \in Lengths, k \in Nat :
           /\ i = peer[p].msg /\ l = sent[i].len /\ k = peer[p].next /\ sent[i].id = p
           /\ k < NumFrames(l) /\ (k > 0 => peer[p].cts)
           /\ NextFrame(p) = Segment(i, l, k) /\ NextFrame(p).msg = i
           /\ k > 0 => NextFrame(p).pci = "CF" /\ NextFrame(p).sn = k % 16
           /\ k = 0 => \/ NextFrame(p).pci = "SF"
                      \/ /\ NextFrame(p).pci = "FF" /\ NextFrame(p).dl = l
                         /\ l > CANTP_SF_NUM_DATA_BYTES
  <1> DEFINE i == peer[p].msg  l == sent[i].len  k == peer[p].next  f == NextFrame(p)
  <1>1. TypeOK
    BY DEF TypedInv
  <1>2. i \in 1..Len(sent) /\ k \in Nat
    BY <1>1, PeerTypes DEF HasFrame
  <1>3. l \in Lengths
    BY <1>1, <1>2, SentTypes DEF TypeOK, BusTypeOK
  <1>4. k < NumFrames(l) /\ (k > 0 => peer[p].cts)
    BY <1>2 DEF HasFrame
  <1>5. f = Segment(i, l, k)
    BY DEF NextFrame
  <1>6. sent[i].id = p
    BY DEF PeerIds, HasFrame
  <1> HIDE DEF i, l, k, f
  <1>7. FFLen(l) = l /\ l \in Nat
    BY <1>3 DEF FFLen, Lengths
  <1>8. f.msg = i
    BY <1>5 DEF Segment, SingleFrame, FirstFrame, ConsecutiveFrame
  <1>9. k > 0 => f.pci = "CF" /\ f.sn = k % 16
    BY <1>2, <1>5 DEF Segment, ConsecutiveFrame
  <1>10. k = 0 => \/ f.pci = "SF"
                  \/ f.pci = "FF" /\ f.dl = l /\ l > CANTP_SF_NUM_DATA_BYTES
    BY <1>5, <1>7 DEF Segment, SingleFrame, FirstFrame, CANTP_SF_NUM_DATA_BYTES
  <1> QED
    BY <1>2, <1>3, <1>4, <1>5, <1>6, <1>8, <1>9, <1>10, Zenon DEF i, l, k, f

\* What the invariant says of a step that leaves the buffer alone.
LEMMA BufferKept ==
  ASSUME Announced, BufferIntact, buf' = buf,
         Len(sent) \in Nat, Len(sent') \in Nat, Len(sent') >= Len(sent),
         \A n \in 1..Len(sent) : sent'[n] = sent[n],
         buf # <<>> => /\ rcvr'.id_pair = rcvr.id_pair /\ rcvr'.len = rcvr.len
                       /\ rcvr'.index = rcvr.index
  PROVE  Announced' /\ BufferIntact' /\ (buf # <<>> => Message' = Message)
  <1> SUFFICES ASSUME buf # <<>> PROVE Announced' /\ BufferIntact' /\ Message' = Message
    BY DEF Announced, BufferIntact
  <1>1. buf[1].msg \in 1..Len(sent)
    BY DEF Announced
  <1>2. Message' = Message /\ buf'[1] = buf[1]
    BY <1>1 DEF Message
  <1>3. buf[1].msg \in 1..Len(sent')
    BY <1>1
  <1>4. Announced'
    BY <1>2, <1>3 DEF Announced
  <1>5. BufferIntact'
    BY <1>2 DEF BufferIntact, Message
  <1> QED
    BY <1>2, <1>4, <1>5

\* While something is received it comes from a peer.
LEMMA Receiving ==
  ASSUME BufferInv, rcvr.state \in {"FC_SENDING", "FC_SENT"}
  PROVE  /\ buf # <<>> /\ rcvr.id_pair \in Peers /\ rcvr.id_pair = Message.id
         /\ buf[1].msg \in 1..Len(sent) /\ buf[1].msg \in Nat
         /\ Message.len \in Nat /\ Message.len > CANTP_SF_NUM_DATA_BYTES
         /\ rcvr.sn \in SeqNum /\ lost \in Nat /\ lost <= MaxLost /\ Len(buf) \in Nat
         /\ peer[rcvr.id_pair].next \in Nat
  <1>1. buf # <<>> /\ TypeOK /\ RoleTypeOK /\ BusTypeOK
    BY DEF BufferInv, TypedInv, ControlOK, TypeOK
  <1>2. buf[1].msg \in 1..Len(sent) /\ Len(sent) \in Nat
    BY <1>1, LenProperties DEF BufferInv, Announced, BusTypeOK
  <1>3. Message.id \in Peers /\ Message.len \in Lengths
    BY <1>1, <1>2, SentTypes DEF BusTypeOK, Message
  <1>4. rcvr.id_pair = Message.id
    BY <1>1 DEF BufferInv, BufferIntact, Message
  <1>5. Message.len \in Nat /\ Message.len > CANTP_SF_NUM_DATA_BYTES
    <2>1. Message.len \in Nat
      BY <1>3, LengthsNat
    <2>2. Announced
      BY DEF BufferInv
    <2> QED
      BY <1>1, <2>1, <2>2, Zenon DEF Announced
  <1>6. lost \in Nat /\ lost <= MaxLost /\ rcvr.sn \in SeqNum /\ Len(buf) \in Nat
    BY <1>1, BoundsAssumption, LenProperties DEF BusTypeOK, RoleTypeOK
  <1>7. peer[rcvr.id_pair].next \in Nat
    BY <1>1, <1>3, <1>4, PeerTypes
  <1> QED
    BY <1>1, <1>2, <1>3, <1>4, <1>5, <1>6, <1>7

\* A peer starts a message.
LEMMA StartKeeps ==
  ASSUME ~LateFC, BufferInv, NEW p \in Peers, NEW l \in Lens[p], PeerStart(p, l)
  PROVE  PeerIds' /\ Announced' /\ BufferIntact' /\ Following'
  <1>1. TypeOK /\ BusTypeOK /\ Len(sent) \in Nat /\ sent \in Seq([id : Peers, len : Lengths])
    BY LenProperties DEF BufferInv, TypedInv, TypeOK, BusTypeOK
  <1>2. /\ sent' = Append(sent, [id |-> p, len |-> l])
        /\ peer' = [peer EXCEPT ![p] = [msg |-> Len(sent) + 1, next |-> 0, cts |-> FALSE]]
        /\ rx = "poll" /\ rx' = rx /\ buf' = buf /\ rcvr' = rcvr /\ lost' = lost
    BY DEF PeerStart, rvars
  <1>3. /\ Len(sent') = Len(sent) + 1 /\ sent'[Len(sent) + 1].id = p
        /\ \A n \in 1..Len(sent) : sent'[n] = sent[n]
    <2>1. l \in Lengths
      BY LensAssumption
    <2>2. [id |-> p, len |-> l] \in [id : Peers, len : Lengths]
      BY <2>1
    <2> QED
      BY <1>1, <1>2, <2>2, AppendProperties
  <1>4. Announced' /\ BufferIntact' /\ (buf # <<>> => Message' = Message)
    BY <1>1, <1>2, <1>3, BufferKept DEF BufferInv
  <1>5. peer \in [Peers -> [msg : 0..Len(sent), next : Nat, cts : BOOLEAN]]
    BY <1>1 DEF BusTypeOK
  <1>6. PeerIds'
    <2> SUFFICES ASSUME NEW q \in Peers, peer'[q].msg > 0 PROVE sent'[peer'[q].msg].id = q
      BY DEF PeerIds
    <2>1. CASE q = p
      BY <1>2, <1>3, <1>5, <2>1
    <2>2. CASE q # p
      <3>1. peer'[q] = peer[q] /\ peer[q].msg \in 1..Len(sent)
        BY <1>1, <1>2, <1>5, <2>2, PeerTypes
      <3>2. sent[peer[q].msg].id = q
        BY <3>1 DEF BufferInv, PeerIds
      <3> QED
        BY <1>3, <3>1, <3>2
    <2> QED
      BY <2>1, <2>2
  <1>7. Following'
    <2> SUFFICES ASSUME rcvr.state \in {"FC_SENDING", "FC_SENT"} PROVE Following'
      BY <1>2 DEF Following
    <2>1. /\ buf # <<>> /\ rcvr.id_pair \in Peers
          /\ buf[1].msg \in 1..Len(sent)
      BY Receiving
    <2>2. CASE rcvr.id_pair = p
      <3>1. peer'[p].msg = Len(sent) + 1 /\ peer'[p].next = 0 /\ peer'[p].cts = FALSE
        BY <1>2, <1>5
      <3>2. peer'[p].msg # buf[1].msg
        BY <1>1, <2>1, <3>1
      <3> QED
        BY <1>2, <1>4, <2>1, <2>2, <3>1, <3>2 DEF BufferInv, Following
    <2>3. CASE rcvr.id_pair # p
      <3>1. peer'[rcvr.id_pair] = peer[rcvr.id_pair]
        BY <1>2, <1>5, <2>1, <2>3
      <3> QED
        BY <1>2, <1>4, <2>1, <3>1 DEF BufferInv, Following
    <2> QED
      BY <2>2, <2>3
  <1> QED
    BY <1>4, <1>6, <1>7

\* A peer's next frame is on the bus.
LEMMA Advanced ==
  ASSUME TypedInv, PeerIds, NEW p \in Peers, Advance(p)
  PROVE  /\ PeerIds' /\ sent' = sent
         /\ \A q \in Peers : peer'[q].msg = peer[q].msg /\ peer'[q].cts = peer[q].cts
         /\ \A q \in Peers : q # p => peer'[q] = peer[q]
         /\ peer'[p].next = peer[p].next + 1
  <1>1. peer \in [Peers -> [msg : 0..Len(sent), next : Nat, cts : BOOLEAN]]
    BY DEF TypedInv, TypeOK, BusTypeOK
  <1>2. \A q \in Peers : q # p => peer'[q] = peer[q]
    BY <1>1 DEF Advance
  <1>3. /\ peer'[p].msg = peer[p].msg /\ peer'[p].cts = peer[p].cts
        /\ peer'[p].next = peer[p].next + 1
    <2>1. peer[p] \in [msg : 0..Len(sent), next : Nat, cts : BOOLEAN]
      BY <1>1
    <2>2. peer'[p] = [peer[p] EXCEPT !.next = @ + 1]
      BY <1>1 DEF Advance
    <2> QED
      BY <2>1, <2>2
  <1>4. sent' = sent
    BY DEF Advance
  <1>5. \A q \in Peers : peer'[q].msg = peer[q].msg /\ peer'[q].cts = peer[q].cts
    BY <1>2, <1>3
  <1> QED
    BY <1>2, <1>3, <1>4, <1>5 DEF PeerIds

\* A frame that is lost, or that the Receiver does not count.
LEMMA AdvanceKeeps ==
  ASSUME MaxLost < 16, BufferInv, NEW p \in Peers, HasFrame(p), Advance(p),
         buf' = buf, rcvr' = rcvr, rx' = rx,
         \/ lost < MaxLost /\ lost' = lost + 1
         \/ /\ lost' = lost
            /\ rcvr.state \in {"FC_SENDING", "FC_SENT"} =>
                 p # rcvr.id_pair \/ peer[p].next = 0
  PROVE  PeerIds' /\ Announced' /\ BufferIntact' /\ Following'
  <1>1. PeerIds' /\ sent' = sent
    BY Advanced DEF BufferInv
  <1>2. Announced' /\ BufferIntact' /\ (buf # <<>> => Message' = Message)
    <2>1. Len(sent) \in Nat
      BY LenProperties DEF BufferInv, TypedInv, TypeOK, BusTypeOK
    <2> QED
      BY <1>1, <2>1, BufferKept DEF BufferInv
  <1>3. ASSUME rcvr.state \in {"FC_SENDING", "FC_SENT"} PROVE Following'
    <2> DEFINE q == rcvr.id_pair  n == peer[q].next
    <2>1. /\ buf # <<>> /\ q \in Peers /\ n \in Nat
          /\ rcvr.sn \in SeqNum /\ lost \in Nat /\ lost <= MaxLost
      BY <1>3, Receiving
    <2> DEFINE d == Lag(n, rcvr.sn)
    <2>2. d \in Nat /\ (d < 15 => Lag(n + 1, rcvr.sn) = d + 1)
      BY <2>1, LagSteps
    <2> HIDE DEF n, d
    <2>3. CASE q # p
      <3>1. peer'[q] = peer[q] /\ lost' >= lost /\ lost' \in Nat
        BY <2>1, <2>3, Advanced DEF BufferInv
      <3>2. Len(buf) < NumFrames(Message.len)
        BY <1>3 DEF BufferInv, Following
      <3>3. CASE peer[q].msg = buf[1].msg
        <4>1. n > 0 /\ d <= lost /\ (d = 0 => Len(buf) = n)
          BY <1>3, <3>3 DEF BufferInv, Following, n, d
        <4>2. d <= lost'
          BY <2>1, <2>2, <3>1, <4>1
        <4> QED
          BY <1>2, <2>1, <3>1, <3>2, <3>3, <4>1, <4>2 DEF Following, n, d
      <3>4. CASE peer[q].msg # buf[1].msg
        <4>1. ~peer[q].cts /\ n <= 1 /\ rx = "poll"
          BY <1>3, <3>4 DEF BufferInv, Following, n
        <4> QED
          BY <1>2, <2>1, <3>1, <3>2, <3>4, <4>1 DEF Following, n
      <3> QED
        BY <3>3, <3>4
    <2>4. CASE q = p
      <3>1. peer'[q].msg = peer[q].msg /\ peer'[q].next = n + 1 /\ peer'[q].cts = peer[q].cts
        BY <2>1, <2>4, Advanced DEF BufferInv, n
      <3>2. CASE peer[q].msg = buf[1].msg
        <4>1. n > 0 /\ d <= lost
          BY <1>3, <3>2 DEF BufferInv, Following, n, d
        <4>2. lost < MaxLost /\ lost' = lost + 1
          BY <1>3, <2>1, <2>4, <4>1 DEF n
        <4>3. d < 15
          BY <2>1, <2>2, <4>1, <4>2, BoundsAssumption
        <4>4. /\ n + 1 > 0 /\ Lag(n + 1, rcvr.sn) <= lost' /\ Lag(n + 1, rcvr.sn) # 0
          BY <2>1, <2>2, <4>1, <4>2, <4>3
        <4>5. Len(buf) < NumFrames(Message.len)
          BY <1>3 DEF BufferInv, Following
        <4> QED
          BY <1>2, <2>1, <3>1, <3>2, <4>4, <4>5 DEF Following
      <3>3. CASE peer[q].msg # buf[1].msg
        <4>1. ~peer[q].cts /\ n <= 1 /\ rx = "poll" /\ Len(buf) < NumFrames(Message.len)
          BY <1>3, <3>3 DEF BufferInv, Following, n
        <4>2. n = 0
          BY <2>1, <2>4, <4>1 DEF HasFrame, n
        <4> QED
          BY <1>2, <1>3, <2>1, <3>1, <3>3, <4>1, <4>2 DEF Following
      <3> QED
        BY <3>2, <3>3
    <2> QED
      BY <2>3, <2>4
  <1> QED
    BY <1>1, <1>2, <1>3 DEF Following

\* A step of the thread while it is busy, so that the peer is still on its
\* message.
LEMMA BusyKeeps ==
  ASSUME BufferInv, rx # "poll", sent' = sent, lost' = lost, buf' = buf,
         rcvr'.id_pair = rcvr.id_pair, rcvr'.len = rcvr.len, rcvr'.index = rcvr.index,
         rcvr'.sn = rcvr.sn,
         \A q \in Peers : peer'[q].msg = peer[q].msg /\ peer'[q].next = peer[q].next
  PROVE  PeerIds' /\ Announced' /\ BufferIntact' /\ Following'
  <1>1. rcvr.state \in {"FC_SENDING", "FC_SENT"}
    BY DEF BufferInv, TypedInv, TypeOK, RoleTypeOK, ControlOK
  <1>2. buf # <<>> /\ rcvr.id_pair \in Peers
    BY <1>1, Receiving
  <1>3. Announced' /\ BufferIntact' /\ Message' = Message
    <2>1. Len(sent) \in Nat
      BY LenProperties DEF BufferInv, TypedInv, TypeOK, BusTypeOK
    <2> QED
      BY <1>2, <2>1, BufferKept DEF BufferInv
  <1>4. PeerIds'
    BY DEF BufferInv, PeerIds
  <1>5. Following'
    BY <1>1, <1>2, <1>3 DEF BufferInv, Following
  <1> QED
    BY <1>3, <1>4, <1>5

LEMMA ThreadKeeps ==
  ASSUME BufferInv,
         \/ \E ok, out \in BOOLEAN : SendCTS(ok) /\ CTSOut(out)
         \/ UNCHANGED bus /\ \/ \E ok \in BOOLEAN : SendWait(ok)
                             \/ EndBlock \/ AwaitNextCF \/ cantp_rcvr_timer_cb
  PROVE  PeerIds' /\ Announced' /\ BufferIntact' /\ Following'
  <1>1. RoleTypeOK /\ BusTypeOK /\ TypedInv
    BY DEF BufferInv, TypedInv, TypeOK
  <1>2. ASSUME NEW ok \in BOOLEAN, NEW out \in BOOLEAN, SendCTS(ok), CTSOut(out)
        PROVE  PeerIds' /\ Announced' /\ BufferIntact' /\ Following'
    <2>1. \A q \in Peers : peer'[q].msg = peer[q].msg /\ peer'[q].next = peer[q].next
      <3> SUFFICES ASSUME NEW q \in Peers
                   PROVE  peer'[q].msg = peer[q].msg /\ peer'[q].next = peer[q].next
        OBVIOUS
      <3>1. peer[q] \in [msg : 0..Len(sent), next : Nat, cts : BOOLEAN]
        BY <1>1 DEF BusTypeOK
      <3> QED
        BY <1>2, <3>1 DEF CTSOut
    <2>2. rcvr' = [rcvr EXCEPT !.state = "FC_SENT"] /\ buf' = buf /\ rx # "poll"
      BY <1>2 DEF SendCTS, cantp_can_tx
    <2>3. /\ rcvr'.id_pair = rcvr.id_pair /\ rcvr'.len = rcvr.len
          /\ rcvr'.index = rcvr.index /\ rcvr'.sn = rcvr.sn
      BY <1>1, <2>2 DEF RoleTypeOK
    <2>4. sent' = sent /\ lost' = lost
      BY <1>2 DEF CTSOut
    <2> QED
      BY <2>1, <2>2, <2>3, <2>4, BusyKeeps
  <1>3. ASSUME UNCHANGED bus, NEW ok \in BOOLEAN, SendWait(ok)
        PROVE  PeerIds' /\ Announced' /\ BufferIntact' /\ Following'
    <2>1. /\ rcvr'.id_pair = rcvr.id_pair /\ rcvr'.len = rcvr.len
          /\ rcvr'.index = rcvr.index /\ rcvr'.sn = rcvr.sn
      BY <1>1, <1>3 DEF RoleTypeOK, SendWait
    <2> QED
      BY <1>3, <2>1, BusyKeeps DEF SendWait, cantp_can_tx, bus
  <1>4. ASSUME UNCHANGED bus, EndBlock \/ AwaitNextCF
        PROVE  PeerIds' /\ Announced' /\ BufferIntact' /\ Following'
    BY <1>4, BusyKeeps DEF EndBlock, AwaitNextCF, bus
  <1>5. ASSUME UNCHANGED bus, cantp_rcvr_timer_cb
        PROVE  PeerIds' /\ Announced' /\ BufferIntact' /\ Following'
    BY <1>5 DEF cantp_rcvr_timer_cb, bus, BufferInv, PeerIds, Announced, BufferIntact,
                Following, Message
  <1> QED
    BY <1>2, <1>3, <1>4, <1>5

\* A Single Frame is handed over; a First Frame is not taken up.
LEMMA OthersKeep ==
  ASSUME MaxLost < 16, BufferInv, NEW p \in Peers, cantp_rx_task(p),
         LET f == NextFrame(p) IN
         \/ rx_single_frame(f, p) \/ FFRefused(f) \/ CFIgnored(f, p)
         \/ FFRejected(f, p) \/ FFNoBuffer(f, p)
  PROVE  PeerIds' /\ Announced' /\ BufferIntact' /\ Following'
  <1> DEFINE f == NextFrame(p)
  <1>1. HasFrame(p) /\ Advance(p) /\ rx = "poll" /\ lost' = lost
    BY DEF cantp_rx_task
  <1>2. TypedInv /\ PeerIds /\ RoleTypeOK /\ ControlOK
    BY DEF BufferInv, TypedInv, TypeOK
  <1>3. PeerIds' /\ sent' = sent /\ Len(sent) \in Nat
    BY <1>1, <1>2, Advanced, LenProperties DEF TypedInv, TypeOK, BusTypeOK
  <1>4. f.pci \in {"SF", "FF"} => peer[p].next = 0
    BY <1>1, <1>2, FrameOf
  <1> HIDE DEF f
  <1>5. CASE rx_single_frame(f, p)
    <2>1. buf' = buf /\ rcvr' = [rcvr EXCEPT !.state = "RX_DONE"]
      BY <1>5 DEF rx_single_frame
    <2>2. /\ rcvr'.id_pair = rcvr.id_pair /\ rcvr'.len = rcvr.len
          /\ rcvr'.index = rcvr.index /\ rcvr'.state = "RX_DONE"
      BY <1>2, <2>1 DEF RoleTypeOK
    <2>3. Announced' /\ BufferIntact'
      BY <1>3, <2>1, <2>2, BufferKept DEF BufferInv
    <2> QED
      BY <1>3, <2>2, <2>3 DEF Following
  <1>6. CASE FFRefused(f) \/ CFIgnored(f, p)
    <2>1. buf' = buf /\ rcvr' = rcvr /\ rx' = rx
      BY <1>6 DEF FFRefused, CFIgnored, rvars
    <2>2. rcvr.state \in {"FC_SENDING", "FC_SENT"} => p # rcvr.id_pair \/ peer[p].next = 0
      BY <1>1, <1>2, <1>4, <1>6 DEF FFRefused, CFIgnored, ControlOK
    <2> QED
      BY <1>1, <2>1, <2>2, AdvanceKeeps
  <1>7. CASE FFRejected(f, p) \/ FFNoBuffer(f, p)
    <2>1. buf = <<>> /\ buf' = buf /\ rcvr'.state \in {"IDLE", "FF_RCVD"}
      BY <1>2, <1>7 DEF FFRejected, FFNoBuffer, NewReception, ControlOK, RoleTypeOK
    <2>2. Announced' /\ BufferIntact' /\ Following'
      BY <2>1 DEF Announced, BufferIntact, Following
    <2> QED
      BY <1>3, <2>2
  <1> QED
    BY <1>5, <1>6, <1>7 DEF f

\* A First Frame is accepted: the buffer holds its bytes.
LEMMA Begun ==
  ASSUME RoleTypeOK, ControlOK, sent' = sent, NEW i \in 1..Len(sent), NEW l \in Lengths,
         l > CANTP_SF_NUM_DATA_BYTES, sent[i].len = l,
         NEW f, f = Segment(i, l, 0), f.msg = i, f.dl = l, FFAccepted(f, sent[i].id)
  PROVE  /\ Announced' /\ BufferIntact'
         /\ Len(buf') = 1 /\ buf' # <<>> /\ buf'[1].msg = i
         /\ rcvr'.sn = 0 /\ rcvr'.id_pair = sent[i].id /\ Len(buf') < NumFrames(l)
  <1> DEFINE p == sent[i].id
  <1>1. buf' = <<ChunkOf(Segment(i, l, 0))>> /\ ChunkOf(Segment(i, l, 0)).msg = i
    BY DEF FFAccepted, ChunkOf
  <1>2. Len(buf') = 1 /\ buf' # <<>> /\ buf'[1].msg = i /\ buf'[1] = ChunkOf(Segment(i, l, 1 - 1))
    BY <1>1
  <1>3. rcvr.sn = 0
    BY DEF FFAccepted, ControlOK
  <1>4. rcvr' = [rcvr EXCEPT !.state = "FC_SENDING", !.id_pair = p, !.len = l,
                             !.index = CANTP_FF_NUM_DATA_BYTES]
    BY DEF FFAccepted, NewReception
  <1>5. /\ rcvr'.id_pair = p /\ rcvr'.len = l /\ rcvr'.index = CANTP_FF_NUM_DATA_BYTES
        /\ rcvr'.sn = 0
    BY <1>3, <1>4 DEF RoleTypeOK
  <1>6. l \in Nat /\ NumFrames(l) > 1 /\ NumFrames(l) \in Nat
    <2>1. l \in Nat /\ NumFrames(l) > 1
      BY LengthsNat, MoreThanOne
    <2> QED
      BY <2>1 DEF NumFrames, NumCFs, CANTP_FF_NUM_DATA_BYTES, CANTP_CF_NUM_DATA_BYTES
  <1>7. Announced'
    BY <1>2 DEF Announced, Message
  <1>8. CFOffset(1) = CANTP_FF_NUM_DATA_BYTES
    BY DEF CFOffset, CANTP_FF_NUM_DATA_BYTES, CANTP_CF_NUM_DATA_BYTES
  <1>9. BufferIntact'
    <2>1. \A k \in 1..Len(buf') : buf'[k] = ChunkOf(Segment(i, l, k - 1))
      BY <1>2
    <2>2. Len(buf') <= NumFrames(l) /\ Len(buf') # NumFrames(l)
      BY <1>2, <1>6
    <2> QED
      BY <1>2, <1>5, <1>8, <2>1, <2>2 DEF BufferIntact
  <1> QED
    BY <1>2, <1>5, <1>6, <1>7, <1>9

LEMMA AcceptKeeps ==
  ASSUME BufferInv, NEW p \in Peers, cantp_rx_task(p), FFAccepted(NextFrame(p), p)
  PROVE  PeerIds' /\ Announced' /\ BufferIntact' /\ Following'
  <1>1. HasFrame(p) /\ Advance(p) /\ lost' = lost
    BY DEF cantp_rx_task
  <1>2. TypedInv /\ PeerIds /\ RoleTypeOK /\ ControlOK /\ BusTypeOK
    BY DEF BufferInv, TypedInv, TypeOK
  <1>3. PICK i \in 1..Len(sent), l \in Lengths :
          /\ i = peer[p].msg /\ l = sent[i].len /\ 0 = peer[p].next /\ sent[i].id = p
          /\ NextFrame(p) = Segment(i, l, 0) /\ NextFrame(p).msg = i
          /\ NextFrame(p).dl = l /\ l > CANTP_SF_NUM_DATA_BYTES
    <2>1. NextFrame(p).pci = "FF"
      BY DEF FFAccepted
    <2> QED
      BY <1>1, <1>2, <2>1, FrameOf
  <1>4. PeerIds' /\ sent' = sent /\ peer'[p].msg = i /\ peer'[p].next = 1
    BY <1>1, <1>2, <1>3, Advanced
  <1>5. /\ Announced' /\ BufferIntact' /\ buf' # <<>> /\ buf'[1].msg = i
        /\ rcvr'.sn = 0 /\ rcvr'.id_pair = p /\ Len(buf') = 1 /\ Len(buf') < NumFrames(l)
    BY <1>2, <1>3, <1>4, Begun
  <1>6. Message'.len = l
    BY <1>3, <1>4, <1>5 DEF Message
  <1>7. Following'
    <2>1. Lag(1, 0) = 0 /\ lost' >= 0
      BY <1>1, <1>2, BoundsAssumption DEF Lag, BusTypeOK
    <2> QED
      BY <1>4, <1>5, <1>6, <2>1 DEF Following
  <1> QED
    BY <1>4, <1>5, <1>7

\* A Consecutive Frame comes from the peer being received, and is of the
\* message being received.
LEMMA Expected ==
  ASSUME BufferInv, NEW p \in Peers, HasFrame(p), CFExpected(NextFrame(p), p)
  PROVE  /\ p = rcvr.id_pair /\ peer[p].msg = buf[1].msg
         /\ peer[p].next \in Nat /\ peer[p].next > 0
         /\ peer[p].next < NumFrames(Message.len)
         /\ NextFrame(p) = Segment(buf[1].msg, Message.len, peer[p].next)
         /\ NextFrame(p).sn = peer[p].next % 16
         /\ Lag(peer[p].next, rcvr.sn) <= lost
         /\ Lag(peer[p].next, rcvr.sn) = 0 => Len(buf) = peer[p].next
  <1>1. NextFrame(p).pci = "CF" /\ rcvr.state = "FC_SENT" /\ rcvr.id_pair = p
    BY DEF CFExpected
  <1>2. TypedInv /\ PeerIds
    BY DEF BufferInv
  <1>3. PICK i \in 1..Len(sent), l \in Lengths, k \in Nat :
          /\ i = peer[p].msg /\ l = sent[i].len /\ k = peer[p].next
          /\ k < NumFrames(l) /\ k > 0 /\ peer[p].cts
          /\ NextFrame(p) = Segment(i, l, k) /\ NextFrame(p).sn = k % 16
    BY <1>1, <1>2, FrameOf
  <1>4. /\ peer[p].msg = buf[1].msg
        /\ Lag(peer[p].next, rcvr.sn) <= lost
        /\ Lag(peer[p].next, rcvr.sn) = 0 => Len(buf) = peer[p].next
    BY <1>1, <1>3 DEF BufferInv, Following
  <1> QED
    BY <1>1, <1>3, <1>4 DEF Message

\* As long as no frame was lost it is in sequence.
LEMMA InStep ==
  ASSUME BufferInv, NEW p \in Peers, HasFrame(p), CFExpected(NextFrame(p), p)
  PROVE  /\ InSequence(NextFrame(p)) <=> Lag(peer[p].next, rcvr.sn) = 0
         /\ InSequence(NextFrame(p)) =>
              Len(buf) = peer[p].next /\ rcvr.index = CFOffset(Len(buf)) /\ rcvr.len = Message.len
         /\ lost = 0 => InSequence(NextFrame(p))
  <1>1. rcvr.state \in {"FC_SENDING", "FC_SENT"}
    BY DEF CFExpected
  <1>2. /\ rcvr.sn \in SeqNum /\ lost \in Nat /\ buf # <<>>
    BY <1>1, Receiving
  <1>3. /\ peer[p].next \in Nat /\ NextFrame(p).sn = peer[p].next % 16
        /\ Lag(peer[p].next, rcvr.sn) <= lost
        /\ Lag(peer[p].next, rcvr.sn) = 0 => Len(buf) = peer[p].next
        /\ peer[p].next < NumFrames(Message.len)
    BY Expected
  <1> DEFINE n == peer[p].next  d == Lag(n, rcvr.sn)
  <1>4. d \in Nat /\ (NextSn(rcvr.sn) = n % 16 <=> d = 0)
    BY <1>2, <1>3, LagSteps
  <1>5. InSequence(NextFrame(p)) <=> d = 0
    BY <1>3, <1>4 DEF InSequence
  <1>6. d = 0 => rcvr.index = CFOffset(Len(buf)) /\ rcvr.len = Message.len
    <2>1. /\ rcvr.len = Message.len
          /\ rcvr.index = IF Len(buf) = NumFrames(Message.len) THEN Message.len
                          ELSE CFOffset(Len(buf))
      BY <1>2 DEF BufferInv, BufferIntact, Message
    <2>2. Len(buf) < NumFrames(Message.len)
      BY <1>1 DEF BufferInv, Following
    <2>3. NumFrames(Message.len) \in Int /\ Len(buf) \in Nat
      BY <1>1, Receiving DEF NumFrames, NumCFs, CANTP_FF_NUM_DATA_BYTES, CANTP_CF_NUM_DATA_BYTES
    <2> QED
      BY <2>1, <2>2, <2>3
  <1>7. lost = 0 => d = 0
    BY <1>3, <1>4
  <1> HIDE DEF n, d
  <1> QED
    BY <1>3, <1>5, <1>6, <1>7 DEF n, d

\* The peer and the Receiver move on together.
LEMMA MoveOn ==
  ASSUME BufferInv, NEW p \in Peers, HasFrame(p), Advance(p), lost' = lost,
         CFExpected(NextFrame(p), p), rcvr'.sn = NextSn(rcvr.sn), rcvr'.id_pair = p,
         buf # <<>>, buf'[1] = buf[1],
         rcvr'.state \in {"FC_SENDING", "FC_SENT"} =>
           /\ Len(buf') < NumFrames(Message.len)
           /\ Lag(peer[p].next, rcvr.sn) = 0 => Len(buf') = peer[p].next + 1
  PROVE  PeerIds' /\ Following'
  <1>1. /\ PeerIds' /\ sent' = sent /\ peer'[p].msg = peer[p].msg
        /\ peer'[p].next = peer[p].next + 1
    BY Advanced DEF BufferInv
  <1>2. /\ peer[p].msg = buf[1].msg /\ peer[p].next \in Nat
        /\ Lag(peer[p].next, rcvr.sn) <= lost
    BY Expected
  <1>3. rcvr.sn \in SeqNum
    BY Receiving DEF CFExpected
  <1>4. Lag(peer[p].next + 1, NextSn(rcvr.sn)) = Lag(peer[p].next, rcvr.sn)
    BY <1>2, <1>3, LagSteps
  <1>5. Message' = Message
    BY <1>1 DEF Message
  <1>6. peer[p].next + 1 > 0
    BY <1>2
  <1>7. Following'
    BY <1>1, <1>2, <1>4, <1>5, <1>6 DEF Following
  <1> QED
    BY <1>1, <1>7

\* A frame is discarded only because frames were lost before it.
LEMMA DiscardedLate ==
  ASSUME BufferInv, NEW p \in Peers, HasFrame(p), CFDiscarded(NextFrame(p), p)
  PROVE  Lag(peer[p].next, rcvr.sn) # 0 /\ lost # 0
  <1>1. CFExpected(NextFrame(p), p) /\ rcvr.state = "FC_SENT"
    BY DEF CFDiscarded, CFExpected
  <1>2. /\ Message.len \in Nat /\ Message.len > CANTP_SF_NUM_DATA_BYTES
    BY <1>1, Receiving
  <1>3. /\ peer[p].next \in Nat /\ peer[p].next > 0 /\ peer[p].next < NumFrames(Message.len)
    BY <1>1, Expected
  <1>4. ~InSequence(NextFrame(p))
    <2> SUFFICES ASSUME InSequence(NextFrame(p)) PROVE FALSE
      OBVIOUS
    <2>1. rcvr.index = CFOffset(peer[p].next) /\ rcvr.len = Message.len
      BY <1>1, InStep
    <2>2. Message.len - CFOffset(peer[p].next) > 0
      BY <1>2, <1>3, Progress
    <2>3. Message.len - CFOffset(peer[p].next) \in Int
      BY <1>2, <1>3 DEF CFOffset, CANTP_FF_NUM_DATA_BYTES, CANTP_CF_NUM_DATA_BYTES
    <2> QED
      BY <2>1, <2>2, <2>3 DEF CFDiscarded
  <1> QED
    BY <1>1, <1>4, InStep

\* A frame out of sequence is discarded.
LEMMA DiscardKeeps ==
  ASSUME BufferInv, NEW p \in Peers, cantp_rx_task(p), CFDiscarded(NextFrame(p), p)
  PROVE  PeerIds' /\ Announced' /\ BufferIntact' /\ Following'
  <1>1. HasFrame(p) /\ Advance(p) /\ lost' = lost /\ CFExpected(NextFrame(p), p)
    BY DEF cantp_rx_task, CFDiscarded
  <1>2. /\ rcvr.state = "FC_SENT" /\ rcvr.id_pair = p
        /\ buf' = buf /\ rcvr' = [rcvr EXCEPT !.sn = NextSn(rcvr.sn)]
    BY <1>1 DEF CFDiscarded, CFExpected
  <1>3. buf # <<>>
    BY <1>2, Receiving
  <1>4. Lag(peer[p].next, rcvr.sn) # 0
    BY <1>1, DiscardedLate
  <1>5. /\ rcvr'.sn = NextSn(rcvr.sn) /\ rcvr'.id_pair = p /\ rcvr'.len = rcvr.len
        /\ rcvr'.index = rcvr.index
    BY <1>2 DEF BufferInv, TypedInv, TypeOK, RoleTypeOK
  <1>6. Announced' /\ BufferIntact'
    <2>1. sent' = sent /\ Len(sent) \in Nat
      BY <1>1, LenProperties DEF Advance, BufferInv, TypedInv, TypeOK, BusTypeOK
    <2> QED
      BY <1>2, <1>5, <2>1, BufferKept DEF BufferInv
  <1>7. Len(buf) < NumFrames(Message.len)
    BY <1>2 DEF BufferInv, Following
  <1>8. PeerIds' /\ Following'
    BY <1>1, <1>2, <1>3, <1>4, <1>5, <1>7, MoveOn
  <1> QED
    BY <1>6, <1>8

\* A frame in sequence is stored.
LEMMA Stored ==
  ASSUME RoleTypeOK, Announced, BufferIntact, sent' = sent, buf # <<>>, Message.len \in Lengths,
         NEW k \in Nat, k > 0, Len(buf) = k, k < NumFrames(Message.len),
         NEW f, f = Segment(buf[1].msg, Message.len, k), ChunkOf(f) \in Chunk,
         CFAccepted(f, rcvr.id_pair)
  PROVE  LET n == Message.len - CFOffset(k) IN
         /\ Announced' /\ BufferIntact' /\ Message' = Message
         /\ buf' # <<>> /\ buf'[1] = buf[1] /\ Len(buf') = k + 1
         /\ rcvr'.sn = NextSn(rcvr.sn) /\ rcvr'.id_pair = rcvr.id_pair
         /\ LastCF(n) <=> k + 1 = NumFrames(Message.len)
         /\ ~LastCF(n) => k + 1 < NumFrames(Message.len)
         /\ rcvr'.state = IF LastCF(n) THEN "TX_DONE" ELSE rcvr.state
         /\ rcvr.index = CFOffset(k) /\ rcvr.len = Message.len
  <1> DEFINE i == buf[1].msg  l == Message.len  n == l - CFOffset(k)
             c == ChunkOf(Segment(i, l, k))
  <1>1. /\ i \in 1..Len(sent) /\ l \in Nat /\ l > CANTP_SF_NUM_DATA_BYTES
        /\ NumFrames(l) \in Int
    BY LengthsNat DEF Announced, NumFrames, NumCFs, CANTP_FF_NUM_DATA_BYTES,
       CANTP_CF_NUM_DATA_BYTES
  <1>2. rcvr.index = CFOffset(k) /\ rcvr.len = l /\ rcvr.id_pair = Message.id
    BY <1>1 DEF BufferIntact, Message
  <1>3. IF LastCF(n)
        THEN k + 1 = NumFrames(l) /\ CFOffset(k) + NToSend(n) = l
        ELSE k + 1 < NumFrames(l) /\ CFOffset(k) + NToSend(n) = CFOffset(k + 1)
    BY <1>1, Progress
  <1>4. /\ buf' = Append(buf, c)
        /\ rcvr' = [rcvr EXCEPT
             !.sn = NextSn(rcvr.sn), !.index = U16(CFOffset(k) + NToSend(n)),
             !.state = IF LastCF(n) THEN "TX_DONE" ELSE @,
             !.wft_cntr = IF LastCF(n) THEN @ ELSE 0]
    BY <1>2 DEF CFAccepted
  <1>5. c \in Chunk /\ l \in Lengths
    OBVIOUS
  <1> HIDE DEF i, l, n, c
  <1>6. /\ rcvr'.sn = NextSn(rcvr.sn) /\ rcvr'.id_pair = rcvr.id_pair /\ rcvr'.len = l
        /\ rcvr'.index = U16(CFOffset(k) + NToSend(n))
        /\ rcvr'.state = IF LastCF(n) THEN "TX_DONE" ELSE rcvr.state
    BY <1>2, <1>4 DEF RoleTypeOK
  <1>7. /\ Len(buf') = k + 1 /\ buf' # <<>> /\ buf'[1] = buf[1] /\ buf'[k + 1] = c
        /\ \A j \in 1..k : buf'[j] = buf[j]
    <2>1. buf \in Seq(Chunk)
      BY DEF RoleTypeOK
    <2>2. c \in Chunk /\ buf' = Append(buf, c)
      BY <1>4, <1>5
    <2>3. /\ buf' \in Seq(Chunk) /\ Len(buf') = Len(buf) + 1 /\ buf'[Len(buf) + 1] = c
          /\ \A j \in 1..Len(buf) : buf'[j] = buf[j]
      BY <2>1, <2>2, AppendProperties
    <2>4. k \in Nat /\ k > 0 /\ Len(buf) = k
      BY <1>1
    <2>5. 1 \in 1..k
      BY <2>4
    <2>6. Len(buf') = k + 1 /\ buf'[k + 1] = c /\ \A j \in 1..k : buf'[j] = buf[j]
      BY <2>3, <2>4
    <2>7. buf' # <<>>
      BY <2>3, <2>4, EmptySeq
    <2> QED
      BY <2>5, <2>6, <2>7
  <1>8. buf'[1].msg = i /\ Message' = Message
    BY <1>7 DEF Message, i
  <1>9. Announced'
    BY <1>1, <1>8 DEF Announced, i, l
  <1>10. rcvr'.index = IF Len(buf') = NumFrames(l) THEN l ELSE CFOffset(Len(buf'))
    <2>1. CFOffset(k) + NToSend(n) \in Nat /\ CFOffset(k) + NToSend(n) <= l /\ l \in UInt16
      <3>1. l \in UInt16
        <4>1. \A x \in Lengths : x \in Nat /\ x < 4096
          BY DEF Lengths
        <4> QED
          BY <1>5, <4>1, U16Small
      <3>2. CFOffset(k) + NToSend(n) \in Nat
        BY <1>1, <1>3 DEF CFOffset, CANTP_FF_NUM_DATA_BYTES, CANTP_CF_NUM_DATA_BYTES
      <3>3. k + 1 < NumFrames(l) => l - CFOffset(k + 1) > 0
        BY <1>1, Progress
      <3>4. CFOffset(k + 1) \in Int
        BY DEF CFOffset, CANTP_FF_NUM_DATA_BYTES, CANTP_CF_NUM_DATA_BYTES
      <3>5. CFOffset(k) + NToSend(n) <= l
        BY <1>1, <1>3, <3>3, <3>4
      <3> QED
        BY <3>1, <3>2, <3>5
    <2>2. rcvr'.index = CFOffset(k) + NToSend(n)
      BY <1>6, <2>1, U16Below
    <2> QED
      BY <1>3, <1>7, <2>2
  <1>11. BufferIntact'
    <2>1. Len(buf') <= NumFrames(l)
      BY <1>1, <1>3, <1>7
    <2>2. \A j \in 1..Len(buf') : buf'[j] = ChunkOf(Segment(i, l, j - 1))
      <3> SUFFICES ASSUME NEW j \in 1..Len(buf') PROVE buf'[j] = ChunkOf(Segment(i, l, j - 1))
        OBVIOUS
      <3>1. CASE j = k + 1
        <4>1. j - 1 = k
          BY <3>1
        <4> QED
          BY <1>7, <3>1, <4>1 DEF c
      <3>2. CASE j # k + 1
        <4>1. j \in 1..k
          BY <1>7, <3>2
        <4>2. buf[j] = ChunkOf(Segment(i, l, j - 1))
          BY <4>1 DEF BufferIntact, Message, i, l
        <4> QED
          BY <1>7, <4>1, <4>2
      <3> QED
        BY <3>1, <3>2
    <2> QED
      BY <1>2, <1>6, <1>8, <1>10, <2>1, <2>2 DEF BufferIntact, Message, l
  <1>12. LastCF(n) <=> k + 1 = NumFrames(l)
    BY <1>1, <1>3
  <1> QED
    BY <1>2, <1>3, <1>6, <1>7, <1>8, <1>9, <1>11, <1>12 DEF l, n

LEMMA StoreKeeps ==
  ASSUME BufferInv, NEW p \in Peers, cantp_rx_task(p), CFAccepted(NextFrame(p), p)
  PROVE  PeerIds' /\ Announced' /\ BufferIntact' /\ Following'
  <1>1. HasFrame(p) /\ Advance(p) /\ lost' = lost /\ CFExpected(NextFrame(p), p)
    BY DEF cantp_rx_task, CFAccepted
  <1>2. RoleTypeOK /\ BusTypeOK /\ rcvr.state = "FC_SENT" /\ rcvr.id_pair = p
    BY <1>1 DEF BufferInv, TypedInv, TypeOK, CFExpected
  <1> DEFINE l == Message.len  k == peer[p].next
  <1>3. buf # <<>> /\ buf[1].msg \in 1..Len(sent)
    BY <1>2, Receiving
  <1>4. k \in Nat /\ k > 0 /\ k < NumFrames(l) /\ NextFrame(p) = Segment(buf[1].msg, l, k)
    BY <1>1, Expected
  <1>5. Lag(k, rcvr.sn) = 0 /\ Len(buf) = k
    <2>1. InSequence(NextFrame(p))
      BY DEF CFAccepted
    <2> QED
      BY <1>1, <2>1, InStep
  <1>6. l \in Lengths /\ ChunkOf(NextFrame(p)) \in Chunk /\ sent' = sent
    BY <1>1, <1>2, <1>3, SentTypes, NextFrameTypes
       DEF BufferInv, TypedInv, BusTypeOK, Message, Advance
  <1> HIDE DEF k
  <1>7. /\ Announced' /\ BufferIntact' /\ buf' # <<>> /\ buf'[1] = buf[1] /\ Len(buf') = k + 1
        /\ rcvr'.sn = NextSn(rcvr.sn) /\ rcvr'.id_pair = p
        /\ rcvr'.state \in {"FC_SENDING", "FC_SENT"} => k + 1 < NumFrames(l)
    BY <1>2, <1>3, <1>4, <1>5, <1>6, Stored DEF BufferInv
  <1>8. PeerIds' /\ Following'
    BY <1>1, <1>3, <1>7, MoveOn DEF k
  <1> QED
    BY <1>7, <1>8

LEMMA BufferStep ==
  ASSUME ~LateFC, MaxLost < 16, BufferInv, [Next]_vars PROVE BufferInv'
  <1>1. TypedInv'
    BY TypedStep DEF BufferInv
  <1> SUFFICES PeerIds' /\ Announced' /\ BufferIntact' /\ Following'
    BY <1>1 DEF BufferInv
  <1>2. ASSUME NEW p \in Peers, NEW l \in Lens[p], PeerStart(p, l)
        PROVE  PeerIds' /\ Announced' /\ BufferIntact' /\ Following'
    BY <1>2, StartKeeps
  <1>3. ASSUME NEW p \in Peers, FrameLost(p)
        PROVE  PeerIds' /\ Announced' /\ BufferIntact' /\ Following'
    BY <1>3, AdvanceKeeps DEF FrameLost, rvars
  <1>4. ASSUME NEW p \in Peers, cantp_rx_task(p)
        PROVE  PeerIds' /\ Announced' /\ BufferIntact' /\ Following'
    <2>1. cantp_canrx_cb(NextFrame(p), p)
      BY <1>4 DEF cantp_rx_task
    <2> QED
      BY <1>4, <2>1, OthersKeep, AcceptKeeps, DiscardKeeps, StoreKeeps
         DEF cantp_canrx_cb, rcvr_rx_first_frame, rcvr_rx_consecutive_frame
  <1>5. ASSUME \/ \E ok, out \in BOOLEAN : SendCTS(ok) /\ CTSOut(out)
               \/ UNCHANGED bus /\ \/ \E ok \in BOOLEAN : SendWait(ok)
                                   \/ EndBlock \/ AwaitNextCF \/ cantp_rcvr_timer_cb
        PROVE  PeerIds' /\ Announced' /\ BufferIntact' /\ Following'
    BY <1>5, ThreadKeeps
  <1>6. ASSUME UNCHANGED vars
        PROVE  PeerIds' /\ Announced' /\ BufferIntact' /\ Following'
    BY <1>6 DEF vars, rvars, bus, BufferInv, PeerIds, Announced, BufferIntact, Following, Message
  <1> QED
    BY <1>2, <1>3, <1>4, <1>5, <1>6 DEF Next

LEMMA BufferInit == Init => BufferInv
  <1> SUFFICES ASSUME Init PROVE BufferInv
    OBVIOUS
  <1>1. TypedInv
    BY TypedInit
  <1>2. PeerIds
    BY DEF Init, PeerIds
  <1> QED
    BY <1>1, <1>2 DEF Init, RoleInit, BufferInv, Announced, BufferIntact, Following

\* The buffer is a prefix of one message, whatever the interleaving of the
\* peers' frames: 16 lost frames, or a peer that gives up while its Flow
\* Control frame is being sent, would spoil it.
THEOREM Reassembly ==
  ASSUME ~LateFC, MaxLost < 16 PROVE Spec => []BufferIntact
  <1>1. BufferInv /\ [Next]_vars => BufferInv'
    BY BufferStep
  <1>2. BufferInv => BufferIntact
    BY DEF BufferInv
  <1> QED
    BY BufferInit, <1>1, <1>2, PTL DEF Spec

----------------------------------------------------------------------------
(* N_Cr: a frame that is discarded stops it for good, and only after a     *)
(* loss is a frame discarded.                                              *)

LEMMA ArmedStep ==
  ASSUME BufferInv, NCrArmed, [Next]_vars PROVE NCrArmed'
  <1>1. TypeOK /\ RoleTypeOK /\ BusTypeOK /\ ControlOK
    BY DEF BufferInv, TypedInv, TypeOK
  <1>2. ASSUME UNCHANGED rvars, lost' = lost PROVE NCrArmed'
    BY <1>2 DEF rvars, NCrArmed
  <1>3. ASSUME NEW p \in Peers, NEW l \in Lens[p], PeerStart(p, l) PROVE NCrArmed'
    BY <1>2, <1>3 DEF PeerStart
  <1>4. ASSUME NEW p \in Peers, FrameLost(p) PROVE NCrArmed'
    <2>1. lost \in Nat /\ lost' = lost + 1
      BY <1>1, <1>4, BoundsAssumption DEF FrameLost, BusTypeOK
    <2> QED
      BY <2>1 DEF NCrArmed
  <1>5. ASSUME NEW p \in Peers, cantp_rx_task(p) PROVE NCrArmed'
    <2> DEFINE f == NextFrame(p)
    <2>1. HasFrame(p) /\ lost' = lost /\ rx = "poll" /\ cantp_canrx_cb(f, p)
      BY <1>5 DEF cantp_rx_task
    <2>2. CFDiscarded(f, p) => lost # 0
      BY <2>1, DiscardedLate
    <2> HIDE DEF f
    <2>3. CASE FFRefused(f) \/ CFIgnored(f, p)
      BY <1>2, <2>1, <2>3 DEF FFRefused, CFIgnored
    <2>4. CASE CFDiscarded(f, p)
      BY <2>1, <2>2, <2>4 DEF NCrArmed
    <2>5. CASE CFAccepted(f, p)
      <3>1. rcvr'.state = "TX_DONE" \/ rx' \in {"wait", "block"}
        BY <1>1, <2>5 DEF CFAccepted, RoleTypeOK
      <3> QED
        BY <3>1 DEF NCrArmed
    <2>6. CASE rx_single_frame(f, p) \/ rcvr_rx_first_frame(f, p)
      <3>1. rcvr'.state \in {"RX_DONE", "IDLE", "FF_RCVD", "FC_SENDING"}
        BY <1>1, <2>6 DEF rx_single_frame, rcvr_rx_first_frame, FFRejected, FFNoBuffer,
                          FFAccepted, NewReception, RoleTypeOK
      <3> QED
        BY <3>1 DEF NCrArmed
    <2> QED
      BY <2>1, <2>3, <2>4, <2>5, <2>6 DEF cantp_canrx_cb, rcvr_rx_consecutive_frame
  <1>6. ASSUME NEW ok \in BOOLEAN, SendCTS(ok) \/ SendWait(ok) PROVE NCrArmed'
    BY <1>6 DEF SendCTS, SendWait, NCrArmed
  <1>7. ASSUME EndBlock \/ AwaitNextCF PROVE NCrArmed'
    BY <1>7 DEF EndBlock, AwaitNextCF, NCrArmed
  <1>8. ASSUME cantp_rcvr_timer_cb PROVE NCrArmed'
    BY <1>8 DEF cantp_rcvr_timer_cb, NCrArmed
  <1>9. ASSUME UNCHANGED vars PROVE NCrArmed'
    BY <1>9 DEF vars, rvars, bus, NCrArmed
  <1> QED
    BY <1>3, <1>4, <1>5, <1>6, <1>7, <1>8, <1>9 DEF Next

\* As long as no frame is lost the Receiver never waits for a Consecutive
\* Frame without N_Cr.
THEOREM Armed ==
  ASSUME ~LateFC, MaxLost < 16 PROVE Spec => []NCrArmed
  <1>1. Init => BufferInv /\ NCrArmed
    BY BufferInit DEF Init, RoleInit, NCrArmed
  <1>2. BufferInv /\ NCrArmed /\ [Next]_vars => (BufferInv /\ NCrArmed)'
    BY BufferStep, ArmedStep
  <1> QED
    BY <1>1, <1>2, PTL DEF Spec

----------------------------------------------------------------------------
(* What is handed over: whole messages, when their length fits the uint8_t *)
(* in which cantp_received_cb takes it.                                    *)

Short == \A p \in Peers : \A l \in Lens[p] : l <= 255

DeliveredInv ==
  /\ \A i \in 1..Len(sent) : sent[i].len <= 255
  /\ \A i \in 1..Len(inbox) : inbox[i].msg \in 1..Len(sent)
  /\ DeliveredIntact

\* All that a message of l bytes brings.
Whole(m, l) == [k \in 1..NumFrames(l) |-> ChunkOf(Segment(m, l, k - 1))]

\* One more message is handed over.
LEMMA Deliver ==
  ASSUME DeliveredInv, RoleTypeOK, sent' = sent, NEW m \in 1..Len(sent), NEW d \in Delivery,
         d.msg = m, d.len = sent[m].len, d.chunks = Whole(m, sent[m].len),
         inbox' = Append(inbox, d)
  PROVE  DeliveredInv'
  <1>1. /\ Len(inbox') = Len(inbox) + 1 /\ inbox'[Len(inbox) + 1] = d /\ Len(inbox) \in Nat
        /\ \A i \in 1..Len(inbox) : inbox'[i] = inbox[i]
    BY AppendProperties, LenProperties DEF RoleTypeOK
  <1>2. ASSUME NEW i \in 1..Len(inbox')
        PROVE  /\ inbox'[i].msg \in 1..Len(sent)
               /\ inbox'[i].len = sent[inbox'[i].msg].len
               /\ inbox'[i].chunks = Whole(inbox'[i].msg, sent[inbox'[i].msg].len)
    <2>1. CASE i \in 1..Len(inbox)
      BY <1>1, <2>1 DEF DeliveredInv, DeliveredIntact, Whole
    <2>2. CASE i \notin 1..Len(inbox)
      <3>1. i = Len(inbox) + 1
        BY <1>1, <2>2
      <3> QED
        BY <1>1, <3>1
    <2> QED
      BY <2>1, <2>2
  <1> QED
    BY <1>2 DEF DeliveredInv, DeliveredIntact, Whole

\* A message is started, or nothing is handed over.
LEMMA InboxKept ==
  ASSUME DeliveredInv, inbox' = inbox, Len(sent) \in Nat, Len(sent') \in Nat,
         Len(sent') >= Len(sent), \A n \in 1..Len(sent) : sent'[n] = sent[n],
         \A n \in 1..Len(sent') : sent'[n].len <= 255
  PROVE  DeliveredInv'
  <1>1. \A i \in 1..Len(inbox) : sent'[inbox[i].msg] = sent[inbox[i].msg]
    BY DEF DeliveredInv
  <1>2. \A i \in 1..Len(inbox) : inbox[i].msg \in 1..Len(sent')
    BY DEF DeliveredInv
  <1> QED
    BY <1>1, <1>2 DEF DeliveredInv, DeliveredIntact

\* An uint8_t holds the length of a short message.
LEMMA ShortLength == \A l \in Lengths : l <= 255 => U8(l) = l
  BY DEF U8, Lengths

\* A Single Frame brings a whole message.
LEMMA SingleWhole ==
  ASSUME DeliveredInv, RoleTypeOK, sent' = sent, NEW i \in 1..Len(sent), NEW l \in Lengths,
         l = sent[i].len, NEW p \in Ids,
         NEW f, f = Segment(i, l, 0), f.msg = i, ChunkOf(f) \in Chunk, rx_single_frame(f, p)
  PROVE  DeliveredInv'
  <1> DEFINE c == ChunkOf(Segment(i, l, 0))
  <1>1. l \in Nat /\ l <= CANTP_SF_NUM_DATA_BYTES /\ f.dl = l
    BY LengthsNat DEF rx_single_frame, Segment, SingleFrame, FirstFrame, CANTP_SF_NUM_DATA_BYTES
  <1>2. NumFrames(l) = 1
    BY <1>1 DEF NumFrames
  <1>3. <<c>> = Whole(i, l)
    BY <1>2 DEF Whole
  <1>4. c \in Chunk
    OBVIOUS
  <1>5. U8(l) = l /\ i \in Nat
    BY ShortLength DEF DeliveredInv
  <1> DEFINE d == [id |-> p, len |-> U8(l), msg |-> i, chunks |-> <<c>>]
  <1>6. inbox' = Append(inbox, d)
    BY <1>1 DEF rx_single_frame, cantp_received_cb
  <1> HIDE DEF c
  <1>7. d \in Delivery
    BY <1>1, <1>4, <1>5, U8Type DEF Delivery
  <1>8. d.msg = i /\ d.len = l /\ d.chunks = Whole(i, l)
    BY <1>3, <1>5
  <1> HIDE DEF d
  <1> QED
    BY <1>6, <1>7, <1>8, Deliver

\* So does the last Consecutive Frame.
LEMMA LastWhole ==
  ASSUME DeliveredInv, RoleTypeOK, Announced, BufferIntact, sent' = sent, buf # <<>>,
         Message.len \in Lengths,
         NEW k \in Nat, k > 0, Len(buf) = k, k < NumFrames(Message.len),
         NEW f, f = Segment(buf[1].msg, Message.len, k), ChunkOf(f) \in Chunk,
         CFAccepted(f, rcvr.id_pair)
  PROVE  DeliveredInv'
  <1> DEFINE i == buf[1].msg  l == Message.len  n == l - CFOffset(k)
  <1>1. i \in 1..Len(sent) /\ i \in Nat /\ l = sent[i].len /\ l \in Nat
    BY LengthsNat DEF Announced, Message
  <1>2. /\ BufferIntact' /\ Len(buf') = k + 1 /\ buf' # <<>> /\ buf'[1] = buf[1]
        /\ Message' = Message /\ rcvr.index = CFOffset(k) /\ rcvr.len = l
        /\ LastCF(n) <=> k + 1 = NumFrames(l)
    BY Stored
  <1>3. f.msg = i
    BY DEF Segment, ConsecutiveFrame
  <1>4. buf' \in Seq(Chunk)
    <2>1. buf \in Seq(Chunk) /\ buf' = Append(buf, ChunkOf(f))
      BY DEF RoleTypeOK, CFAccepted
    <2> QED
      BY <2>1, AppendProperties
  <1>5. \A j \in 1..Len(buf') : buf'[j] = ChunkOf(Segment(i, l, j - 1))
    BY <1>1, <1>2 DEF BufferIntact
  <1>6. LastCF(n) => buf' = Whole(i, l)
    <2> SUFFICES ASSUME LastCF(n) PROVE buf' = Whole(i, l)
      OBVIOUS
    <2>1. Len(buf') = NumFrames(l)
      BY <1>2
    <2>2. buf' = [j \in 1..Len(buf') |-> buf'[j]]
      BY <1>4, LenProperties
    <2> QED
      BY <1>5, <2>1, <2>2 DEF Whole
  <1>7. U8(l) = l
    BY <1>1, ShortLength DEF DeliveredInv
  <1> DEFINE d == [id |-> Self, len |-> U8(l), msg |-> i, chunks |-> buf']
  <1>8. \/ LastCF(n) /\ inbox' = Append(inbox, d)
        \/ inbox' = inbox
    BY <1>2, <1>3 DEF CFAccepted, cantp_received_cb
  <1>9. d \in Delivery
    BY <1>1, <1>4, U8Type DEF Delivery, Ids
  <1>10. LastCF(n) => d.msg = i /\ d.len = l /\ d.chunks = Whole(i, l)
    BY <1>6, <1>7
  <1> HIDE DEF i, l, n, d
  <1>11. CASE LastCF(n) /\ inbox' = Append(inbox, d)
    BY <1>1, <1>9, <1>10, <1>11, Deliver
  <1>12. CASE inbox' = inbox
    <2>1. Len(sent) \in Nat
      BY <1>1 DEF Announced
    <2>2. \A j \in 1..Len(sent) : sent[j].len <= 255
      BY DEF DeliveredInv
    <2> QED
      BY <1>12, <2>1, <2>2, InboxKept
  <1> QED
    BY <1>8, <1>11, <1>12

LEMMA HandlerDelivers ==
  ASSUME BufferInv, DeliveredInv, NEW p \in Peers, cantp_rx_task(p),
         rx_single_frame(NextFrame(p), p) \/ CFAccepted(NextFrame(p), p)
  PROVE  DeliveredInv'
  <1>1. HasFrame(p) /\ Advance(p) /\ sent' = sent
    BY DEF cantp_rx_task, Advance
  <1>2. TypedInv /\ PeerIds /\ TypeOK /\ RoleTypeOK /\ BusTypeOK /\ Announced /\ BufferIntact
    BY DEF BufferInv, TypedInv, TypeOK
  <1>3. CASE rx_single_frame(NextFrame(p), p)
    <2>1. PICK i \in 1..Len(sent), l \in Lengths :
            /\ l = sent[i].len /\ NextFrame(p) = Segment(i, l, 0) /\ NextFrame(p).msg = i
      BY <1>1, <1>2, <1>3, FrameOf DEF rx_single_frame
    <2> DEFINE f == NextFrame(p)
    <2>2. ChunkOf(f) \in Chunk /\ p \in Ids
      BY <1>1, <1>2, NextFrameTypes DEF Ids
    <2>3. rx_single_frame(f, p) /\ f = Segment(i, l, 0) /\ f.msg = i
      BY <1>3, <2>1
    <2> HIDE DEF f
    <2> QED
      BY <1>1, <1>2, <2>1, <2>2, <2>3, SingleWhole
  <1>4. CASE CFAccepted(NextFrame(p), p)
    <2>1. CFExpected(NextFrame(p), p) /\ InSequence(NextFrame(p)) /\ rcvr.state = "FC_SENT"
          /\ rcvr.id_pair = p
      BY <1>4 DEF CFAccepted, CFExpected
    <2>2. buf # <<>> /\ buf[1].msg \in 1..Len(sent)
      BY <2>1, Receiving
    <2>3. Message.len \in Lengths
      BY <1>2, <2>2, SentTypes DEF BusTypeOK, Message
    <2> DEFINE k == peer[p].next
    <2>4. /\ k \in Nat /\ k > 0 /\ k < NumFrames(Message.len) /\ Len(buf) = k
          /\ NextFrame(p) = Segment(buf[1].msg, Message.len, k)
      BY <1>1, <2>1, Expected, InStep
    <2>7. k \in Nat
      BY <2>4
    <2> DEFINE f == NextFrame(p)
    <2>5. ChunkOf(f) \in Chunk
      BY <1>1, <1>2, NextFrameTypes
    <2>6. CFAccepted(f, p) /\ f = Segment(buf[1].msg, Message.len, k)
      BY <1>4, <2>4
    <2> HIDE DEF k, f
    <2> QED
      BY <1>1, <1>2, <2>1, <2>2, <2>3, <2>4, <2>5, <2>6, <2>7, LastWhole
  <1> QED
    BY <1>3, <1>4

LEMMA DeliveredStep ==
  ASSUME Short, BufferInv, DeliveredInv, [Next]_vars PROVE DeliveredInv'
  <1>1. /\ TypeOK /\ Len(sent) \in Nat /\ sent \in Seq([id : Peers, len : Lengths])
        /\ \A n \in 1..Len(sent) : sent[n].len <= 255
    BY LenProperties DEF BufferInv, TypedInv, TypeOK, BusTypeOK, DeliveredInv
  <1>2. ASSUME inbox' = inbox, sent' = sent PROVE DeliveredInv'
    BY <1>1, <1>2, InboxKept
  <1>3. ASSUME NEW p \in Peers, NEW l \in Lens[p], PeerStart(p, l) PROVE DeliveredInv'
    <2>1. l <= 255 /\ [id |-> p, len |-> l] \in [id : Peers, len : Lengths]
      BY LensAssumption DEF Short
    <2>2. inbox' = inbox /\ sent' = Append(sent, [id |-> p, len |-> l])
      BY <1>3 DEF PeerStart, rvars
    <2>3. /\ Len(sent') = Len(sent) + 1 /\ sent'[Len(sent) + 1] = [id |-> p, len |-> l]
          /\ \A n \in 1..Len(sent) : sent'[n] = sent[n]
      BY <1>1, <2>1, <2>2, AppendProperties
    <2>4. \A n \in 1..Len(sent') : sent'[n].len <= 255
      <3> SUFFICES ASSUME NEW n \in 1..Len(sent') PROVE sent'[n].len <= 255
        OBVIOUS
      <3>1. CASE n \in 1..Len(sent)
        BY <1>1, <2>3, <3>1
      <3>2. CASE n \notin 1..Len(sent)
        <4>1. n = Len(sent) + 1
          BY <1>1, <2>3, <3>2
        <4> QED
          BY <2>1, <2>3, <4>1
      <3> QED
        BY <3>1, <3>2
    <2> QED
      BY <1>1, <2>2, <2>3, <2>4, InboxKept
  <1>4. ASSUME NEW p \in Peers, FrameLost(p) PROVE DeliveredInv'
    BY <1>2, <1>4 DEF FrameLost, Advance, rvars
  <1>5. ASSUME NEW p \in Peers, cantp_rx_task(p) PROVE DeliveredInv'
    <2> DEFINE f == NextFrame(p)
    <2>1. cantp_canrx_cb(f, p) /\ sent' = sent
      BY <1>5 DEF cantp_rx_task, Advance
    <2>2. rx_single_frame(f, p) \/ CFAccepted(f, p) => DeliveredInv'
      BY <1>5, HandlerDelivers
    <2> HIDE DEF f
    <2>3. CASE FFRefused(f) \/ rcvr_rx_first_frame(f, p) \/ CFIgnored(f, p) \/ CFDiscarded(f, p)
      BY <1>2, <2>1, <2>3 DEF FFRefused, CFIgnored, rvars, CFDiscarded, rcvr_rx_first_frame,
                              FFRejected, FFNoBuffer, FFAccepted
    <2> QED
      BY <2>1, <2>2, <2>3 DEF cantp_canrx_cb, rcvr_rx_consecutive_frame
  <1>6. ASSUME NEW ok \in BOOLEAN, NEW out \in BOOLEAN, SendCTS(ok), CTSOut(out)
        PROVE  DeliveredInv'
    BY <1>2, <1>6 DEF SendCTS, CTSOut, cantp_can_tx
  <1>7. ASSUME UNCHANGED bus, \/ \E ok \in BOOLEAN : SendWait(ok)
                             \/ EndBlock \/ AwaitNextCF \/ cantp_rcvr_timer_cb
        PROVE  DeliveredInv'
    BY <1>2, <1>7 DEF bus, SendWait, cantp_can_tx, EndBlock, AwaitNextCF, cantp_rcvr_timer_cb
  <1>8. ASSUME UNCHANGED vars PROVE DeliveredInv'
    BY <1>2, <1>8 DEF vars, rvars, bus
  <1> QED
    BY <1>3, <1>4, <1>5, <1>6, <1>7, <1>8 DEF Next

\* What the session layer receives is a whole message of the length sent,
\* if no message is longer than 255 bytes.
THEOREM Delivering ==
  ASSUME ~LateFC, MaxLost < 16, Short PROVE Spec => []DeliveredIntact
  <1>1. Init => BufferInv /\ DeliveredInv
    BY BufferInit DEF Init, RoleInit, DeliveredInv, DeliveredIntact
  <1>2. BufferInv /\ DeliveredInv /\ [Next]_vars => (BufferInv /\ DeliveredInv)'
    BY BufferStep, DeliveredStep
  <1>3. DeliveredInv => DeliveredIntact
    BY DEF DeliveredInv
  <1> QED
    BY <1>1, <1>2, <1>3, PTL DEF Spec

=============================================================================
