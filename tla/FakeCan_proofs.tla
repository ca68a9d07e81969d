--------------------------- MODULE FakeCan_proofs ---------------------------
(***************************************************************************)
(* The fake driver: what a call returns is true of its own frame, and the  *)
(* frames received are whole, for any number of calls and frames, any      *)
(* frame size and any number of frames that are never acknowledged, as     *)
(* long as nothing is left over from an earlier call.                      *)
(***************************************************************************)
EXTENDS FakeCan, FiniteSetTheorems, SequenceTheorems, TLAPS

\* A call is under way; the acknowledge threads that have had their byte; what
\* this process has written and the other has not read.
InCall   == {"arm", "settime", "create", "wait", "woken"}
Started  == {"create", "wait", "woken"}
HasRead  == {"load", "stop", "store", "post", "over"}
Readers  == {c \in Calls : ack[c] \in HasRead}
Line     == toPeer \o txbuf

Numbered == main \in InCall => call \in Calls

\* The acknowledge threads are started in the order of their calls.
ThreadInv ==
  /\ \A c \in Calls : (c > call => ack[c] = "none") /\ (c < call => ack[c] # "none")
  /\ main \in {"arm", "settime", "create"} => ack[call] = "none"
  /\ call \in Calls /\ main \notin {"arm", "settime", "create"} => ack[call] # "none"
  /\ main \in {"arm", "settime"} => kind = "tx"

\* A frame is in one place at a time: on its way, with the other process, or
\* acknowledged.
PlaceInv ==
  /\ \A i \in 1..Len(Line) : Line[i] # 0 => Line[i] <= call /\ Line[i] \notin acked \cup {peer}
  /\ \A i, j \in 1..Len(Line) : Line[i] = Line[j] /\ Line[i] # 0 => i = j
  /\ peer # 0 => peer <= call /\ peer \notin acked
  /\ acked \subseteq 1..call

\* The processes take turns: a frame of the other one that has not been handed
\* on is its only one, and no call begins before it has been.
TurnInv ==
  /\ offered > Len(rcvd) =>
       offered = Len(rcvd) + 1 /\ sending /\ main \in {"idle", "rx", "read"}
  /\ \A i \in 1..Len(Line) : Line[i] = 0 => offered <= Len(rcvd)
  /\ sending => peer = 0

\* Every byte that came has been taken by one of the two kinds of readers, or
\* is still in the stream.
ByteInv ==
  Len(rxbuf) + Cardinality(Readers) + FrameSize * Len(rcvd)
    = Cardinality(acked) + FrameSize * offered

\* A call has its result when it returns.
FreshInv ==
  \A c \in Calls : c > call \/ (c = call /\ main \in InCall) => result[c] = "none"

\* What a call under way can rely on when it found nothing left over: the
\* acknowledge threads of the others have ended, nobody but its own thread and
\* its own timer can wake it, and tx_ack is theirs.
OwnInv ==
  main \in InCall /\ call \notin stale =>
    /\ \A c \in Calls : c < call => ack[c] = "over"
    /\ kind = "tx" =>
         /\ tx_ack = 1 => ack[call] \in {"post", "over"}
         /\ main \in Started =>
              /\ armed \in {0, call} /\ \A p \in Calls : p # call => notes[p] \in {"none", "over"}
              /\ tx_ack = 0 /\ ack[call] \in {"post", "over"} => T!Expired(call)
              /\ tx_done_sem > 0 \/ main = "woken" => ack[call] = "over" \/ T!Expired(call)
    /\ kind = "nb" =>
         /\ status # "RUN" /\ \A p \in Calls : notes[p] \in {"none", "load", "over"}
         /\ tx_done_sem > 0 \/ main = "woken" => ack[call] = "over"

\* Until something is left over, every acknowledge thread has had its byte
\* before the other process sends, so rx_stream holds its frame or nothing.
Undisturbed == stale = {} /\ \A c \in Calls : result[c] # "failed"
WholeInv ==
  Undisturbed =>
    /\ main \notin InCall => \A c \in Calls : c <= call => ack[c] \in HasRead
    /\ Len(rcvd) <= offered
    /\ offered > Len(rcvd) => rxbuf = Bytes(offered)

DInv == /\ TypeOK /\ Numbered /\ FreshInv /\ ThreadInv /\ PlaceInv /\ TurnInv /\ ByteInv /\ OwnInv /\ WholeInv
        /\ CleanCallsTellTrue /\ FramesWhole

----------------------------------------------------------------------------
(* Types.                                                                   *)

LEMMA Sizes == MaxTx \in Nat /\ MaxRx \in Nat /\ FrameSize \in Nat /\ FrameSize >= 2
  BY SizeAssumption

LEMMA BytesTyped ==
  ASSUME NEW n \in 1..MaxRx
  PROVE  Bytes(n) \in Seq(Token) /\ Len(Bytes(n)) = FrameSize
  <1>1. Bytes(n) \in [1..FrameSize -> Token]
    BY DEF Bytes, Token
  <1>2. FrameSize \in Nat
    BY Sizes
  <1> QED
    BY <1>1, <1>2, SeqDef

\* Only main moves main, and numbers its calls.
LEMMA Elsewhere ==
  ASSUME AckThread \/ Expire \/ NoteThread \/ Peer \/ UNCHANGED vars
  PROVE  UNCHANGED <<main, kind, call, result, rcvd, stale>>
  BY DEF AckThread, AckFlush, AckLock, AckRead, AckStop, AckStore, AckPost, ByAck, Expire, ByNote,
     NoteThread, Notified, fake_can_tx_toutus_cb, Peer, PeerReads, PeerAcknowledges, PeerIgnores,
     PeerSends, PeerAcknowledged, ByPeer, vars, history

\* What a step of main, of an acknowledge thread, of the timer or of the other
\* process does to the types.
LEMMA MainTyped == ASSUME TypeOK, Numbered, Main PROVE TypeOK'
  <1> USE DEF TypeOK, ByMain
  <1>0. MaxTx \in Nat /\ FrameSize \in Nat /\ MaxRx \in Nat
    BY Sizes
  <1>1. ASSUME NEW k \in {"tx", "nb"}, Begin(k)
        PROVE  /\ kind' \in {"tx", "nb"} /\ call' \in 0..MaxTx
               /\ txbuf' \in Seq(0..MaxTx) /\ stale' \subseteq Calls
    <2>1. call + 1 \in 1..MaxTx
      BY <1>0, <1>1 DEF Begin
    <2>2. Append(txbuf, call + 1) \in Seq(0..MaxTx)
      BY <2>1, AppendProperties
    <2> QED
      BY <1>1, <2>1, <2>2 DEF Begin, Calls
  <1>2. CASE fake_can_tx
    BY <1>1, <1>2 DEF fake_can_tx, Begin, tvars, streams
  <1>3. CASE fake_can_tx_nb
    BY <1>1, <1>3 DEF fake_can_tx_nb, Begin, tvars
  <1>4. CASE ArmStore
    BY <1>4 DEF ArmStore, T!StartStore, streams
  <1>5. CASE ArmSetTime
    <2>1. call \in Calls
      BY <1>5 DEF ArmSetTime, Numbered, InCall
    <2> QED
      BY <1>5, <2>1 DEF ArmSetTime, T!SetTime, streams
  <1>6. CASE CreateAckThread
    BY <1>6 DEF CreateAckThread, streams, tvars, history
  <1>7. CASE AwaitDone
    BY <1>7 DEF AwaitDone, streams, tvars
  <1>8. CASE Return
    BY <1>8 DEF Return, streams, tvars
  <1>9. CASE CallbackReturns \/ RxTask \/ RxLock
    BY <1>9 DEF CallbackReturns, RxTask, RxLock, streams, tvars
  <1>10. CASE RxFrame
    <2>1. Len(rxbuf) \in Nat /\ \A i \in 1..Len(rxbuf) : rxbuf[i] \in Token
      BY ElementOfSeq, LenProperties
    <2>2. SubSeq(rxbuf, FrameSize + 1, Len(rxbuf)) \in Seq(Token)
      BY <1>0, <2>1, SubSeqProperties
    <2>3. SubSeq(rxbuf, 1, FrameSize) \in Seq(Token)
      BY <1>0, <1>10, <2>1, SubSeqProperties DEF RxFrame
    <2>4. Append(rcvd, SubSeq(rxbuf, 1, FrameSize)) \in Seq(Seq(Token))
      BY <2>3, AppendProperties
    <2>5. toPeer \o txbuf \o <<0>> \in Seq(0..MaxTx)
      <3>1. <<0>> \in Seq(0..MaxTx)
        BY <1>0
      <3>2. toPeer \o txbuf \in Seq(0..MaxTx)
        BY ConcatProperties
      <3> QED
        BY <3>1, <3>2, ConcatProperties
    <2>6. <<>> \in Seq(0..MaxTx)
      BY EmptySeq
    <2> QED
      BY <1>10, <2>2, <2>4, <2>5, <2>6 DEF RxFrame, tvars
  <1> QED
    BY <1>2, <1>3, <1>4, <1>5, <1>6, <1>7, <1>8, <1>9, <1>10 DEF Main

LEMMA AckTyped == ASSUME TypeOK, AckThread PROVE TypeOK'
  <1> USE DEF TypeOK, ByAck
  <1>1. ASSUME NEW c \in Calls, AckFlush(c) PROVE TypeOK'
    <2>1. toPeer \o txbuf \in Seq(0..MaxTx) /\ <<>> \in Seq(0..MaxTx)
      BY ConcatProperties, EmptySeq
    <2> QED
      BY <1>1, <2>1 DEF AckFlush, tvars
  <1>2. ASSUME NEW c \in Calls, AckLock(c) PROVE TypeOK'
    BY <1>2 DEF AckLock, streams, tvars
  <1>3. ASSUME NEW c \in Calls, AckRead(c) PROVE TypeOK'
    <2>1. Tail(rxbuf) \in Seq(Token)
      BY <1>3, HeadTailProperties DEF AckRead
    <2> QED
      BY <1>3, <2>1 DEF AckRead, tvars
  <1>4. ASSUME NEW c \in Calls, AckStop(c) PROVE TypeOK'
    BY <1>4 DEF AckStop, T!StopStore, T!Running, streams, tvars
  <1>5. ASSUME NEW c \in Calls, AckStore(c) \/ AckPost(c) PROVE TypeOK'
    <2>1. CASE AckStore(c)
      BY <2>1 DEF AckStore, streams, tvars
    <2>2. CASE AckPost(c)
      BY <2>2 DEF AckPost, streams, tvars
    <2> QED
      BY <1>5, <2>1, <2>2
  <1> QED
    BY <1>1, <1>2, <1>3, <1>4, <1>5 DEF AckThread

LEMMA TimerTyped == ASSUME TypeOK, Expire \/ NoteThread PROVE TypeOK'
  <1> USE DEF TypeOK, ByNote, streams, history
  <1>1. CASE Expire
    <2>1. armed' \in 0..MaxTx
      BY <1>1, Sizes DEF Expire, T!Expiry
    <2>2. notes' \in [Calls -> {"none", "load", "store", "cb", "post", "over"}]
      BY <1>1 DEF Expire, T!Expiry
    <2>3. UNCHANGED <<status, tx_ack, tx_done_sem>>
      BY <1>1 DEF Expire, T!Expiry
    <2> QED
      BY <1>1, <2>1, <2>2, <2>3 DEF Expire
  <1>2. ASSUME NEW p \in Calls, Notified(p) \/ fake_can_tx_toutus_cb(p) PROVE TypeOK'
    <2>1. notes' \in [Calls -> {"none", "load", "store", "cb", "post", "over"}]
      BY <1>2 DEF Notified, T!CbLoad, T!CbStore, fake_can_tx_toutus_cb
    <2>2. armed' = armed /\ status' \in {"none", "RUN", "STOP"}
      BY <1>2 DEF Notified, T!CbLoad, T!CbStore, fake_can_tx_toutus_cb
    <2>3. tx_ack' \in {0, 1} /\ tx_done_sem' \in Nat
      BY <1>2 DEF Notified, fake_can_tx_toutus_cb
    <2>4. ByNote
      BY <1>2 DEF Notified, fake_can_tx_toutus_cb
    <2> QED
      BY <2>1, <2>2, <2>3, <2>4
  <1> QED
    BY <1>1, <1>2 DEF NoteThread

LEMMA PeerTyped == ASSUME TypeOK, Peer PROVE TypeOK'
  <1> USE DEF TypeOK, ByPeer
  <1>0. MaxTx \in Nat /\ MaxRx \in Nat
    BY Sizes
  <1>1. CASE PeerReads
    <2>1. Head(toPeer) \in 0..MaxTx /\ Tail(toPeer) \in Seq(0..MaxTx)
      BY <1>1, HeadTailProperties DEF PeerReads
    <2> QED
      BY <1>1, <2>1 DEF PeerReads, tvars
  <1>2. CASE PeerAcknowledges
    <2>1. Append(rxbuf, Ack) \in Seq(Token)
      BY AppendProperties DEF Token
    <2>2. peer \in Calls
      BY <1>0, <1>2 DEF PeerAcknowledges, Calls
    <2> QED
      BY <1>0, <1>2, <2>1, <2>2 DEF PeerAcknowledges, tvars
  <1>3. CASE PeerIgnores
    <2>2. peer \in Calls
      BY <1>0, <1>3 DEF PeerIgnores, Calls
    <2> QED
      BY <1>0, <1>3, <2>2 DEF PeerIgnores, tvars
  <1>4. CASE PeerSends
    <2>1. offered + 1 \in 1..MaxRx
      BY <1>0, <1>4 DEF PeerSends
    <2>2. rxbuf \o Bytes(offered + 1) \in Seq(Token)
      BY <2>1, BytesTyped, ConcatProperties
    <2> QED
      BY <1>4, <2>1, <2>2 DEF PeerSends, tvars
  <1>5. CASE PeerAcknowledged
    <2>1. Tail(toPeer) \in Seq(0..MaxTx)
      BY <1>5, HeadTailProperties DEF PeerAcknowledged
    <2> QED
      BY <1>5, <2>1 DEF PeerAcknowledged, tvars
  <1> QED
    BY <1>1, <1>2, <1>3, <1>4, <1>5 DEF Peer

\* A call is one that was begun.
LEMMA NumberedNext == ASSUME TypeOK, Numbered, [Next]_vars PROVE Numbered'
  <1>0. MaxTx \in Nat
    BY Sizes
  <1>1. CASE fake_can_tx \/ fake_can_tx_nb
    BY <1>0, <1>1 DEF fake_can_tx, fake_can_tx_nb, Begin, Numbered, Calls, TypeOK
  <1>2. CASE Main /\ ~fake_can_tx /\ ~fake_can_tx_nb
    BY <1>2 DEF Main, ArmStore, ArmSetTime, CreateAckThread, AwaitDone, Return, CallbackReturns,
       RxTask, RxLock, RxFrame, Numbered, InCall
  <1>3. CASE AckThread \/ Expire \/ NoteThread \/ Peer \/ UNCHANGED vars
    BY <1>3, Elsewhere DEF Numbered
  <1> QED
    BY <1>1, <1>2, <1>3 DEF Next

LEMMA TypeInit == Init => TypeOK
  <1>1. \A S : <<>> \in Seq(S)
    OBVIOUS
  <1>2. MaxTx \in Nat /\ MaxRx \in Nat
    BY Sizes
  <1>3. SUFFICES ASSUME Init PROVE TypeOK
    OBVIOUS
  <1>4. /\ ack \in [Calls -> {"none"}] /\ notes \in [Calls -> {"none"}]
        /\ result \in [Calls -> {"none"}]
    BY <1>3 DEF Init, T!TimerInit
  <1>5. status = "none" /\ armed = 0
    BY <1>3 DEF Init, T!TimerInit
  <1>6. /\ ack \in [Calls -> {"none", "flush", "lock", "read", "load", "stop", "store", "post", "over"}]
        /\ notes \in [Calls -> {"none", "load", "store", "cb", "post", "over"}]
        /\ result \in [Calls -> {"none", "ok", "failed", "confirmed"}]
    BY <1>4
  <1>7. call \in 0..MaxTx /\ peer \in 0..MaxTx /\ offered \in 0..MaxRx /\ armed \in 0..MaxTx
    BY <1>2, <1>3, <1>5 DEF Init
  <1> QED
    BY <1>1, <1>3, <1>5, <1>6, <1>7 DEF Init, TypeOK

LEMMA TypeNext == ASSUME TypeOK, Numbered, [Next]_vars PROVE TypeOK'
  <1>1. CASE UNCHANGED vars
    BY <1>1 DEF TypeOK, vars, streams, tvars, history
  <1> QED
    BY <1>1, MainTyped, AckTyped, TimerTyped, PeerTyped DEF Next

\* Every variable of the driver, its streams, threads and timer keeps its type,
\* whatever the other process acknowledges, ignores and sends.
THEOREM Typing == Spec => []TypeOK
  <1>1. Init => TypeOK /\ Numbered
    BY TypeInit DEF Init, Numbered, InCall
  <1>2. TypeOK /\ Numbered /\ [Next]_vars => TypeOK' /\ Numbered'
    BY TypeNext, NumberedNext
  <1> QED
    BY <1>1, <1>2, PTL DEF Spec

----------------------------------------------------------------------------
(* The threads and the bytes on their way.                                  *)

LEMMA ThreadNext == ASSUME TypeOK, Numbered, ThreadInv, [Next]_vars PROVE ThreadInv'
  <1>0. MaxTx \in Nat /\ \A c \in Calls : c \in Nat
    BY Sizes DEF Calls
  <1>1. CASE fake_can_tx \/ fake_can_tx_nb
    <2>1. /\ main \in {"idle", "callback"} /\ call' = call + 1 /\ ack' = ack
          /\ (main' = "arm" /\ kind' = "tx") \/ (main' = "create" /\ kind' = "nb")
      BY <1>1 DEF fake_can_tx, fake_can_tx_nb, Begin, ByMain
    <2>2. call \in Nat /\ call + 1 \in Calls
      BY <1>0, <1>1 DEF fake_can_tx, fake_can_tx_nb, Begin, TypeOK, Calls
    <2>3. ack[call + 1] = "none"
      BY <2>2 DEF ThreadInv
    <2>4. ASSUME NEW c \in Calls, c < call + 1 PROVE ack[c] # "none"
      <3>1. c < call \/ c = call
        BY <1>0, <2>2, <2>4
      <3> QED
        BY <2>1, <3>1 DEF ThreadInv
    <2>5. ASSUME NEW c \in Calls, c > call + 1 PROVE ack[c] = "none"
      <3>1. c > call
        BY <1>0, <2>2, <2>5
      <3> QED
        BY <3>1 DEF ThreadInv
    <2> QED
      BY <2>1, <2>3, <2>4, <2>5 DEF ThreadInv
  <1>2. CASE ArmStore \/ ArmSetTime
    BY <1>2 DEF ArmStore, ArmSetTime, ByMain, ThreadInv
  <1>3. CASE CreateAckThread
    <2>1. call \in Calls /\ main' = "wait" /\ ack' = [ack EXCEPT ![call] = "flush"] /\ call' = call
      BY <1>3 DEF CreateAckThread, Numbered, InCall
    <2> QED
      BY <1>0, <2>1 DEF ThreadInv, TypeOK
  <1>4. CASE AwaitDone \/ Return \/ CallbackReturns \/ RxTask \/ RxLock \/ RxFrame
    BY <1>4 DEF AwaitDone, Return, CallbackReturns, RxTask, RxLock, RxFrame, ByMain, ThreadInv
  <1>5. CASE AckThread
    <2>1. UNCHANGED <<main, kind, call>>
      BY <1>5, Elsewhere
    <2>2. PICK c \in Calls : ack[c] # "none" /\ \E to \in HasRead \cup {"lock", "read"} :
                               ack' = [ack EXCEPT ![c] = to]
      BY <1>5 DEF AckThread, AckFlush, AckLock, AckRead, AckStop, AckStore, AckPost, ByAck, HasRead
    <2>3. ack'[c] # "none" /\ \A d \in Calls : d # c => ack'[d] = ack[d]
      BY <2>2 DEF TypeOK, HasRead
    <2> QED
      BY <2>1, <2>2, <2>3 DEF ThreadInv
  <1>6. CASE Expire \/ NoteThread \/ Peer \/ UNCHANGED vars
    <2>1. UNCHANGED <<main, kind, call, ack>>
      BY <1>6, Elsewhere DEF Expire, NoteThread, Notified, fake_can_tx_toutus_cb, ByNote, Peer,
         PeerReads, PeerAcknowledges, PeerIgnores, PeerSends, PeerAcknowledged, ByPeer, vars
    <2> QED
      BY <2>1 DEF ThreadInv
  <1> QED
    BY <1>1, <1>2, <1>3, <1>4, <1>5, <1>6 DEF Next, Main

\* Line is written at its end and read at its head; flushing does not show.
Written(x) ==
  /\ Len(Line') = Len(Line) + 1 /\ Line'[Len(Line) + 1] = x
  /\ \A i \in 1..Len(Line) : Line'[i] = Line[i]
Consumed ==
  /\ Len(Line) >= 1 /\ Line[1] = Head(toPeer) /\ Len(Line') = Len(Line) - 1
  /\ \A i \in 1..Len(Line') : Line'[i] = Line[i + 1]

LEMMA LineTyped == ASSUME TypeOK PROVE Line \in Seq(0..MaxTx) /\ Len(Line) \in Nat
  BY ConcatProperties, LenProperties DEF TypeOK, Line

LEMMA LineWritten ==
  ASSUME TypeOK, NEW x \in 0..MaxTx,
         \/ toPeer' = toPeer /\ txbuf' = Append(txbuf, x)
         \/ toPeer' = toPeer \o txbuf \o <<x>> /\ txbuf' = <<>>
  PROVE  Written(x)
  <1>1. Line \in Seq(0..MaxTx) /\ Len(Line) \in Nat /\ <<x>> \in Seq(0..MaxTx) /\ Len(<<x>>) = 1
    BY LineTyped
  <1>2. toPeer \in Seq(0..MaxTx) /\ txbuf \in Seq(0..MaxTx)
    BY DEF TypeOK
  <1>3. Line' = Line \o <<x>>
    <2>1. CASE toPeer' = toPeer /\ txbuf' = Append(txbuf, x)
      <3>1. Append(txbuf, x) = txbuf \o <<x>>
        BY <1>2, AppendIsConcat
      <3> QED
        BY <1>1, <1>2, <2>1, <3>1, ConcatAssociative DEF Line
    <2>2. CASE toPeer' = toPeer \o txbuf \o <<x>> /\ txbuf' = <<>>
      <3>1. Line \o <<x>> \in Seq(0..MaxTx)
        BY <1>1, ConcatProperties
      <3> QED
        BY <2>2, <3>1, ConcatEmptySeq DEF Line
    <2> QED
      BY <2>1, <2>2
  <1>4. \A i \in 1..Len(Line) + 1 :
          (Line \o <<x>>)[i] = IF i <= Len(Line) THEN Line[i] ELSE <<x>>[i - Len(Line)]
    BY <1>1, ConcatProperties
  <1>5. Len(Line \o <<x>>) = Len(Line) + 1
    BY <1>1, ConcatProperties
  <1>6. (Line \o <<x>>)[Len(Line) + 1] = x
    <2>1. Len(Line) + 1 \in 1..Len(Line) + 1 /\ ~(Len(Line) + 1 <= Len(Line)) /\ (Len(Line) + 1) - Len(Line) = 1
      BY <1>1
    <2> QED
      BY <1>4, <2>1
  <1>7. \A i \in 1..Len(Line) : i \in 1..Len(Line) + 1 /\ i <= Len(Line)
    BY <1>1
  <1> QED
    BY <1>3, <1>4, <1>5, <1>6, <1>7 DEF Written

LEMMA LineFlushed ==
  ASSUME TypeOK, toPeer' = toPeer \o txbuf, txbuf' = <<>>
  PROVE  Line' = Line
  BY LineTyped, ConcatEmptySeq DEF Line

LEMMA LineConsumed ==
  ASSUME TypeOK, toPeer # <<>>, toPeer' = Tail(toPeer), txbuf' = txbuf
  PROVE  Consumed
  <1>1. toPeer \in Seq(0..MaxTx) /\ txbuf \in Seq(0..MaxTx)
    BY DEF TypeOK
  <1> DEFINE m == Len(toPeer)
             n == Len(txbuf)
             tl == Tail(toPeer)
  <1>2. m \in Nat /\ n \in Nat /\ m >= 1
    BY <1>1, LenProperties, EmptySeq
  <1>3. /\ tl \in Seq(0..MaxTx) /\ Len(tl) = m - 1
        /\ \A i \in 1..m - 1 : tl[i] = toPeer[i + 1]
        /\ Head(toPeer) = toPeer[1]
    BY <1>1, HeadTailProperties
  <1>4. /\ Len(Line) = m + n
        /\ \A i \in 1..m + n : Line[i] = IF i <= m THEN toPeer[i] ELSE txbuf[i - m]
    BY <1>1, ConcatProperties DEF Line
  <1>5. /\ Len(Line') = m - 1 + n
        /\ \A i \in 1..m - 1 + n : Line'[i] = IF i <= m - 1 THEN tl[i] ELSE txbuf[i - (m - 1)]
    BY <1>1, <1>3, ConcatProperties DEF Line
  <1> HIDE DEF m, n, tl
  <1>6. ASSUME NEW i \in 1..m - 1 + n PROVE Line'[i] = Line[i + 1]
    <2>1. i + 1 \in 1..m + n /\ i \in Nat /\ i >= 1
      BY <1>2
    <2>2. CASE i <= m - 1
      BY <1>2, <1>3, <1>4, <1>5, <2>1, <2>2
    <2>3. CASE ~(i <= m - 1)
      <3>1. i - (m - 1) = (i + 1) - m /\ ~(i + 1 <= m)
        BY <1>2, <2>1, <2>3
      <3> QED
        BY <1>4, <1>5, <2>1, <2>3, <3>1
    <2> QED
      BY <2>2, <2>3
  <1>7. Line[1] = Head(toPeer)
    BY <1>2, <1>3, <1>4
  <1> QED
    BY <1>2, <1>4, <1>5, <1>6, <1>7 DEF Consumed

\* The steps that touch the line.
LEMMA LineNext ==
  ASSUME TypeOK, [Next]_vars
  PROVE  \/ Written(call + 1) /\ (fake_can_tx \/ fake_can_tx_nb)
         \/ Written(0) /\ RxFrame
         \/ Consumed /\ (PeerReads \/ PeerAcknowledged)
         \/ /\ Line' = Line
            /\ ~fake_can_tx /\ ~fake_can_tx_nb /\ ~RxFrame /\ ~PeerReads /\ ~PeerAcknowledged
            /\ call' = call
  <1>0. MaxTx \in Nat
    BY Sizes
  <1>1. CASE fake_can_tx \/ fake_can_tx_nb
    <2>1. call + 1 \in 0..MaxTx
      BY <1>0, <1>1 DEF fake_can_tx, fake_can_tx_nb, Begin, TypeOK
    <2> QED
      BY <1>1, <2>1, LineWritten DEF fake_can_tx, fake_can_tx_nb, Begin
  <1>2. CASE RxFrame
    <2>1. 0 \in 0..MaxTx
      BY <1>0
    <2> QED
      BY <1>2, <2>1, LineWritten DEF RxFrame
  <1>3. CASE PeerReads \/ PeerAcknowledged
    BY <1>3, LineConsumed DEF PeerReads, PeerAcknowledged, ByPeer
  <1>4. ASSUME NEW c \in Calls, AckFlush(c) PROVE Line' = Line /\ call' = call
    BY <1>4, LineFlushed DEF AckFlush, ByAck
  <1>5. ASSUME ~fake_can_tx, ~fake_can_tx_nb, ~RxFrame, ~PeerReads, ~PeerAcknowledged,
               \A c \in Calls : ~AckFlush(c)
        PROVE  toPeer' = toPeer /\ txbuf' = txbuf /\ call' = call
    BY <1>5 DEF Next, Main, ArmStore, ArmSetTime, CreateAckThread, AwaitDone, Return,
       CallbackReturns, RxTask, RxLock, AckThread, AckLock, AckRead, AckStop, AckStore, AckPost,
       ByAck, Expire, ByNote, NoteThread, Notified, fake_can_tx_toutus_cb, Peer, PeerAcknowledges,
       PeerIgnores, PeerSends, ByPeer, streams, vars
  <1>6. ASSUME toPeer' = toPeer, txbuf' = txbuf PROVE Line' = Line
    BY <1>6 DEF Line
  <1> QED
    BY <1>1, <1>2, <1>3, <1>4, <1>5, <1>6

\* Acknowledging is the other process's step alone.
LEMMA PeerOnly ==
  ASSUME [Next]_vars
  PROVE  \/ PeerReads \/ PeerAcknowledges \/ PeerIgnores
         \/ UNCHANGED <<peer, acked>>
  BY DEF Next, Main, fake_can_tx, fake_can_tx_nb, ArmStore, ArmSetTime, CreateAckThread, AwaitDone,
     Return, CallbackReturns, RxTask, RxLock, RxFrame, ByMain, AckThread, AckFlush, AckLock, AckRead,
     AckStop, AckStore, AckPost, ByAck, Expire, ByNote, NoteThread, Notified,
     fake_can_tx_toutus_cb, Peer, PeerSends, PeerAcknowledged, vars, history

LEMMA PlaceNext == ASSUME TypeOK, PlaceInv, [Next]_vars PROVE PlaceInv'
  <1>0. /\ call \in Nat /\ peer \in Nat /\ Len(Line) \in Nat
        /\ \A i \in 1..Len(Line) : Line[i] \in Nat
    <2>1. MaxTx \in Nat
      BY Sizes
    <2> QED
      BY <2>1, LineTyped, ElementOfSeq DEF TypeOK
  <1>1. CASE Written(call + 1) /\ (fake_can_tx \/ fake_can_tx_nb)
    <2>1. call' = call + 1 /\ peer' = peer /\ acked' = acked
      BY <1>1 DEF fake_can_tx, fake_can_tx_nb, Begin, ByMain
    <2>2. call + 1 \notin acked \cup {peer} /\ acked \subseteq 1..call + 1
      BY <1>0 DEF PlaceInv
    <2>3. \A i \in 1..Len(Line) + 1 : i \in 1..Len(Line) \/ i = Len(Line) + 1
      BY <1>0
    <2>4. \A i \in 1..Len(Line) : Line[i] # 0 => Line[i] <= call + 1 /\ Line[i] # call + 1
      BY <1>0 DEF PlaceInv
    <2>5. \A i \in 1..Len(Line') : Line'[i] # 0 =>
            Line'[i] <= call + 1 /\ Line'[i] \notin acked \cup {peer}
      BY <1>0, <1>1, <2>2, <2>3, <2>4 DEF Written, PlaceInv
    <2>6. \A i, j \in 1..Len(Line') : Line'[i] = Line'[j] /\ Line'[i] # 0 => i = j
      BY <1>1, <2>3, <2>4 DEF Written, PlaceInv
    <2>7. peer # 0 => peer <= call + 1 /\ peer \notin acked
      BY <1>0 DEF PlaceInv
    <2> QED
      BY <2>1, <2>2, <2>5, <2>6, <2>7 DEF PlaceInv
  <1>2. CASE Written(0) /\ RxFrame
    <2>1. call' = call /\ peer' = peer /\ acked' = acked
      BY <1>2 DEF RxFrame, ByMain
    <2>2. \A i \in 1..Len(Line') : Line'[i] # 0 => i \in 1..Len(Line) /\ Line'[i] = Line[i]
      BY <1>0, <1>2 DEF Written
    <2>3. \A i, j \in 1..Len(Line') : Line'[i] = Line'[j] /\ Line'[i] # 0 => i = j
      BY <2>2 DEF PlaceInv
    <2> QED
      BY <2>1, <2>2, <2>3 DEF PlaceInv
  <1>3. CASE Consumed /\ (PeerReads \/ PeerAcknowledged)
    <2>1. call' = call /\ acked' = acked
      BY <1>3 DEF PeerReads, PeerAcknowledged, ByPeer
    <2>2. \A i \in 1..Len(Line') : i + 1 \in 1..Len(Line) /\ Line'[i] = Line[i + 1] /\ i \in Nat /\ i >= 1
      BY <1>0, <1>3 DEF Consumed
    <2>3. \A i, j \in 1..Len(Line') : Line'[i] = Line'[j] /\ Line'[i] # 0 => i = j
      <3> SUFFICES ASSUME NEW i \in 1..Len(Line'), NEW j \in 1..Len(Line'),
                          Line'[i] = Line'[j], Line'[i] # 0
                   PROVE  i = j
        OBVIOUS
      <3>1. i + 1 = j + 1
        BY <2>2 DEF PlaceInv
      <3> QED
        BY <2>2, <3>1
    <2>4. CASE PeerAcknowledged
      <3>1. peer' = peer
        BY <2>4 DEF PeerAcknowledged
      <3> QED
        BY <2>1, <2>2, <2>3, <3>1 DEF PlaceInv
    <2>5. CASE PeerReads
      <3>1. peer' = Line[1] /\ Line[1] # 0 /\ 1 \in 1..Len(Line)
        BY <1>0, <1>3, <2>5 DEF PeerReads, Consumed
      <3>2. peer' <= call /\ peer' \notin acked
        BY <3>1 DEF PlaceInv
      <3>3. \A i \in 1..Len(Line') : Line'[i] # 0 => Line'[i] # peer'
        <4> SUFFICES ASSUME NEW i \in 1..Len(Line'), Line'[i] # 0, Line'[i] = peer' PROVE FALSE
          OBVIOUS
        <4>1. i + 1 = 1
          BY <2>2, <3>1 DEF PlaceInv
        <4> QED
          BY <2>2, <4>1
      <3> QED
        BY <2>1, <2>2, <2>3, <3>2, <3>3 DEF PlaceInv
    <2> QED
      BY <1>3, <2>4, <2>5
  <1>4. CASE Line' = Line /\ call' = call /\ ~PeerReads
    <2>1. CASE UNCHANGED <<peer, acked>>
      BY <1>4, <2>1 DEF PlaceInv
    <2>2. CASE PeerIgnores
      <3>1. peer' = 0 /\ acked' = acked
        BY <2>2 DEF PeerIgnores
      <3> QED
        BY <1>4, <3>1 DEF PlaceInv
    <2>3. CASE PeerAcknowledges
      <3>1. peer' = 0 /\ acked' = acked \cup {peer} /\ peer # 0
        BY <2>3 DEF PeerAcknowledges
      <3>2. peer \in 1..call
        BY <1>0, <3>1 DEF PlaceInv
      <3> QED
        BY <1>4, <3>1, <3>2 DEF PlaceInv
    <2> QED
      BY <1>4, <2>1, <2>2, <2>3, PeerOnly
  <1> QED
    BY <1>1, <1>2, <1>3, <1>4, LineNext

\* What the two processes know of each other changes in these steps only.
LEMMA TurnOnly ==
  ASSUME [Next]_vars
  PROVE  \/ PeerSends \/ PeerAcknowledged \/ RxFrame
         \/ UNCHANGED <<offered, sending, rcvd>>
  BY DEF Next, Main, fake_can_tx, fake_can_tx_nb, ArmStore, ArmSetTime, CreateAckThread, AwaitDone,
     Return, CallbackReturns, RxTask, RxLock, ByMain, AckThread, AckFlush, AckLock, AckRead,
     AckStop, AckStore, AckPost, ByAck, Expire, ByNote, NoteThread, Notified,
     fake_can_tx_toutus_cb, Peer, PeerReads, PeerAcknowledges, PeerIgnores, ByPeer, vars, history

LEMMA TurnNext == ASSUME TypeOK, TurnInv, [Next]_vars PROVE TurnInv'
  <1>0. offered \in Nat /\ Len(rcvd) \in Nat /\ Len(Line) \in Nat /\ call \in Nat
    <2>1. MaxTx \in Nat /\ MaxRx \in Nat
      BY Sizes
    <2> QED
      BY <2>1, LineTyped, LenProperties DEF TypeOK
  <1> USE DEF TurnInv
  <1>1. CASE fake_can_tx \/ fake_can_tx_nb
    <2>1. UNCHANGED <<offered, sending, rcvd, peer>> /\ (~sending \/ main = "callback")
      BY <1>1 DEF fake_can_tx, fake_can_tx_nb, Begin, ByMain
    <2>2. offered <= Len(rcvd)
      BY <1>0, <2>1
    <2> QED
      BY <1>0, <2>1, <2>2
  <1>2. CASE RxFrame
    <2>1. Len(rcvd') = Len(rcvd) + 1 /\ UNCHANGED <<offered, sending, peer>>
      BY <1>2, AppendProperties, SubSeqProperties DEF RxFrame, ByMain, TypeOK
    <2> QED
      BY <1>0, <2>1
  <1>3. CASE PeerSends
    <2>1. /\ ~sending /\ peer = 0 /\ peer' = peer /\ toPeer = <<>> /\ txbuf = <<>> /\ offered' = offered + 1 /\ sending'
          /\ UNCHANGED <<rcvd, toPeer, txbuf, main>> /\ main \in {"idle", "rx", "read"}
      BY <1>3 DEF PeerSends, ByPeer
    <2>2. offered <= Len(rcvd)
      BY <1>0, <2>1
    <2>3. Len(Line') = 0
      BY <2>1, ConcatEmptySeq, EmptySeq DEF Line
    <2>4. 1..Len(Line') = {}
      BY <2>3
    <2> QED
      BY <1>0, <2>1, <2>2, <2>4
  <1>4. CASE PeerAcknowledged
    <2>1. Line[1] = 0 /\ Len(Line) >= 1
      BY <1>4, LineConsumed DEF PeerAcknowledged, ByPeer, Consumed
    <2>2. offered <= Len(rcvd) /\ UNCHANGED <<offered, rcvd, peer>> /\ ~sending'
      BY <1>0, <1>4, <2>1 DEF PeerAcknowledged, ByPeer
    <2> QED
      BY <1>0, <2>2
  <1>5. CASE /\ UNCHANGED <<offered, sending, rcvd>>
             /\ ~fake_can_tx /\ ~fake_can_tx_nb /\ ~RxFrame /\ ~PeerAcknowledged
    <2>1. \A i \in 1..Len(Line') : Line'[i] = 0 => \E j \in 1..Len(Line) : Line[j] = 0
      <3>1. CASE Line' = Line
        BY <3>1
      <3>2. CASE Consumed
        <4>1. \A i \in 1..Len(Line') : i + 1 \in 1..Len(Line) /\ Line'[i] = Line[i + 1]
          BY <1>0, <3>2 DEF Consumed
        <4> QED
          BY <4>1
      <3> QED
        BY <1>5, <3>1, <3>2, LineNext
    <2>2. main \in {"idle", "rx", "read"} => main' \in {"idle", "rx", "read"}
      BY <1>5, Elsewhere DEF Next, Main, ArmStore, ArmSetTime, CreateAckThread, AwaitDone, Return,
         CallbackReturns, RxTask, RxLock
    <2>3. sending => peer' = 0
      BY <1>5, PeerOnly DEF PeerReads, PeerAcknowledges, PeerIgnores
    <2> QED
      BY <1>5, <2>1, <2>2, <2>3
  <1> QED
    BY <1>1, <1>2, <1>3, <1>4, <1>5, TurnOnly

----------------------------------------------------------------------------
(* The bytes that came.                                                     *)

LEMMA FrameBytes ==
  ASSUME NEW n \in Nat, NEW m \in Nat
  PROVE  /\ FrameSize * n \in Nat /\ FrameSize * (n + 1) = FrameSize * n + FrameSize
         /\ n <= m => FrameSize * n <= FrameSize * m
  <1>1. FrameSize \in Nat
    BY Sizes
  <1> QED
    BY <1>1

LEMMA Counted ==
  ASSUME TypeOK
  PROVE  /\ IsFiniteSet(Readers) /\ Cardinality(Readers) \in Nat
         /\ IsFiniteSet(acked) /\ Cardinality(acked) \in Nat
         /\ Len(rxbuf) \in Nat /\ Len(rcvd) \in Nat /\ offered \in Nat
         /\ FrameSize * Len(rcvd) \in Nat /\ FrameSize * offered \in Nat
  <1>1. MaxTx \in Nat /\ MaxRx \in Nat
    BY Sizes
  <1>2. IsFiniteSet(Calls)
    BY <1>1, FS_Interval DEF Calls
  <1>3. Len(rxbuf) \in Nat /\ Len(rcvd) \in Nat /\ offered \in Nat
    BY <1>1, LenProperties DEF TypeOK
  <1> QED
    BY <1>2, <1>3, FS_Subset, FS_CardinalityType, FrameBytes DEF Readers, TypeOK

\* Who takes and who adds bytes.
LEMMA BytesOnly ==
  ASSUME [Next]_vars
  PROVE  \/ RxFrame \/ PeerSends \/ PeerAcknowledges \/ \E c \in Calls : AckRead(c)
         \/ UNCHANGED <<rxbuf, rcvd, acked, offered>>
  BY DEF Next, Main, fake_can_tx, fake_can_tx_nb, Begin, ArmStore, ArmSetTime, CreateAckThread, AwaitDone,
     Return, CallbackReturns, RxTask, RxLock, ByMain, AckThread, AckFlush, AckLock,
     AckStop, AckStore, AckPost, ByAck, Expire, ByNote, NoteThread, Notified, streams,
     fake_can_tx_toutus_cb, Peer, PeerReads, PeerIgnores, PeerAcknowledged, ByPeer, vars, history

LEMMA ReadersOnly ==
  ASSUME TypeOK, ThreadInv, Numbered, [Next]_vars
  PROVE  (\E c \in Calls : AckRead(c)) \/ Readers' = Readers
  <1>1. CASE CreateAckThread
    <2>1. call \in Calls /\ ack[call] = "none" /\ ack' = [ack EXCEPT ![call] = "flush"]
      BY <1>1 DEF CreateAckThread, Numbered, InCall, ThreadInv
    <2> QED
      BY <2>1 DEF Readers, HasRead, TypeOK
  <1>2. ASSUME NEW c \in Calls, AckFlush(c) \/ AckLock(c) PROVE Readers' = Readers
    BY <1>2 DEF AckFlush, AckLock, ByAck, Readers, HasRead, TypeOK
  <1>3. ASSUME NEW c \in Calls, AckStop(c) \/ AckStore(c) \/ AckPost(c) PROVE Readers' = Readers
    <2>1. PICK to \in HasRead : ack[c] \in HasRead /\ ack' = [ack EXCEPT ![c] = to]
      BY <1>3 DEF AckStop, AckStore, AckPost, ByAck, HasRead
    <2>2. \A d \in Calls : ack'[d] \in HasRead <=> ack[d] \in HasRead
      BY <2>1 DEF TypeOK
    <2> QED
      BY <2>2 DEF Readers
  <1>4. CASE ack' = ack
    BY <1>4 DEF Readers
  <1>5. ack' = ack \/ CreateAckThread \/ AckThread
    BY DEF Next, Main, fake_can_tx, fake_can_tx_nb, ArmStore, ArmSetTime, AwaitDone, Return,
       CallbackReturns, RxTask, RxLock, RxFrame, ByMain, Expire, ByNote, NoteThread, Notified,
       fake_can_tx_toutus_cb, Peer, PeerReads, PeerAcknowledges, PeerIgnores, PeerSends,
       PeerAcknowledged, ByPeer, vars
  <1> QED
    BY <1>1, <1>2, <1>3, <1>4, <1>5 DEF AckThread

LEMMA ByteNext ==
  ASSUME TypeOK, Numbered, ThreadInv, PlaceInv, ByteInv, [Next]_vars
  PROVE  ByteInv'
  <1> DEFINE r == Cardinality(Readers)
             a == Cardinality(acked)
             fr == FrameSize * Len(rcvd)
             fo == FrameSize * offered
  <1>0. /\ r \in Nat /\ a \in Nat /\ Len(rxbuf) \in Nat /\ fr \in Nat /\ fo \in Nat
        /\ FrameSize \in Nat /\ Len(rxbuf) + r + fr = a + fo
    BY Counted, Sizes DEF ByteInv
  <1>1. CASE RxFrame
    <2>1. Readers' = Readers /\ acked' = acked /\ offered' = offered
      BY <1>1 DEF RxFrame, ByMain, Readers
    <2>2. Len(rcvd') = Len(rcvd) + 1
      BY <1>1, AppendProperties, SubSeqProperties DEF RxFrame, TypeOK
    <2>3. fr' = fr + FrameSize
      BY <2>2, Counted, FrameBytes
    <2>4. Len(rxbuf') = Len(rxbuf) - FrameSize
      <3>1. \A i \in FrameSize + 1..Len(rxbuf) : rxbuf[i] \in Token
        BY <1>0, ElementOfSeq DEF TypeOK
      <3> QED
        BY <1>0, <1>1, <3>1, SubSeqProperties DEF RxFrame
    <2> HIDE DEF r, a, fr, fo
    <2>5. r' = r /\ a' = a /\ fo' = fo
      BY <2>1 DEF r, a, fo
    <2>6. Len(rxbuf') + r' + fr' = a' + fo'
      BY <1>0, <2>3, <2>4, <2>5
    <2> QED
      BY <2>6 DEF r, a, fr, fo, ByteInv
  <1>2. CASE PeerSends
    <2>1. Readers' = Readers /\ acked' = acked /\ rcvd' = rcvd /\ offered' = offered + 1
      BY <1>2 DEF PeerSends, ByPeer, Readers
    <2>2. fo' = fo + FrameSize
      BY <2>1, Counted, FrameBytes
    <2>3. Len(rxbuf') = Len(rxbuf) + FrameSize
      <3>1. offered + 1 \in 1..MaxRx
        BY <1>2, Sizes DEF PeerSends, TypeOK
      <3>2. Bytes(offered + 1) \in Seq(Token) /\ Len(Bytes(offered + 1)) = FrameSize
        BY <3>1, BytesTyped
      <3>3. rxbuf \in Seq(Token) /\ rxbuf' = rxbuf \o Bytes(offered + 1)
        BY <1>2 DEF PeerSends, TypeOK
      <3> QED
        BY <3>2, <3>3, ConcatProperties
    <2> HIDE DEF r, a, fr, fo
    <2>4. r' = r /\ a' = a /\ fr' = fr
      BY <2>1 DEF r, a, fr
    <2>5. Len(rxbuf') + r' + fr' = a' + fo'
      BY <1>0, <2>2, <2>3, <2>4
    <2> QED
      BY <2>5 DEF r, a, fr, fo, ByteInv
  <1>3. CASE PeerAcknowledges
    <2>1. /\ Readers' = Readers /\ rcvd' = rcvd /\ offered' = offered
          /\ acked' = acked \cup {peer} /\ peer # 0
      BY <1>3 DEF PeerAcknowledges, ByPeer, Readers
    <2>2. a' = a + 1
      BY <2>1, Counted, FS_AddElement DEF PlaceInv
    <2>3. Len(rxbuf') = Len(rxbuf) + 1
      BY <1>3, AppendProperties DEF PeerAcknowledges, TypeOK, Token
    <2> HIDE DEF r, a, fr, fo
    <2>4. r' = r /\ fr' = fr /\ fo' = fo
      BY <2>1 DEF r, fr, fo
    <2>5. Len(rxbuf') + r' + fr' = a' + fo'
      BY <1>0, <2>2, <2>3, <2>4
    <2> QED
      BY <2>5 DEF r, a, fr, fo, ByteInv
  <1>4. ASSUME NEW c \in Calls, AckRead(c) PROVE ByteInv'
    <2>1. /\ acked' = acked /\ rcvd' = rcvd /\ offered' = offered
          /\ ack[c] = "read" /\ ack' = [ack EXCEPT ![c] = "load"] /\ rxbuf # <<>> /\ rxbuf' = Tail(rxbuf)
      BY <1>4 DEF AckRead, ByAck
    <2>2. Readers' = Readers \cup {c} /\ c \notin Readers
      BY <2>1 DEF Readers, HasRead, TypeOK
    <2>3. r' = r + 1
      BY <2>2, Counted, FS_AddElement
    <2>4. Len(rxbuf') = Len(rxbuf) - 1 /\ Len(rxbuf) >= 1
      BY <2>1, HeadTailProperties, EmptySeq DEF TypeOK
    <2> HIDE DEF r, a, fr, fo
    <2>5. a' = a /\ fr' = fr /\ fo' = fo
      BY <2>1 DEF a, fr, fo
    <2>6. Len(rxbuf') + r' + fr' = a' + fo'
      BY <1>0, <2>3, <2>4, <2>5
    <2> QED
      BY <2>6 DEF r, a, fr, fo, ByteInv
  <1>5. CASE UNCHANGED <<rxbuf, rcvd, acked, offered>> /\ Readers' = Readers
    BY <1>5 DEF ByteInv
  <1> QED
    BY <1>1, <1>2, <1>3, <1>4, <1>5, BytesOnly, ReadersOnly

\* Once every acknowledge thread has had a byte, the stream holds no more than
\* frames of the other process; and if it has none to hand on, every frame of this
\* process was acknowledged.
LEMMA AllRead ==
  ASSUME TypeOK, ThreadInv, PlaceInv, ByteInv,
         \A c \in Calls : c <= call => ack[c] \in HasRead
  PROVE  /\ Len(rxbuf) + FrameSize * Len(rcvd) <= FrameSize * offered
         /\ offered <= Len(rcvd) => Len(rxbuf) = 0 /\ acked = 1..call
  <1>1. MaxTx \in Nat /\ call \in Nat /\ call <= MaxTx /\ 1..call \subseteq Calls
    BY Sizes DEF TypeOK, Calls
  <1>2. Readers = 1..call
    <2>1. \A c \in Calls : c > call => ack[c] \notin HasRead
      BY DEF ThreadInv, HasRead
    <2>2. \A c \in Calls : c \in 1..call <=> c <= call
      BY <1>1 DEF Calls
    <2>3. \A c \in Calls : c <= call \/ c > call
      BY <1>1 DEF Calls
    <2>4. \A c \in Calls : ack[c] \in HasRead <=> c \in 1..call
      BY <2>1, <2>2, <2>3
    <2> QED
      BY <1>1, <2>4 DEF Readers
  <1>3. IsFiniteSet(1..call) /\ Cardinality(1..call) = call
    BY <1>1, FS_Interval
  <1>4. Cardinality(acked) <= call /\ (Cardinality(acked) = call => acked = 1..call)
    BY <1>3, FS_Subset DEF PlaceInv
  <1> DEFINE r == Cardinality(Readers)
             a == Cardinality(acked)
             fr == FrameSize * Len(rcvd)
             fo == FrameSize * offered
  <1>5. /\ r = call /\ a \in Nat /\ Len(rxbuf) \in Nat /\ fr \in Nat /\ fo \in Nat
        /\ Len(rxbuf) + r + fr = a + fo
        /\ offered <= Len(rcvd) => fo <= fr
    BY <1>2, <1>3, Counted, FrameBytes DEF ByteInv
  <1> HIDE DEF r, a, fr, fo
  <1>6. Len(rxbuf) + fr <= fo
    BY <1>1, <1>4, <1>5 DEF a
  <1>7. ASSUME offered <= Len(rcvd) PROVE Len(rxbuf) = 0 /\ a = call
    BY <1>1, <1>4, <1>5, <1>7 DEF a
  <1> QED
    BY <1>4, <1>6, <1>7 DEF a, fr, fo

\* A call that finds nothing left over and has had a byte has had the
\* acknowledge of its own frame.
LEMMA OwnAcknowledge ==
  ASSUME TypeOK, Numbered, ThreadInv, PlaceInv, TurnInv, ByteInv, main \in InCall,
         \A c \in Calls : c < call => ack[c] = "over", ack[call] \in HasRead
  PROVE  call \in acked
  <1>1. call \in Calls /\ call \in Nat /\ call >= 1 /\ \A c \in Calls : c \in Nat
    BY Sizes DEF Numbered, Calls
  <1>2. \A c \in Calls : c <= call => ack[c] \in HasRead
    <2> SUFFICES ASSUME NEW c \in Calls, c <= call PROVE ack[c] \in HasRead
      OBVIOUS
    <2>1. c < call \/ c = call
      BY <1>1
    <2> QED
      BY <2>1 DEF HasRead
  <1>3. offered <= Len(rcvd)
    BY Counted DEF TurnInv, InCall
  <1> QED
    BY <1>1, <1>2, <1>3, AllRead

----------------------------------------------------------------------------
(* A call that finds nothing left over.                                     *)

LEMMA OwnMain ==
  ASSUME TypeOK, Numbered, ThreadInv, ThreadInv', OwnInv, Main
  PROVE  OwnInv'
  <1>0. \A c \in Calls : c \in Nat
    BY DEF Calls
  <1>1. CASE fake_can_tx \/ fake_can_tx_nb
    <2> SUFFICES ASSUME call' \notin stale' PROVE OwnInv'
      BY DEF OwnInv
    <2>1. /\ call' = call + 1 /\ ~LeftOver /\ ack' = ack
      BY <1>1 DEF fake_can_tx, fake_can_tx_nb, Begin, ByMain
    <2>2. tx_done_sem = 0 /\ status # "RUN" /\ \A p \in Calls : notes[p] \in {"none", "over"}
      BY <2>1 DEF LeftOver, T!Running, T!Notifying, TypeOK
    <2>3. \A c \in Calls : c < call' => ack'[c] = "over"
      BY <2>1 DEF LeftOver, ThreadInv
    <2>4. CASE fake_can_tx
      BY <2>3, <2>4 DEF fake_can_tx, Begin, OwnInv, Started
    <2>5. CASE fake_can_tx_nb
      BY <2>2, <2>3, <2>5 DEF fake_can_tx_nb, Begin, OwnInv, tvars
    <2> QED
      BY <1>1, <2>4, <2>5
  <1>2. CASE ArmStore
    BY <1>2 DEF ArmStore, ByMain, OwnInv, InCall, Started, ThreadInv
  <1>3. CASE ArmSetTime
    <2> SUFFICES ASSUME call' \notin stale' PROVE OwnInv'
      BY DEF OwnInv
    <2>1. /\ call' = call /\ call \notin stale /\ ack' = ack /\ notes' = notes /\ armed' = call
          /\ tx_done_sem' = 0 /\ kind' = "tx" /\ tx_ack' = tx_ack /\ main' = "create"
      BY <1>3 DEF ArmSetTime, ByMain, T!SetTime, TypeOK, ThreadInv
    <2>2. \A p \in Calls : notes[p] \in {"none", "over"}
      BY <1>3, <2>1 DEF ArmSetTime, T!Notifying
    <2>3. ack[call] = "none" /\ call \in Calls /\ main \in InCall
      BY <1>3 DEF ArmSetTime, ThreadInv, Numbered, InCall
    <2> QED
      BY <1>3, <2>1, <2>2, <2>3 DEF OwnInv, ArmSetTime, ThreadInv
  <1>4. CASE CreateAckThread
    <2>1. /\ call \in Calls /\ ack' = [ack EXCEPT ![call] = "flush"] /\ ack[call] = "none"
          /\ main = "create" /\ main' = "wait"
          /\ UNCHANGED <<kind, call, tx_ack, tx_done_sem, status, armed, notes, stale>>
      BY <1>4 DEF CreateAckThread, Numbered, InCall, ThreadInv, tvars, history
    <2>2. \A c \in Calls : c < call => ack'[c] = ack[c]
      BY <1>0, <2>1 DEF TypeOK
    <2> QED
      BY <2>1, <2>2 DEF OwnInv, InCall, Started, TypeOK, T!Expired
  <1>5. CASE AwaitDone
    BY <1>5 DEF AwaitDone, ByMain, tvars, OwnInv, InCall, Started, T!Expired
  <1>6. CASE Return \/ CallbackReturns \/ RxTask \/ RxLock \/ RxFrame
    BY <1>6 DEF Return, CallbackReturns, RxTask, RxLock, RxFrame, OwnInv, InCall
  <1> QED
    BY <1>1, <1>2, <1>3, <1>4, <1>5, <1>6 DEF Main

LEMMA OwnAck ==
  ASSUME TypeOK, Numbered, ThreadInv, OwnInv, AckThread
  PROVE  OwnInv'
  <1>1. UNCHANGED <<main, kind, call, stale>>
    BY Elsewhere
  <1> SUFFICES ASSUME main \in InCall, call \notin stale PROVE OwnInv'
    BY <1>1 DEF OwnInv
  <1>2. call \in Calls /\ \A c \in Calls : c \in Nat
    BY DEF Numbered, Calls
  <1>3. ASSUME NEW c \in Calls, ack[c] \notin {"none", "over"} PROVE c = call
    <2>1. ~(c < call) /\ ~(c > call)
      BY <1>3 DEF OwnInv, ThreadInv
    <2> QED
      BY <1>2, <2>1
  <1>4. /\ ack[call] \notin {"none", "over"} /\ UNCHANGED <<armed, notes>>
        /\ \/ AckFlush(call) \/ AckLock(call) \/ AckRead(call) \/ AckStop(call)
           \/ AckStore(call) \/ AckPost(call)
    <2>1. PICK c \in Calls : AckFlush(c) \/ AckLock(c) \/ AckRead(c) \/ AckStop(c)
                               \/ AckStore(c) \/ AckPost(c)
      BY DEF AckThread
    <2>2. ack[c] \notin {"none", "over"}
      BY <2>1 DEF AckFlush, AckLock, AckRead, AckStop, AckStore, AckPost, ByAck
    <2>3. UNCHANGED <<armed, notes>>
      BY <2>1 DEF AckFlush, AckLock, AckRead, AckStop, AckStore, AckPost, T!StopStore, tvars
    <2> QED
      BY <1>3, <2>1, <2>2, <2>3
  <1>5. \A c \in Calls : c < call => ack'[c] = "over"
    <2>1. \A c \in Calls : c # call => ack'[c] = ack[c]
      BY <1>2, <1>4 DEF AckFlush, AckLock, AckRead, AckStop, AckStore, AckPost, ByAck, TypeOK
    <2> QED
      BY <1>2, <2>1 DEF OwnInv
  <1>6. CASE AckFlush(call) \/ AckLock(call) \/ AckRead(call) \/ AckStop(call)
    <2>1. /\ ack[call] \notin {"post", "over"} /\ ack'[call] \notin {"post", "over"}
          /\ UNCHANGED <<tx_ack, tx_done_sem>>
      BY <1>2, <1>6 DEF AckFlush, AckLock, AckRead, AckStop, ByAck, TypeOK
    <2>2. status # "RUN" => status' # "RUN"
      BY <1>6 DEF AckFlush, AckLock, AckRead, AckStop, T!StopStore, tvars
    <2> QED
      BY <1>1, <1>4, <1>5, <2>1, <2>2 DEF OwnInv, T!Expired
  <1>7. CASE AckStore(call)
    <2>1. ack[call] = "store" /\ ack'[call] = "post" /\ tx_ack' = 1 /\ UNCHANGED <<tx_done_sem, status>>
      BY <1>2, <1>7 DEF AckStore, ByAck, TypeOK, tvars
    <2> QED
      BY <1>1, <1>4, <1>5, <2>1 DEF OwnInv, T!Expired
  <1>8. CASE AckPost(call)
    <2>1. ack[call] = "post" /\ ack'[call] = "over" /\ UNCHANGED <<tx_ack, status>>
      BY <1>2, <1>8 DEF AckPost, ByAck, TypeOK, tvars
    <2> QED
      BY <1>1, <1>4, <1>5, <2>1 DEF OwnInv, T!Expired
  <1> QED
    BY <1>4, <1>6, <1>7, <1>8

LEMMA OwnTimer ==
  ASSUME TypeOK, Numbered, ThreadInv, OwnInv, Expire \/ NoteThread
  PROVE  OwnInv'
  <1>1. UNCHANGED <<main, kind, call, stale>>
    BY Elsewhere
  <1> SUFFICES ASSUME main \in InCall, call \notin stale PROVE OwnInv'
    BY <1>1 DEF OwnInv
  <1>2. call \in Calls /\ ack' = ack /\ call # 0
    BY DEF Numbered, Calls, Expire, NoteThread, Notified, fake_can_tx_toutus_cb, ByNote
  <1>3. CASE Expire
    <2>1. /\ armed # 0 /\ armed' = 0 /\ notes' = [notes EXCEPT ![armed] = "load"]
          /\ UNCHANGED <<status, tx_ack, tx_done_sem>>
      BY <1>3 DEF Expire, T!Expiry
    <2>2. \A p \in Calls : notes'[p] = notes[p] \/ (p = armed /\ notes'[p] = "load")
      <3>1. armed \in Calls
        <4>1. armed \in 0..MaxTx /\ MaxTx \in Nat
          BY Sizes DEF TypeOK
        <4> QED
          BY <2>1, <4>1 DEF Calls
      <3>2. notes \in [Calls -> {"none", "load", "store", "cb", "post", "over"}]
        BY DEF TypeOK
      <3>3. \A p \in Calls : notes'[p] = IF p = armed THEN "load" ELSE notes[p]
        BY <2>1, <3>1, <3>2
      <3> QED
        BY <3>3
    <2>3. notes[call] # "none" => notes'[call] # "none"
      BY <1>2, <2>2
    <2>4. CASE kind = "tx"
      <3>1. main \in Started => armed = call /\ \A p \in Calls : p # call => notes'[p] \in {"none", "over"}
        BY <2>1, <2>2, <2>4 DEF OwnInv
      <3> QED
        BY <1>1, <1>2, <2>1, <2>3, <2>4, <3>1 DEF OwnInv, T!Expired
    <2>5. CASE kind = "nb"
      BY <1>1, <1>2, <2>1, <2>2, <2>5 DEF OwnInv
    <2> QED
      BY <2>4, <2>5 DEF TypeOK
  <1>4. ASSUME NEW p \in Calls, Notified(p) \/ fake_can_tx_toutus_cb(p) PROVE OwnInv'
    <2>1. /\ notes[p] \notin {"none", "over"} /\ notes'[p] # "none" /\ armed' = armed
          /\ \A q \in Calls : q # p => notes'[q] = notes[q]
      BY <1>4 DEF Notified, T!CbLoad, T!CbStore, fake_can_tx_toutus_cb, TypeOK
    <2>2. CASE kind = "tx" /\ main \in Started
      <3>1. p = call /\ notes'[call] # "none"
        BY <2>1, <2>2 DEF OwnInv
      <3>2. tx_ack' = tx_ack \/ tx_ack' = 0
        BY <1>4 DEF Notified, fake_can_tx_toutus_cb
      <3> QED
        BY <1>1, <1>2, <2>1, <2>2, <3>1, <3>2 DEF OwnInv, T!Expired
    <2>3. CASE kind = "tx" /\ main \notin Started
      <3>1. tx_ack' = tx_ack \/ tx_ack' = 0
        BY <1>4 DEF Notified, fake_can_tx_toutus_cb
      <3> QED
        BY <1>1, <1>2, <2>3, <3>1 DEF OwnInv
    <2>4. CASE kind = "nb"
      <3>1. notes[p] = "load" /\ status # "RUN"
        BY <2>1, <2>4 DEF OwnInv
      <3>2. notes'[p] = "over" /\ UNCHANGED <<status, tx_ack, tx_done_sem>>
        BY <1>4, <3>1 DEF Notified, T!CbLoad, T!CbStore, T!Running, fake_can_tx_toutus_cb, TypeOK
      <3> QED
        BY <1>1, <1>2, <2>1, <2>4, <3>1, <3>2 DEF OwnInv
    <2> QED
      BY <2>2, <2>3, <2>4 DEF TypeOK
  <1> QED
    BY <1>3, <1>4 DEF NoteThread

LEMMA OwnNext ==
  ASSUME TypeOK, Numbered, ThreadInv, OwnInv, [Next]_vars
  PROVE  OwnInv'
  <1>1. CASE Peer \/ UNCHANGED vars
    BY <1>1 DEF Peer, PeerReads, PeerAcknowledges, PeerIgnores, PeerSends, PeerAcknowledged, ByPeer,
       tvars, vars, history, OwnInv, T!Expired
  <1> QED
    BY <1>1, ThreadNext, OwnMain, OwnAck, OwnTimer DEF Next

----------------------------------------------------------------------------
(* What a call returns, and the frames received.                            *)

LEMMA Lasting ==
  ASSUME TypeOK, [Next]_vars
  PROVE  /\ acked \subseteq acked' /\ stale \subseteq stale'
         /\ \A c \in Calls : notes[c] # "none" => notes'[c] # "none"
  <1>1. acked \subseteq acked'
    BY PeerOnly DEF PeerReads, PeerAcknowledges, PeerIgnores
  <1>2. CASE Main
    BY <1>1, <1>2 DEF Main, fake_can_tx, fake_can_tx_nb, Begin, ArmStore, ArmSetTime,
       CreateAckThread, AwaitDone, Return, CallbackReturns, RxTask, RxLock, RxFrame, T!StartStore,
       T!SetTime, tvars, history
  <1>3. CASE AckThread
    BY <1>1, <1>3, Elsewhere DEF AckThread, AckFlush, AckLock, AckRead, AckStop, AckStore, AckPost,
       T!StopStore, tvars
  <1>4. CASE Expire
    BY <1>1, <1>4, Elsewhere DEF Expire, T!Expiry, TypeOK
  <1>5. ASSUME NEW p \in Calls, Notified(p) \/ fake_can_tx_toutus_cb(p)
        PROVE  \A c \in Calls : notes[c] # "none" => notes'[c] # "none"
    BY <1>5 DEF Notified, T!CbLoad, T!CbStore, fake_can_tx_toutus_cb, TypeOK
  <1>6. CASE NoteThread
    BY <1>1, <1>5, <1>6, Elsewhere DEF NoteThread
  <1>7. CASE Peer \/ UNCHANGED vars
    BY <1>1, <1>7, Elsewhere DEF Peer, PeerReads, PeerAcknowledges, PeerIgnores, PeerSends,
       PeerAcknowledged, ByPeer, tvars, vars
  <1> QED
    BY <1>2, <1>3, <1>4, <1>6, <1>7 DEF Next

LEMMA ReturnTrue ==
  ASSUME TypeOK, Numbered, ThreadInv, PlaceInv, TurnInv, ByteInv, OwnInv, Return, call \notin stale
  PROVE  TrueResult(call)' /\ (result'[call] # "failed" => ack[call] \in HasRead)
  <1>1. /\ main = "woken" /\ call \in Calls /\ UNCHANGED <<acked, call>> /\ notes' = notes
        /\ \/ kind = "tx" /\ result'[call] = IF tx_ack = 1 THEN "ok" ELSE "failed"
           \/ kind = "nb" /\ result'[call] = "confirmed"
    BY DEF Return, ByMain, Numbered, InCall, tvars, TypeOK
  <1>2. ack[call] \in HasRead => call \in acked
    BY <1>1, OwnAcknowledge DEF OwnInv, InCall
  <1>3. CASE kind = "tx" /\ tx_ack = 1
    <2>1. ack[call] \in HasRead /\ result'[call] = "ok"
      BY <1>1, <1>3 DEF OwnInv, InCall, HasRead
    <2> QED
      BY <1>1, <1>2, <2>1 DEF TrueResult
  <1>4. CASE kind = "tx" /\ tx_ack # 1
    <2>1. result'[call] = "failed" /\ tx_ack = 0
      BY <1>1, <1>4 DEF TypeOK
    <2>2. T!Expired(call)
      BY <1>1, <1>4, <2>1 DEF OwnInv, InCall, Started
    <2> QED
      BY <1>1, <2>1, <2>2 DEF TrueResult, T!Expired
  <1>5. CASE kind = "nb"
    <2>1. ack[call] \in HasRead /\ result'[call] = "confirmed"
      BY <1>1, <1>5 DEF OwnInv, InCall, HasRead
    <2> QED
      BY <1>1, <1>2, <2>1 DEF TrueResult
  <1> QED
    BY <1>3, <1>4, <1>5 DEF TypeOK

\* Nobody but a call that returns has a result.
LEMMA ResultOnly ==
  ASSUME TypeOK, [Next]_vars
  PROVE  \/ result' = result
         \/ Return /\ \A c \in Calls : c # call => result'[c] = result[c]
  <1>1. CASE Main /\ ~Return
    BY <1>1 DEF Main, fake_can_tx, fake_can_tx_nb, ArmStore, ArmSetTime,
       CreateAckThread, AwaitDone, CallbackReturns, RxTask, RxLock, RxFrame, history
  <1>2. CASE Return
    BY <1>2 DEF Return, TypeOK
  <1> QED
    BY <1>1, <1>2, Elsewhere DEF Next

LEMMA TruthNext ==
  ASSUME TypeOK, Numbered, ThreadInv, PlaceInv, TurnInv, ByteInv, OwnInv, CleanCallsTellTrue,
         [Next]_vars
  PROVE  CleanCallsTellTrue'
  <1> SUFFICES ASSUME NEW c \in Calls, c \notin stale' PROVE TrueResult(c)'
    BY DEF CleanCallsTellTrue
  <1>1. c \notin stale /\ (c \in acked => c \in acked') /\ (notes[c] # "none" => notes'[c] # "none")
    BY Lasting
  <1>2. TrueResult(c)
    BY <1>1 DEF CleanCallsTellTrue
  <1>3. CASE result'[c] = result[c]
    BY <1>1, <1>2, <1>3 DEF TrueResult, T!Expired
  <1>4. CASE Return /\ c = call
    <2>1. TrueResult(call)' /\ call' = call
      BY <1>1, <1>4, ReturnTrue DEF Return
    <2> QED
      BY <1>4, <2>1 DEF TrueResult, T!Expired
  <1> QED
    BY <1>3, <1>4, ResultOnly

\* Main comes back from its calls by Return alone.
LEMMA Outside ==
  ASSUME [Next]_vars, main' \notin InCall
  PROVE  Return \/ (main \notin InCall /\ call' = call)
  <1>1. CASE fake_can_tx \/ fake_can_tx_nb \/ ArmStore \/ ArmSetTime \/ CreateAckThread \/ AwaitDone
    BY <1>1 DEF fake_can_tx, fake_can_tx_nb, ArmStore, ArmSetTime, CreateAckThread, AwaitDone, InCall
  <1>2. CASE CallbackReturns \/ RxTask \/ RxLock \/ RxFrame
    BY <1>2 DEF CallbackReturns, RxTask, RxLock, RxFrame, InCall
  <1>3. CASE AckThread \/ Expire \/ NoteThread \/ Peer \/ UNCHANGED vars
    <2>1. main' = main /\ call' = call
      BY <1>3, Elsewhere
    <2> QED
      BY <2>1
  <1> QED
    BY <1>1, <1>2, <1>3 DEF Next, Main

\* Who has read stays so.
LEMMA ReadLasts ==
  ASSUME TypeOK, Numbered, ThreadInv, [Next]_vars, NEW c \in Calls, ack[c] \in HasRead
  PROVE  ack'[c] \in HasRead
  <1>1. CASE \E d \in Calls : AckRead(d)
    BY <1>1 DEF AckRead, ByAck, HasRead, TypeOK
  <1>2. CASE Readers' = Readers
    BY <1>2 DEF Readers
  <1> QED
    BY <1>1, <1>2, ReadersOnly

LEMMA FreshNext == ASSUME TypeOK, Numbered, FreshInv, [Next]_vars PROVE FreshInv'
  <1>0. call \in Nat /\ \A c \in Calls : c \in Nat
    BY Sizes DEF TypeOK, Calls
  <1>1. CASE fake_can_tx \/ fake_can_tx_nb
    <2>1. call' = call + 1 /\ result' = result
      BY <1>1 DEF fake_can_tx, fake_can_tx_nb, Begin
    <2>2. \A c \in Calls : c > call + 1 \/ c = call + 1 => result[c] = "none"
      <3>1. \A c \in Calls : c > call + 1 \/ c = call + 1 => c > call
        BY <1>0
      <3> QED
        BY <3>1 DEF FreshInv
    <2> QED
      BY <2>1, <2>2 DEF FreshInv
  <1>2. CASE Return
    <2>1. call' = call /\ main' \notin InCall /\ \A c \in Calls : c # call => result'[c] = result[c]
      BY <1>2 DEF Return, InCall, TypeOK
    <2> QED
      BY <1>0, <2>1 DEF FreshInv
  <1>3. CASE /\ ~fake_can_tx /\ ~fake_can_tx_nb /\ ~Return
    <2>1. call' = call /\ result' = result /\ (main' \in InCall => main \in InCall)
      <3>1. CASE ArmStore \/ ArmSetTime \/ CreateAckThread \/ AwaitDone
        BY <3>1 DEF ArmStore, ArmSetTime, CreateAckThread, AwaitDone, InCall, history
      <3>2. CASE CallbackReturns \/ RxTask \/ RxLock \/ RxFrame
        BY <3>2 DEF CallbackReturns, RxTask, RxLock, RxFrame, InCall
      <3> QED
        BY <1>3, <3>1, <3>2, Elsewhere DEF Next, Main
    <2> QED
      BY <2>1 DEF FreshInv
  <1> QED
    BY <1>1, <1>2, <1>3

\* The frame the other process sends finds the stream empty, and nobody else
\* reads it.
LEMMA WholeNext ==
  ASSUME TypeOK, Numbered, FreshInv, ThreadInv, PlaceInv, TurnInv, ByteInv, OwnInv, WholeInv, FramesWhole,
         ThreadInv', TurnInv', [Next]_vars
  PROVE  WholeInv' /\ FramesWhole'
  <1> SUFFICES ASSUME Undisturbed' PROVE WholeInv' /\ FramesWhole'
    BY DEF WholeInv, FramesWhole, Undisturbed
  <1>0. /\ offered \in Nat /\ Len(rcvd) \in Nat /\ FrameSize \in Nat /\ FrameSize >= 2
        /\ call \in Nat /\ \A c \in Calls : c \in Nat
    BY Counted, Sizes DEF TypeOK, Calls
  <1>1. stale = {} /\ stale' = {} /\ \A c \in Calls : result'[c] # "failed"
    BY Lasting DEF Undisturbed
  <1>2. Undisturbed
    <2>1. CASE Return /\ \A c \in Calls : c # call => result'[c] = result[c]
      <3>1. call \in Calls => result[call] # "failed"
        BY <2>1 DEF Return, InCall, FreshInv
      <3> QED
        BY <1>1, <2>1, <3>1 DEF Undisturbed
    <2> QED
      BY <1>1, <2>1, ResultOnly DEF Undisturbed
  <1>3. /\ main \notin InCall => \A c \in Calls : c <= call => ack[c] \in HasRead
        /\ Len(rcvd) <= offered
        /\ offered > Len(rcvd) => rxbuf = Bytes(offered)
        /\ \A n \in 1..Len(rcvd) : rcvd[n] = Bytes(n)
    BY <1>2 DEF WholeInv, FramesWhole, Undisturbed
  <1>4. ASSUME main' \notin InCall, NEW c \in Calls, c <= call' PROVE ack'[c] \in HasRead
    <2>1. CASE Return
      <3>1. call' = call /\ call \in Calls /\ ack' = ack /\ main \in InCall
        BY <2>1 DEF Return, ByMain, Numbered, InCall
      <3>2. ack[call] \in HasRead
        BY <1>1, <2>1, <3>1, ReturnTrue
      <3>3. \A d \in Calls : d < call => ack[d] \in HasRead
        BY <1>1, <3>1 DEF OwnInv, HasRead
      <3>4. c < call \/ c = call
        BY <1>0, <1>4, <3>1
      <3> QED
        BY <3>1, <3>2, <3>3, <3>4
    <2>2. CASE main \notin InCall /\ call' = call
      BY <1>3, <1>4, <2>2, ReadLasts
    <2> QED
      BY <1>4, <2>1, <2>2, Outside
  <1>5. CASE RxFrame
    <2>1. main = "read" /\ Len(rxbuf) >= FrameSize /\ UNCHANGED <<offered, stale, result>>
      BY <1>5 DEF RxFrame, ByMain
    <2>2. Len(rxbuf) + FrameSize * Len(rcvd) <= FrameSize * offered
      BY <1>3, <2>1, AllRead DEF InCall
    <2>3. offered > Len(rcvd)
      <3>1. /\ FrameSize * offered \in Nat /\ FrameSize * Len(rcvd) \in Nat /\ Len(rxbuf) \in Nat
            /\ (offered <= Len(rcvd) => FrameSize * offered <= FrameSize * Len(rcvd))
        BY <1>0, FrameBytes, Counted
      <3>2. ~(FrameSize * offered <= FrameSize * Len(rcvd))
        BY <1>0, <2>1, <2>2, <3>1
      <3> QED
        BY <1>0, <3>1, <3>2
    <2>4. offered = Len(rcvd) + 1 /\ rxbuf = Bytes(offered)
      BY <1>3, <2>3 DEF TurnInv
    <2>5. offered \in 1..MaxRx
      BY <1>0, <2>3, Sizes DEF TypeOK
    <2>6. SubSeq(rxbuf, 1, FrameSize) = Bytes(offered)
      BY <2>4, <2>5, BytesTyped, SubSeqFull
    <2>7. rcvd' = Append(rcvd, Bytes(offered)) /\ rcvd \in Seq(Seq(Token)) /\ Bytes(offered) \in Seq(Token)
      BY <1>5, <2>5, <2>6, BytesTyped DEF RxFrame, TypeOK
    <2>8. Len(rcvd') = Len(rcvd) + 1 /\ \A n \in 1..Len(rcvd') : rcvd'[n] = Bytes(n)
      <3>1. /\ Len(rcvd') = Len(rcvd) + 1 /\ rcvd'[Len(rcvd) + 1] = Bytes(offered)
            /\ \A n \in 1..Len(rcvd) : rcvd'[n] = rcvd[n]
        BY <2>7, AppendProperties
      <3>2. \A n \in 1..Len(rcvd) + 1 : n \in 1..Len(rcvd) \/ n = Len(rcvd) + 1
        BY <1>0
      <3> QED
        BY <1>3, <2>4, <3>1, <3>2
    <2> QED
      BY <1>0, <1>4, <2>1, <2>4, <2>8 DEF WholeInv, FramesWhole
  <1>6. CASE PeerSends
    <2>1. /\ ~sending /\ main \notin InCall /\ offered' = offered + 1 /\ rxbuf' = rxbuf \o Bytes(offered + 1)
          /\ rcvd' = rcvd
      BY <1>6 DEF PeerSends, ByPeer, InCall
    <2>2. offered <= Len(rcvd)
      BY <1>0, <2>1 DEF TurnInv
    <2>3. rxbuf \in Seq(Token) /\ Len(rxbuf) = 0
      BY <1>3, <2>1, <2>2, AllRead DEF TypeOK
    <2>4. offered + 1 \in 1..MaxRx
      BY <1>6, Sizes DEF PeerSends, TypeOK
    <2>5. rxbuf' = Bytes(offered + 1)
      BY <2>1, <2>3, <2>4, BytesTyped, EmptySeq, ConcatEmptySeq
    <2> QED
      BY <1>0, <1>3, <1>4, <2>1, <2>5 DEF WholeInv, FramesWhole
  <1>7. CASE PeerAcknowledges \/ \E c \in Calls : AckRead(c)
    <2>1. UNCHANGED <<offered, rcvd>>
      BY <1>7 DEF PeerAcknowledges, ByPeer, AckRead, ByAck
    <2>2. ~(offered > Len(rcvd))
      <3>1. SUFFICES ASSUME offered > Len(rcvd) PROVE FALSE
        OBVIOUS
      <3>2. main \notin InCall /\ sending
        BY <3>1 DEF TurnInv, InCall
      <3>3. \A c \in Calls : c <= call => ack[c] \in HasRead
        BY <1>3, <3>2
      <3>4. CASE PeerAcknowledges
        BY <3>2, <3>4 DEF PeerAcknowledges, TurnInv
      <3>5. ASSUME NEW c \in Calls, AckRead(c) PROVE FALSE
        <4>1. ack[c] = "read"
          BY <3>5 DEF AckRead, ByAck
        <4>2. ~(c > call) /\ ~(c <= call)
          BY <3>3, <4>1 DEF ThreadInv, HasRead
        <4> QED
          BY <1>0, <4>2
      <3> QED
        BY <1>7, <3>4, <3>5
    <2> QED
      BY <1>3, <1>4, <2>1, <2>2 DEF WholeInv, FramesWhole
  <1>8. CASE UNCHANGED <<rxbuf, rcvd, acked, offered>>
    BY <1>3, <1>4, <1>8 DEF WholeInv, FramesWhole
  <1> QED
    BY <1>5, <1>6, <1>7, <1>8, BytesOnly

----------------------------------------------------------------------------
(* The invariant and what follows.                                          *)

LEMMA DriverInit == Init => DInv
  <1> SUFFICES ASSUME Init PROVE DInv
    OBVIOUS
  <1>1. TypeOK
    BY TypeInit
  <1>2. /\ main = "idle" /\ call = 0 /\ Line = <<>> /\ peer = 0 /\ ~sending /\ offered = 0
        /\ acked = {} /\ rcvd = <<>> /\ rxbuf = <<>>
        /\ \A c \in Calls : ack[c] = "none" /\ result[c] = "none"
    BY ConcatEmptySeq, EmptySeq DEF Init, Line
  <1>3. \A c \in Calls : c \in Nat /\ c > 0
    BY DEF Calls
  <1>4. Len(<<>>) = 0 /\ 1..0 = {}
    OBVIOUS
  <1>5. Numbered /\ FreshInv /\ ThreadInv /\ OwnInv
    BY <1>2, <1>3 DEF Numbered, FreshInv, ThreadInv, OwnInv, InCall, Calls
  <1>6. PlaceInv /\ TurnInv
    BY <1>2, <1>4 DEF PlaceInv, TurnInv
  <1>7. ByteInv
    <2>1. Readers = {}
      BY <1>2 DEF Readers, HasRead
    <2> QED
      BY <1>2, <1>4, <2>1, FS_EmptySet, Sizes DEF ByteInv
  <1>8. WholeInv /\ FramesWhole
    BY <1>2, <1>3, <1>4 DEF WholeInv, FramesWhole
  <1>9. CleanCallsTellTrue
    BY <1>2 DEF CleanCallsTellTrue, TrueResult
  <1> QED
    BY <1>1, <1>5, <1>6, <1>7, <1>8, <1>9 DEF DInv

LEMMA DriverNext == ASSUME DInv, [Next]_vars PROVE DInv'
  <1>1. TypeOK' /\ Numbered' /\ ThreadInv' /\ PlaceInv' /\ TurnInv'
    BY TypeNext, NumberedNext, ThreadNext, PlaceNext, TurnNext DEF DInv
  <1>2. ByteInv' /\ FreshInv' /\ OwnInv'
    BY ByteNext, FreshNext, OwnNext DEF DInv
  <1>3. WholeInv' /\ FramesWhole' /\ CleanCallsTellTrue'
    BY <1>1, WholeNext, TruthNext DEF DInv
  <1> QED
    BY <1>1, <1>2, <1>3 DEF DInv

LEMMA DriverInductive == Spec => []DInv
  <1>1. Init => DInv
    BY DriverInit
  <1>2. DInv /\ [Next]_vars => DInv'
    BY DriverNext
  <1> QED
    BY <1>1, <1>2, PTL DEF Spec

\* A call that finds nothing left over by an earlier one returns 0, or confirms,
\* only for its own acknowledged frame, and -1 only for its own timer: although
\* the semaphore, tx_ack and the timer are shared by all calls, and the
\* acknowledge thread takes whatever byte comes.
THEOREM Truthful == Spec => []CleanCallsTellTrue
  <1>1. DInv => CleanCallsTellTrue
    BY DEF DInv
  <1> QED
    BY <1>1, DriverInductive, PTL

\* Until a call times out or finds something left over, each frame handed to
\* fake_canrx_cb is one that the other process sent, whole and in order, although
\* the acknowledge threads read the same stream.
THEOREM Undivided == Spec => []FramesWhole
  <1>1. DInv => FramesWhole
    BY DEF DInv
  <1> QED
    BY <1>1, DriverInductive, PTL
=============================================================================
