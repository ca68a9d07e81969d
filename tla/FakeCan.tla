------------------------------ MODULE FakeCan ------------------------------
(***************************************************************************)
(* fake_can_linux.c: the CAN driver of the test program, as one of its two *)
(* processes runs it.  A frame is written to one pipe; the other process   *)
(* answers with an acknowledge byte on the other pipe, where its own       *)
(* frames come too.                                                        *)
(*   main   runs fake_can_rx_task, or sends; a callback it makes may send  *)
(*   ack    one thread per frame sent, reads one byte from rx_stream       *)
(*   note   the notification thread of the transmit timeout (CbTimer)      *)
(* main waits for either of the others on tx_done_sem and then looks at    *)
(* tx_ack.  Streams are buffered, and a reader holds the stream's lock     *)
(* until it has all it asked for.                                          *)
(* (fflush(0) writes first, then waits for the lock of a stream that is    *)
(* being read.  main meets this only once an acknowledge thread is left    *)
(* over from an earlier call; here it may go on.)                          *)
(*                                                                         *)
(* The other process is the environment.  It runs the same driver under    *)
(* the same protocol, in which the two take turns: it sends no frame while *)
(* this process is transmitting, and the other way round.                  *)
(***************************************************************************)
EXTENDS Integers, Sequences, FiniteSets

CONSTANTS
  MaxTx,       \* bound on the frames this process sends
  MaxRx,       \* bound on the frames it is sent
  MaxIgnored,  \* bound on its frames that are never acknowledged
  FrameSize    \* tokens a frame takes in a stream (14 bytes in the code)

ASSUME SizeAssumption == {MaxTx, MaxRx, MaxIgnored} \subseteq Nat /\ FrameSize \in Nat \ {0, 1}

Calls == 1..MaxTx

VARIABLES
  main, kind, call,       \* the main thread, which function it is in, which call
  tx_ack, tx_done_sem,    \* what the threads share
  ack,                    \* the acknowledge threads, one per call
  txbuf, toPeer,          \* tx_stream: not yet flushed, in the pipe
  rxbuf,                  \* rx_stream: what has arrived
  peer, sending, offered, \* the other process: the call whose frame it has read,
                          \* whether it is sending, the frames it has sent
  status, armed, notes,   \* tx_timer_us
  acked, ignored, result, rcvd, stale   \* history

T == INSTANCE CbTimer WITH Periods <- Calls

tvars   == <<status, armed, notes>>
streams == <<txbuf, toPeer, rxbuf>>
history == <<acked, ignored, result, rcvd, stale>>
vars == <<main, kind, call, tx_ack, tx_done_sem, ack, streams,
          peer, sending, offered, tvars, history>>

\* Bytes on a stream: the acknowledge, or the i-th of the other's frame n.
Ack        == [f |-> 0, i |-> 0]
Bytes(n)   == [i \in 1..FrameSize |-> [f |-> n, i |-> i]]
Token      == {Ack} \cup [f : 1..MaxRx, i : 1..FrameSize]

TypeOK ==
  /\ main \in {"idle", "rx", "read", "callback", "arm", "settime", "create", "wait", "woken"}
  /\ kind \in {"tx", "nb"} /\ call \in 0..MaxTx
  /\ tx_ack \in {0, 1} /\ tx_done_sem \in Nat
  /\ ack \in [Calls -> {"none", "flush", "lock", "read", "load", "stop", "store", "post", "over"}]
  /\ txbuf \in Seq(0..MaxTx) /\ toPeer \in Seq(0..MaxTx) /\ rxbuf \in Seq(Token)
  /\ peer \in 0..MaxTx /\ sending \in BOOLEAN /\ offered \in 0..MaxRx
  /\ status \in {"none", "RUN", "STOP"} /\ armed \in 0..MaxTx
  /\ notes \in [Calls -> {"none", "load", "store", "cb", "post", "over"}]
  /\ {acked, ignored, stale} \subseteq SUBSET Calls
  /\ result \in [Calls -> {"none", "ok", "failed", "confirmed"}]
  /\ rcvd \in Seq(Seq(Token))

Init ==
  /\ main = "idle" /\ kind = "tx" /\ call = 0
  /\ tx_ack = 0 /\ tx_done_sem = 0
  /\ ack = [c \in Calls |-> "none"]
  /\ txbuf = <<>> /\ toPeer = <<>> /\ rxbuf = <<>>
  /\ peer = 0 /\ sending = FALSE /\ offered = 0
  /\ T!TimerInit
  /\ acked = {} /\ ignored = {} /\ stale = {} /\ result = [c \in Calls |-> "none"] /\ rcvd = <<>>

----------------------------------------------------------------------------
(* main: fake_can_tx and fake_can_tx_nb.                                    *)

ByMain == UNCHANGED <<ack, peer, sending, offered, acked, ignored>>

\* What an earlier call has left behind that can still touch this one.
LeftOver ==
  \/ tx_done_sem > 0 \/ T!Running \/ T!Notifying
  \/ \E c \in Calls : ack[c] \notin {"none", "over"}

\* The session layer's thread, or a callback of main, sends when the other
\* process is not.
Begin(k) ==
  /\ main \in {"idle", "callback"} /\ call < MaxTx
  /\ ~sending \/ main = "callback"
  /\ kind' = k /\ call' = call + 1
  /\ txbuf' = Append(txbuf, call + 1)
  /\ stale' = IF LeftOver THEN stale \cup {call + 1} ELSE stale

fake_can_tx ==
  /\ Begin("tx")
  /\ tx_ack' = 0 /\ main' = "arm"
  /\ ByMain
  /\ UNCHANGED <<tx_done_sem, toPeer, rxbuf, tvars, result, rcvd>>

\* The handler of a transmit confirmation may send the next frame, so the call
\* nests; nothing is left to do after it.
fake_can_tx_nb ==
  /\ Begin("nb")
  /\ main' = "create"
  /\ ByMain
  /\ UNCHANGED <<tx_ack, tx_done_sem, toPeer, rxbuf, tvars, result, rcvd>>

\* cbtimer_start.  The POSIX timer of an earlier period may expire up to its
\* second step, and finds this one running after its first.
ArmStore ==
  /\ main = "arm" /\ main' = "settime"
  /\ T!StartStore
  /\ ByMain
  /\ UNCHANGED <<kind, call, tx_ack, tx_done_sem, streams, result, rcvd, stale>>

ArmSetTime ==
  /\ main = "settime" /\ main' = "create"
  /\ T!SetTime(call)
  /\ stale' = IF tx_done_sem > 0 \/ T!Notifying THEN stale \cup {call} ELSE stale
  /\ ByMain
  /\ UNCHANGED <<kind, call, tx_ack, tx_done_sem, streams, result, rcvd>>

\* pthread_create.
CreateAckThread ==
  /\ main = "create" /\ main' = "wait"
  /\ ack' = [ack EXCEPT ![call] = "flush"]
  /\ UNCHANGED <<kind, call, tx_ack, tx_done_sem, streams, peer, sending, offered,
                 tvars, history>>

AwaitDone_NoWait ==                   \* fault: main is not blocked
  /\ main = "wait" /\ main' = "woken"
  /\ tx_done_sem' = tx_done_sem - 1
  /\ ByMain
  /\ UNCHANGED <<kind, call, tx_ack, streams, tvars, result, rcvd, stale>>

\* sem_wait.
AwaitDone ==
  /\ main = "wait" /\ main' = "woken"
  /\ tx_done_sem > 0 /\ tx_done_sem' = tx_done_sem - 1
  /\ ByMain
  /\ UNCHANGED <<kind, call, tx_ack, streams, tvars, result, rcvd, stale>>

\* fake_can_tx returns what tx_ack says; fake_can_tx_nb confirms whatever it
\* says, and the confirm callback may send again.
Return ==
  /\ main = "woken"
  /\ \/ /\ kind = "tx" /\ main' = "idle"
        /\ result' = [result EXCEPT ![call] = IF tx_ack = 1 THEN "ok" ELSE "failed"]
     \/ /\ kind = "nb" /\ main' = "callback"
        /\ result' = [result EXCEPT ![call] = "confirmed"]
  /\ ByMain
  /\ UNCHANGED <<kind, call, tx_ack, tx_done_sem, streams, tvars, rcvd, stale>>

CallbackReturns ==
  /\ main = "callback" /\ main' = "idle"
  /\ ByMain
  /\ UNCHANGED <<kind, call, tx_ack, tx_done_sem, streams, tvars, result, rcvd, stale>>

----------------------------------------------------------------------------
(* main: fake_can_rx_task.  fread takes the stream's lock, and returns when *)
(* a frame's bytes are there (pipes do not end while both processes live).  *)

RxTask ==
  /\ main = "idle" /\ main' = "rx"
  /\ ByMain
  /\ UNCHANGED <<kind, call, tx_ack, tx_done_sem, streams, tvars, result, rcvd, stale>>

Locked == main = "read" \/ \E c \in Calls : ack[c] = "read"

RxLock ==
  /\ main = "rx" /\ ~Locked /\ main' = "read"
  /\ ByMain
  /\ UNCHANGED <<kind, call, tx_ack, tx_done_sem, streams, tvars, result, rcvd, stale>>

\* The acknowledge is written and flushed, then the frame is handed on.
RxFrame ==
  /\ main = "read" /\ Len(rxbuf) >= FrameSize
  /\ rxbuf' = SubSeq(rxbuf, FrameSize + 1, Len(rxbuf))
  /\ rcvd' = Append(rcvd, SubSeq(rxbuf, 1, FrameSize))
  /\ toPeer' = toPeer \o txbuf \o <<0>> /\ txbuf' = <<>>
  /\ main' = "callback"
  /\ ByMain
  /\ UNCHANGED <<kind, call, tx_ack, tx_done_sem, tvars, result, stale>>

----------------------------------------------------------------------------
(* ack: fake_can_tx_ack_thread.                                             *)

ByAck(c, from, to) ==
  /\ ack[c] = from /\ ack' = [ack EXCEPT ![c] = to]
  /\ UNCHANGED <<main, kind, call, peer, sending, offered, acked, ignored, result, rcvd, stale>>

AckFlush_Missing(c) ==                \* fault: the frame stays in the buffer
  /\ ByAck(c, "flush", "lock")
  /\ UNCHANGED <<tx_ack, tx_done_sem, streams, tvars>>

\* fflush(0) writes out the frame that main left in the buffer.
AckFlush(c) ==
  /\ ByAck(c, "flush", "lock")
  /\ toPeer' = toPeer \o txbuf /\ txbuf' = <<>>
  /\ UNCHANGED <<tx_ack, tx_done_sem, rxbuf, tvars>>

AckLock(c) ==
  /\ ByAck(c, "lock", "read")
  /\ ~Locked
  /\ UNCHANGED <<tx_ack, tx_done_sem, streams, tvars>>

\* Whatever the byte is.
AckRead(c) ==
  /\ ByAck(c, "read", "load")
  /\ rxbuf # <<>> /\ rxbuf' = Tail(rxbuf)
  /\ UNCHANGED <<tx_ack, tx_done_sem, txbuf, toPeer, tvars>>

\* cbtimer_stop.
AckStop(c) ==
  /\ \/ ByAck(c, "load", IF T!Running THEN "stop" ELSE "store") /\ UNCHANGED tvars
     \/ ByAck(c, "stop", "store") /\ T!StopStore
  /\ UNCHANGED <<tx_ack, tx_done_sem, streams>>

AckStore(c) ==
  /\ ByAck(c, "store", "post")
  /\ tx_ack' = 1
  /\ UNCHANGED <<tx_done_sem, streams, tvars>>

AckPost(c) ==
  /\ ByAck(c, "post", "over")
  /\ tx_done_sem' = tx_done_sem + 1
  /\ UNCHANGED <<tx_ack, streams, tvars>>

AckThread ==
  \E c \in Calls : AckFlush(c) \/ AckLock(c) \/ AckRead(c) \/ AckStop(c)
                     \/ AckStore(c) \/ AckPost(c)

----------------------------------------------------------------------------
(* note: cbtimer_cb and fake_can_tx_toutus_cb.                              *)

ByNote == UNCHANGED <<main, kind, call, ack, streams, peer, sending, offered,
                      history>>

Expire == T!Expiry /\ ByNote /\ UNCHANGED <<tx_ack, tx_done_sem>>

Notified(p) ==
  /\ T!CbLoad(p) \/ T!CbStore(p)
  /\ ByNote /\ UNCHANGED <<tx_ack, tx_done_sem>>

Timeout_NoPost(p) ==                  \* fault: nobody is woken
  /\ notes[p] = "cb" /\ notes' = [notes EXCEPT ![p] = "over"]
  /\ tx_ack' = 0
  /\ ByNote /\ UNCHANGED <<tx_done_sem, status, armed>>

\* fake_can_tx_toutus_cb stores, then posts.
fake_can_tx_toutus_cb(p) ==
  /\ \/ /\ notes[p] = "cb" /\ notes' = [notes EXCEPT ![p] = "post"]
        /\ tx_ack' = 0 /\ UNCHANGED tx_done_sem
     \/ /\ notes[p] = "post" /\ notes' = [notes EXCEPT ![p] = "over"]
        /\ tx_done_sem' = tx_done_sem + 1 /\ UNCHANGED tx_ack
  /\ ByNote /\ UNCHANGED <<status, armed>>

NoteThread == \E p \in Calls : Notified(p) \/ fake_can_tx_toutus_cb(p)

----------------------------------------------------------------------------
(* The other process.                                                       *)

ByPeer == UNCHANGED <<main, kind, call, tx_ack, tx_done_sem, ack, txbuf,
                      tvars, result, rcvd, stale>>

\* It reads a frame and, the transmission delay later, acknowledges it.
PeerReads ==
  /\ peer = 0 /\ ~sending
  /\ toPeer # <<>> /\ Head(toPeer) # 0
  /\ peer' = Head(toPeer) /\ toPeer' = Tail(toPeer)
  /\ ByPeer /\ UNCHANGED <<rxbuf, sending, offered, acked, ignored>>

PeerAcknowledges ==
  /\ peer # 0 /\ peer' = 0
  /\ rxbuf' = Append(rxbuf, Ack) /\ acked' = acked \cup {peer}
  /\ ByPeer /\ UNCHANGED <<toPeer, sending, offered, ignored>>

PeerIgnores ==
  /\ peer # 0 /\ peer' = 0
  /\ Cardinality(ignored) < MaxIgnored /\ ignored' = ignored \cup {peer}
  /\ ByPeer /\ UNCHANGED <<rxbuf, toPeer, sending, offered, acked>>

\* It sends a frame in its turn, and awaits the acknowledge.
PeerSends ==
  /\ peer = 0 /\ ~sending /\ toPeer = <<>> /\ txbuf = <<>>
  /\ main \in {"idle", "rx", "read"} /\ offered < MaxRx
  /\ offered' = offered + 1 /\ rxbuf' = rxbuf \o Bytes(offered + 1)
  /\ sending' = TRUE
  /\ ByPeer /\ UNCHANGED <<peer, toPeer, acked, ignored>>

PeerAcknowledged ==
  /\ sending /\ sending' = FALSE
  /\ toPeer # <<>> /\ Head(toPeer) = 0
  /\ toPeer' = Tail(toPeer)
  /\ ByPeer /\ UNCHANGED <<peer, rxbuf, offered, acked, ignored>>

Peer == PeerReads \/ PeerAcknowledges \/ PeerIgnores \/ PeerSends \/ PeerAcknowledged

----------------------------------------------------------------------------

Main ==
  \/ fake_can_tx \/ fake_can_tx_nb \/ ArmStore \/ ArmSetTime \/ CreateAckThread \/ AwaitDone \/ Return
  \/ CallbackReturns \/ RxTask \/ RxLock \/ RxFrame

Next == Main \/ AckThread \/ Expire \/ NoteThread \/ Peer

Spec == Init /\ [][Next]_vars

\* Threads run and an armed timer expires.  The other process is the same
\* program: it reads what it is sent and, unless it has failed, acknowledges it.
FairSpec ==
  /\ Spec
  /\ WF_vars(ArmStore \/ ArmSetTime \/ CreateAckThread \/ AwaitDone \/ Return)
  /\ WF_vars(Expire) /\ WF_vars(NoteThread)
  /\ \A c \in Calls :
       WF_vars(AckFlush(c) \/ AckLock(c) \/ AckRead(c) \/ AckStop(c)
                 \/ AckStore(c) \/ AckPost(c))
  /\ WF_vars(PeerReads \/ PeerAcknowledges \/ PeerIgnores \/ PeerAcknowledged)

----------------------------------------------------------------------------
(* Properties.                                                              *)

\* What a call tells its caller is true: fake_can_tx returns 0 when its frame
\* was acknowledged and -1 when its own timer expired; fake_can_tx_nb confirms
\* a frame that was acknowledged.
TrueResult(c) ==
  /\ result[c] \in {"ok", "confirmed"} => c \in acked
  /\ result[c] = "failed" => T!Expired(c)

\* As long as no earlier call has left a thread, a token or a running timer
\* behind.
CleanCallsTellTrue == \A c \in Calls \ stale : TrueResult(c)

\* As long as no call has timed out or found anything left behind, the two
\* readers of rx_stream do not take each other's bytes: each frame handed to
\* fake_canrx_cb is one the other process sent, whole and in order.
FramesWhole ==
  stale = {} /\ (\A c \in Calls : result[c] # "failed")
    => \A n \in 1..Len(rcvd) : rcvd[n] = Bytes(n)

\* fake_can_tx always returns: its timer or its acknowledge wakes it, whatever
\* earlier calls left behind.
TxReturns == main = "wait" /\ kind = "tx" ~> main # "wait"

\* fake_can_tx_nb has no timer: it returns as long as the other process has
\* acknowledged every frame it read, and no call so far was stale.  Otherwise it
\* may wait for ever.
NbReturns ==
  main = "wait" /\ kind = "nb" /\ stale = {} ~> main # "wait" \/ ignored # {}

\* can-tp.h, cantp_can_tx: it "blocks untill the CAN Frame is sent", or for
\* tout_us.  So every call returns for its own frame or its own timeout.
CallsTellTrue == \A c \in Calls : TrueResult(c)
=============================================================================
