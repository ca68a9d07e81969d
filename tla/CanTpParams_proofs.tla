------------------------- MODULE CanTpParams_proofs -------------------------
(* Theorems about the Receiver's parameters, for every request.            *)
EXTENDS CanTpParams, CanTpFrames_proofs

\* The byte sent for a separation time and what it says, by unit.
LEMMA STminBytes ==
  ASSUME NEW t \in Nat, t <= 127000, t = 0 \/ t >= 100
  PROVE  /\ Coded(t, 240) \in UInt8
         /\ t <= 900 \/ t >= 1000 =>
              /\ StValid(Coded(t, 240))
              /\ StDecode(Coded(t, 240)) <= t
              /\ t < StDecode(Coded(t, 240)) + (IF t < 1000 THEN 100 ELSE 1000)
  <1> DEFINE c == Coded(t, 240)
  <1>1. CASE t = 0 \/ (t > 900 /\ t < 1000)
    BY <1>1 DEF Coded, UInt8, StValid, StDecode
  <1>2. CASE 100 <= t /\ t <= 900
    <2>1. c = U8(t \div 100 + 240)
      BY <1>2 DEF Coded
    <2>2. PICK d \in Nat : /\ d = t \div 100 /\ 1 <= d /\ d <= 9
                          /\ 100 * d <= t /\ t < 100 * d + 100
      BY <1>2
    <2>3. c = d + 240
      BY <2>1, <2>2 DEF U8
    <2> QED
      BY <1>2, <2>2, <2>3 DEF UInt8, StValid, StDecode
  <1>3. CASE t >= 1000
    <2>1. c = t \div 1000
      BY <1>3 DEF Coded
    <2>2. PICK d \in Nat : /\ d = t \div 1000 /\ 1 <= d /\ d <= 127
                          /\ 1000 * d <= t /\ t < 1000 * d + 1000
      BY <1>3
    <2> QED
      BY <1>3, <2>1, <2>2 DEF UInt8, StValid, StDecode
  <1> QED
    BY <1>1, <1>2, <1>3

\* An accepted separation time that needs no FC.WAIT frames, outside the gap
\* from 901 to 999 microseconds, reaches the Sender short by less than the unit
\* in which it is told (cantp_rcvr_params_init, sndr_rx_flow_control_frame).
THEOREM PaceTold ==
  ASSUME NEW q \in Request, Accepted(q), ~NeedsWait(q),
         ~(q.st_min_us > 900 /\ q.st_min_us < 1000)
  PROVE  /\ StValid(STminByte(q))
         /\ StDecode(STminByte(q)) <= q.st_min_us
         /\ q.st_min_us < StDecode(STminByte(q))
                            + (IF q.st_min_us < 1000 THEN 100 ELSE 1000)
  <1>1. q.st_min_us \in Nat /\ q.st_min_us <= 127000
    BY DEF Request, NeedsWait
  <1>2. q.st_min_us = 0 \/ q.st_min_us >= 100
    BY DEF Accepted
  <1>3. q.st_min_us <= 900 \/ q.st_min_us >= 1000
    BY <1>1
  <1> QED
    BY <1>1, <1>2, <1>3, STminBytes DEF STminByte

\* What an accepted request leaves in ctx->params are values of its types:
\* the assumption the Receiver model makes of them.
THEOREM ParamsTyped ==
  ASSUME NEW q \in Request, Accepted(q)
  PROVE  cantp_rcvr_params_init(q) \in [block_size : UInt8, st_min : UInt8, wft_num : UInt8]
  <1>1. q.st_min_us \in Nat /\ q.wft_tim_us \in Nat /\ q.block_size \in UInt8
    BY DEF Request
  <1>2. CASE NeedsWait(q)
    <2>1. q.wft_tim_us > 0
      BY <1>1, <1>2 DEF Accepted
    <2>2. q.st_min_us \div q.wft_tim_us \in Int
      BY <1>1, <2>1
    <2>3. WftNum(q) \in UInt8
      BY <2>2, U8Type DEF WftNum
    <2> QED
      BY <1>2, <2>3 DEF cantp_rcvr_params_init, UInt8
  <1>3. CASE ~NeedsWait(q)
    <2>1. q.st_min_us <= 127000
      BY <1>1, <1>3 DEF NeedsWait
    <2>2. STminByte(q) \in UInt8
      BY <1>1, <2>1, STminBytes DEF Accepted, STminByte
    <2> QED
      BY <1>1, <1>3, <2>2 DEF cantp_rcvr_params_init, UInt8
  <1> QED
    BY <1>2, <1>3

\* A longer one is made of at most wft_max FC.WAIT frames, as long as their number
\* fits into wft_num: as many as go into it, so they fall short by less than one
\* interval, which is all of it when the interval is longer (WftNum).
THEOREM PaceWaited ==
  ASSUME NEW q \in Request, Accepted(q), NeedsWait(q),
         q.st_min_us \div q.wft_tim_us < 256
  PROVE  /\ WftNum(q) * q.wft_tim_us <= q.st_min_us
         /\ q.st_min_us < WftNum(q) * q.wft_tim_us + q.wft_tim_us
         /\ WftNum(q) <= q.wft_max
  <1> DEFINE n == q.st_min_us \div q.wft_tim_us
  <1>1. q.st_min_us \in Nat /\ q.wft_tim_us \in Nat /\ q.wft_tim_us > 0
    BY DEF Request, Accepted
  <1>2. n \in Nat /\ n * q.wft_tim_us <= q.st_min_us
                  /\ q.st_min_us < n * q.wft_tim_us + q.wft_tim_us
    BY <1>1
  <1>3. WftNum(q) = n
    BY <1>2 DEF WftNum, U8
  <1> QED
    BY <1>2, <1>3 DEF Accepted
=============================================================================
