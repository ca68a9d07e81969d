------------------------- MODULE CanTpFrames_proofs -------------------------
(* Lemmas about the frames and counters of CanTpFrames, for both roles.    *)
EXTENDS CanTpFrames, TLAPS

\* The C types are ranges of naturals.
LEMMA TypeRanges ==
  /\ \A x \in UInt8  : x \in Nat /\ x <= 255
  /\ \A x \in UInt16 : x \in Nat
  <1>1. \A x \in UInt8 : x \in Nat /\ x <= 255
    BY DEF UInt8
  <1>2. \A x \in UInt16 : x \in Nat
    BY DEF UInt16
  <1> QED
    BY <1>1, <1>2

\* The constants the code stores in its counters.
LEMMA StoredConstants ==
  /\ 0 \in SeqNum /\ 1 \in SeqNum /\ 0 \in UInt8 /\ 0 \in UInt16
  /\ CANTP_FF_NUM_DATA_BYTES \in UInt16
  BY DEF SeqNum, UInt8, UInt16, CANTP_FF_NUM_DATA_BYTES

\* An assignment to an uint8_t or uint16_t field leaves a value of its type.
LEMMA U8Type == \A x \in Int : U8(x) \in UInt8
  BY DEF U8, UInt8

LEMMA U16Type == \A x \in Int : U16(x) \in UInt16
  BY DEF U16, UInt16

\* Below the largest value an uint8_t counts on without wrapping, and what
\* fits into an uint16_t is kept by it.
LEMMA U8Below == \A x \in UInt8 : x < 255 => U8(x + 1) = x + 1
  BY DEF U8, UInt8

LEMMA U16Below == \A x \in Nat, y \in UInt16 : x <= y => U16(x) = x
  <1>1. ASSUME NEW y \in UInt16 PROVE y \in Nat /\ y < 65536
    BY DEF UInt16
  <1>2. \A x \in Nat : x < 65536 => x % 65536 = x
    OBVIOUS
  <1> QED
    BY <1>1, <1>2 DEF U16

LEMMA U16Small == \A x \in Nat : x < 4096 => x \in UInt16
  <1>1. \A x \in Nat : x < 4096 => U16(x) = x
    BY DEF U16
  <1> QED
    BY <1>1, U16Type

\* The sequence number stays within its four bits.
LEMMA NextSnType == \A s \in SeqNum : NextSn(s) \in SeqNum
  BY DEF NextSn, SeqNum

\* The size of the next Consecutive Frame: an uint8_t, and for a positive
\* remainder between one byte and that remainder.
LEMMA NToSendType == \A r \in Int : NToSend(r) \in UInt8
  BY U8Type DEF NToSend, CANTP_CF_NUM_DATA_BYTES, UInt8

LEMMA NToSendRange ==
  \A r \in Nat : 0 < r => 0 < NToSend(r) /\ NToSend(r) <= r
  BY DEF NToSend, CANTP_CF_NUM_DATA_BYTES, U8

\* An STmin byte that is not refused decodes to a time.
LEMMA StDecodeType == \A st \in UInt8 : StValid(st) => StDecode(st) \in Nat
  BY DEF StDecode, StValid, UInt8

\* The three constructors build frames.
LEMMA FrameTypes ==
  ASSUME NEW m \in Nat, NEW l \in UInt16, NEW s \in SeqNum, NEW o \in UInt16,
         NEW n \in UInt8
  PROVE  /\ SingleFrame(m, l) \in Frame
         /\ FirstFrame(m, l) \in Frame
         /\ ConsecutiveFrame(m, s, o, n) \in Frame
  <1>1. o \in Nat /\ 0 \in Nat /\ 0 \in SeqNum
    BY TypeRanges, StoredConstants
  <1>2. FFLen(l) \in UInt16
    <2>1. l \in Nat
      BY TypeRanges
    <2>2. FFLen(l) \in Nat /\ FFLen(l) < 4096
      BY <2>1 DEF FFLen
    <2> QED
      BY <2>2, U16Small
  <1>3. n \in UInt16
    BY TypeRanges, U16Small
  <1>4. SingleFrame(m, l) \in Frame
    BY <1>1 DEF SingleFrame, Frame
  <1>5. FirstFrame(m, l) \in Frame
    BY <1>1, <1>2 DEF FirstFrame, Frame
  <1>6. ConsecutiveFrame(m, s, o, n) \in Frame
    BY <1>1, <1>3 DEF ConsecutiveFrame, Frame
  <1> QED
    BY <1>4, <1>5, <1>6
=============================================================================
