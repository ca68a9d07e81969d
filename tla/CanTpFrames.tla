---------------------------- MODULE CanTpFrames ----------------------------
(***************************************************************************)
(* What can-tp.h fixes for both roles: the sizes of the three data-carrying *)
(* frames, the sequence-number and length fields, the STmin byte, and the  *)
(* shape of a frame.  The bytes of a message are not modelled: a frame     *)
(* carries the number `msg` of its message and the offset `off` of its     *)
(* first byte, which is what tells a correct segmentation from a wrong one.*)
(***************************************************************************)
EXTENDS Integers, Sequences

CANTP_SF_NUM_DATA_BYTES == 7
CANTP_FF_NUM_DATA_BYTES == 6
CANTP_CF_NUM_DATA_BYTES == 7

\* The integer widths of can-tp.h: every counter is an unsigned C integer.
UInt8  == 0..255
UInt16 == 0..65535
SeqNum == 0..15
U8(x)  == x % 256
U16(x) == x % 65536

\* sn++; if (sn > 0x0f) sn = 0;  -- the same three lines on both sides.
NextSn_Late(sn) == IF sn + 1 > 16 THEN 0 ELSE sn + 1  \* fault: wraps one late
NextSn(sn) == IF sn + 1 > 15 THEN 0 ELSE sn + 1

\* Bytes the next consecutive frame takes: n_to_send is a uint8_t.
NToSend(remaining) ==
  IF remaining > CANTP_CF_NUM_DATA_BYTES THEN CANTP_CF_NUM_DATA_BYTES
                                         ELSE U8(remaining)

\* The 12-bit length field of a First Frame: CANTP_FF_LEN_H keeps four bits.
FFLen(len) == len % 4096

\* STmin byte -> microseconds; the other byte values are refused.
StValid(st)   == st < 128 \/ (241 <= st /\ st <= 249)
StDecode(st)  == IF st < 128 THEN 1000 * st ELSE 100 * (st - 240)

FlowStatus == {"CTS", "WAIT", "OVF", "reserved"}
FlowControl == [fs : FlowStatus, bs : UInt8, st : UInt8]

\* The data-carrying frames.  `dl` is sf.len, the First Frame length field,
\* or the number of message bytes in a Consecutive Frame.
Frame == [pci : {"SF", "FF", "CF"}, msg : Nat, sn : SeqNum, off : Nat, dl : UInt16]

SingleFrame(m, len) ==
  [pci |-> "SF", msg |-> m, sn |-> 0, off |-> 0, dl |-> len]
FirstFrame(m, len) ==
  [pci |-> "FF", msg |-> m, sn |-> 0, off |-> 0, dl |-> FFLen(len)]
ConsecutiveFrame(m, sn, off, n) ==
  [pci |-> "CF", msg |-> m, sn |-> sn, off |-> off, dl |-> n]

(***************************************************************************)
(* Reference definition, independent of the two state machines: the frames *)
(* a message of `len` bytes is cut into.  Frame 0 is the single or first   *)
(* frame, frame k > 0 the k-th consecutive frame.                          *)
(***************************************************************************)
NumCFs(len) == (len - CANTP_FF_NUM_DATA_BYTES + CANTP_CF_NUM_DATA_BYTES - 1)
                 \div CANTP_CF_NUM_DATA_BYTES
NumFrames(len) == IF len <= CANTP_SF_NUM_DATA_BYTES THEN 1 ELSE 1 + NumCFs(len)

CFOffset(k) == CANTP_FF_NUM_DATA_BYTES + CANTP_CF_NUM_DATA_BYTES * (k - 1)

Segment(m, len, k) ==
  IF k = 0
  THEN IF len <= CANTP_SF_NUM_DATA_BYTES THEN SingleFrame(m, len)
                                         ELSE FirstFrame(m, len)
  ELSE ConsecutiveFrame(m, k % 16, CFOffset(k),
         IF len - CFOffset(k) < CANTP_CF_NUM_DATA_BYTES
         THEN len - CFOffset(k) ELSE CANTP_CF_NUM_DATA_BYTES)
=============================================================================
