---------------------------- MODULE CanTpParams ----------------------------
(***************************************************************************)
(* cantp_rcvr_params_init (cantp_glue_lin.c): from what the Receiver was   *)
(* asked for, BlockSize and a minimum separation time in microseconds, the *)
(* fields of ctx->params it sends in its Flow Control frames.  A separation*)
(* time STmin cannot express is made of FC.WAIT frames instead: one frame  *)
(* per block, wft_num times wft_tim_us before the next one is allowed.     *)
(***************************************************************************)
EXTENDS CanTpFrames

\* The command line sets these; the rest of cantp_params_t is zero.
Request == [block_size : UInt8, st_min_us : Nat, wft_max : UInt8, wft_tim_us : Nat]

\* Longer than the largest STmin byte can say.
NeedsWait(q) == q.st_min_us > 127000

\* wft_num is an uint8_t: the quotient is cut before it is compared.
WftNum(q) == U8(q.st_min_us \div q.wft_tim_us)

Accepted(q) ==
  /\ q.st_min_us = 0 \/ q.st_min_us >= 100
  /\ NeedsWait(q) => q.wft_tim_us >= 127000 /\ WftNum(q) <= q.wft_max

\* From 901 to 999 st_min_us is rounded, but st_min stays zero.
Coded(t, base) ==
  IF t = 0 \/ (t > 900 /\ t < 1000) THEN 0
  ELSE IF t <= 900 THEN U8(t \div 100 + base) ELSE t \div 1000

STminByte_NoBase(q) == Coded(q.st_min_us, 0)     \* fault: 0xf0 is not added
STminByte(q) == Coded(q.st_min_us, 240)

cantp_rcvr_params_init(q) ==
  IF NeedsWait(q) THEN [block_size |-> 1, st_min |-> 0, wft_num |-> WftNum(q)]
  ELSE [block_size |-> q.block_size, st_min |-> STminByte(q), wft_num |-> 0]
=============================================================================
