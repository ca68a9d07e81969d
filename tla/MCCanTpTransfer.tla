-------------------------- MODULE MCCanTpTransfer --------------------------
(* Small instances of CanTpTransfer for TLC: separation times at the edges  *)
(* of their encodings, those the code refuses among them.                   *)
EXTENDS CanTpTransfer

Asked(bs, st, max, tim) ==
  [block_size |-> bs, st_min_us |-> st, wft_max |-> max, wft_tim_us |-> tim]

MCRequests ==
  { Asked(0, 199, 0, 0), Asked(1, 0, 0, 0), Asked(2, 1000, 0, 0),
    Asked(3, 900, 0, 0), Asked(4, 127000, 0, 0),
    Asked(2, 127001, 0, 200000), Asked(0, 400000, 2, 150000),
    Asked(0, 99, 0, 0), Asked(0, 400000, 1, 150000), Asked(0, 127001, 9, 126999) }
=============================================================================
