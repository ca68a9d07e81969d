---------------------------- MODULE SendService ----------------------------
(***************************************************************************)
(* What the Sender promises the session layer (can-tp.h, cantp_send,       *)
(* cantp_sndr_result_cb and cantp_sndr_tx_done_cb), without frames, timers *)
(* or threads: one message at a time, its parts go out one by one, and it  *)
(* ends with one verdict -- "sent" only when every part is out, "failed"   *)
(* only while one is missing.                                              *)
(***************************************************************************)
EXTENDS Naturals

VARIABLES
  busy,     \* a message is accepted and not concluded
  goal,     \* the number of its parts
  done,     \* how many of them are out
  verdict   \* how it ended

svars == <<busy, goal, done, verdict>>

Init ==
  /\ busy = FALSE /\ goal \in Nat /\ done = 0 /\ verdict = "none"

Request ==
  /\ ~busy /\ busy' = TRUE
  /\ goal' \in Nat \ {0} /\ done' = 0 /\ verdict' = "none"

Progress ==
  /\ busy /\ done < goal
  /\ done' = done + 1
  /\ UNCHANGED <<busy, goal, verdict>>

Confirm ==
  /\ busy /\ done = goal
  /\ busy' = FALSE /\ verdict' = "sent"
  /\ UNCHANGED <<goal, done>>

TimeOut ==
  /\ busy /\ done < goal
  /\ busy' = FALSE /\ verdict' = "failed"
  /\ UNCHANGED <<goal, done>>

Next == Request \/ Progress \/ Confirm \/ TimeOut

Spec == Init /\ [][Next]_svars
=============================================================================
