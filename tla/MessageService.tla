--------------------------- MODULE MessageService ---------------------------
(***************************************************************************)
(* What the two roles together promise their session layers, without       *)
(* frames, timers, threads or a bus: messages are accepted one at a time;  *)
(* each is delivered at most once and in the order they were accepted;     *)
(* and one whose sender has heard that it failed is not delivered before   *)
(* the next is accepted, nor has it been.                                  *)
(***************************************************************************)
EXTENDS Naturals, Sequences

VARIABLES
  accepted,   \* how many messages have been accepted
  open,       \* the last of them has not been concluded
  verdict,    \* how it was
  delivered   \* the messages delivered

mvars == <<accepted, open, verdict, delivered>>

Init == accepted = 0 /\ open = FALSE /\ verdict = "none" /\ delivered = <<>>

Accept ==
  /\ ~open /\ open' = TRUE
  /\ accepted' = accepted + 1 /\ verdict' = "none"
  /\ UNCHANGED delivered

\* cantp_received_cb: later than every message delivered before.
Deliver(m) ==
  /\ \A i \in 1..Len(delivered) : delivered[i] < m
  /\ m = accepted => verdict # "failed"
  /\ delivered' = Append(delivered, m)
  /\ UNCHANGED <<accepted, open, verdict>>

Confirm ==
  /\ open /\ open' = FALSE /\ verdict' = "sent"
  /\ UNCHANGED <<accepted, delivered>>

Fail ==
  /\ open /\ open' = FALSE /\ verdict' = "failed"
  /\ \A i \in 1..Len(delivered) : delivered[i] # accepted
  /\ UNCHANGED <<accepted, delivered>>

Next == Accept \/ (\E m \in 1..accepted : Deliver(m)) \/ Confirm \/ Fail

Spec == Init /\ [][Next]_mvars
=============================================================================
