------------------------------ MODULE CbTimer ------------------------------
(***************************************************************************)
(* cbtimer_lin.c: a callback timer made of a status word and a POSIX timer *)
(* that notifies by a thread.  Its operations are steps of whoever calls   *)
(* them; between the two steps of one any other thread may run.  Stopping  *)
(* only stores the status: the POSIX timer stays armed.                    *)
(*                                                                         *)
(* A period is one cbtimer_start: notes[p] tells where the notification    *)
(* thread of period p is.                                                  *)
(***************************************************************************)
EXTENDS Integers

CONSTANT Periods   \* the periods that may be started, in order: 1..N

VARIABLES
  status,   \* tim->status
  armed,    \* the period whose expiry the POSIX timer still holds, or 0
  notes     \* the notification threads: of each period at most one

tvars == <<status, armed, notes>>

\* "none" before the expiry, "load" and "store" in cbtimer_cb, "cb" when it
\* calls tim->cb, then wherever that takes it until it is "over".
TimerInit == status = "none" /\ armed = 0 /\ notes = [p \in Periods |-> "none"]

\* cbtimer_start: the status first, then timer_settime.
StartStore == status' = "RUN" /\ UNCHANGED <<armed, notes>>
SetTime(p) == armed' = p /\ UNCHANGED <<status, notes>>

\* cbtimer_stop: whether there is anything to stop, then the status.
Running   == status = "RUN"
StopStore == status' = "STOP" /\ UNCHANGED <<armed, notes>>

\* The POSIX timer expires, once.
Expiry ==
  /\ armed # 0 /\ armed' = 0
  /\ notes' = [notes EXCEPT ![armed] = "load"]
  /\ UNCHANGED status

\* Fault: cbtimer_cb does not look at the status.
CbLoad_Always(p) ==
  /\ notes[p] = "load"
  /\ notes' = [notes EXCEPT ![p] = "store"]
  /\ UNCHANGED <<status, armed>>

CbLoad(p) ==
  /\ notes[p] = "load"
  /\ notes' = [notes EXCEPT ![p] = IF Running THEN "store" ELSE "over"]
  /\ UNCHANGED <<status, armed>>

CbStore(p) ==
  /\ notes[p] = "store"
  /\ status' = "STOP" /\ notes' = [notes EXCEPT ![p] = "cb"]
  /\ UNCHANGED armed

\* A notification thread that will go on to do something, or may.
Notifying == \E p \in Periods : notes[p] \notin {"none", "over"}
Expired(p) == notes[p] # "none"
=============================================================================
