# Verification of can-tp

`can-tp.c` and `can-tp.h` implement the network layer of ISO 15765-2 (CAN-TP): a
*Sender* role cuts a message into a Single Frame, or a First Frame and Consecutive
Frames, and a *Receiver* role puts it together again and paces the Sender with Flow
Control frames. `cantp_test/` runs the two in two processes over a pair of pipes.
This directory holds TLA+ models of that code, the TLC runs that check them and the
theorems TLAPS proves about them. Line numbers refer to the sources in this commit.

Terms: SF, FF, CF, FC are the four frames; BS is BlockSize, SN the sequence number; CTS
(clear to send), WAIT and OVF are the flow statuses; N_As ... N_Cr are the ISO timers.

## Inventory

| Component | State it keeps | Operations | Talks to |
|---|---|---|---|
| Sender role (`can-tp.c`) | `ctx->sndr`: state, len, index, sn, bs_pair, bl_index, st_tim_us, one timer, a state semaphore | `cantp_send`, `cantp_sndr_task` + `cantp_cantx_confirm_cb`, FC branch of `cantp_canrx_cb`, `cantp_sndr_timer_cb` | session layer (`cantp_sndr_result_cb`, `cantp_sndr_tx_done_cb`), driver (`cantp_can_tx_nb`, `cantp_sndr_wait_tx_done`), timer |
| Receiver role (`can-tp.c`) | `ctx->rcvr`: state, len, index, sn, id_pair, wft_cntr, one timer, the buffer; and `ctx->sndr.bl_index` | SF, FF and CF branches of `cantp_canrx_cb`, `cantp_rcvr_timer_cb` | session layer (`cantp_rcvr_rx_ff_cb`, `cantp_received_cb`), driver (`cantp_can_rx`, blocking `cantp_can_tx`) |
| Frames and counters (`can-tp.h`) | none | field widths, length and STmin encoding | both roles |
| Receiver parameters (`cantp_glue_lin.c`) | `ctx->params` | `cantp_rcvr_params_init` | Receiver |
| Callback timers (`cbtimer_lin.c`) | status, POSIX timer | `cbtimer_start`, `cbtimer_stop`, `cbtimer_cb` | both roles, fake driver |
| Fake CAN driver (`fake_can_linux.c`) | two pipes, `tx_ack`, `tx_done_sem` | `fake_can_tx`, `fake_can_tx_nb`, `fake_can_rx_task` | both roles |
| Test program, logging | counters and text | I/O | everything |

What makes it hard:

- *Concurrency without locks.* The session layer's thread, `cantp_sndr_task`,
  `cantp_rx_task` and the timer's notification thread all read and write
  `ctx->sndr`. The state and the semaphore are the only coordination, and two of the
  threads take tokens from that one semaphore.
- *Timeouts racing with answers*: N_As with the transmit confirmation, N_Bs with FC.
- *A lossy, shared bus*: frames are lost, frames of several senders interleave, FC
  carries no addressee, and its transmission may fail.
- *One context, two roles*: a full-duplex node's Sender and Receiver share `bl_index`, the
  receive thread, `ctx->params->id` and the callback that reports results.
- *A driver of threads and buffered streams*: three kinds of threads wake one another with
  one semaphore, two of them read one stream, and nothing of a call that timed out is
  cleaned up.
- *Counters at their edges*: SN wraps at 15, BS is eight bits, `bl_index` outlives an
  aborted message, the FF length has twelve bits, some lengths are eight.

Correctness, by component: the Sender puts exactly the message's segmentation on the
bus, respects BS, tells the session layer once and truthfully how each message ended,
and never waits for ever. The Receiver keeps a prefix of one message in its buffer,
delivers only whole messages, sends FC exactly when it is due and watches over every
wait. Together: both ends agree on bytes, verdicts, blocks and separation time.
Parameters: the pause the Sender makes is the one the Receiver was asked for, but for the
unit in which it is told. Timer: a stopped timer does not call back. Driver: what a call
returns is true of its own frame, it returns, and received frames are whole.

The harness in `cantp_test/` is older than the task interface of `can-tp.c`: it calls
`cantp_cantx_confirm_cb` from inside `fake_can_tx_nb` and does not define
`cantp_can_rx`, `cantp_sndr_wait_tx_done` or the semaphore functions. The models follow
`can-tp.c`; what these functions do is taken from how it calls them.

## Modules

| Module | Content |
|---|---|
| `CanTpFrames` | Sizes, C integer widths, SN, STmin decoding, frame constructors, and `Segment(m, len, k)`, a reference definition of a message's k-th frame independent of both state machines |
| `SendService` | What `can-tp.h` promises the session layer of the Sender: one message at a time, its parts go out one by one, one truthful verdict |
| `MessageService` | What the two roles together promise their session layers: messages are accepted one at a time, delivered at most once and in order, and none is both delivered and reported as failed |
| `CanTpSender` | The Sender role, four threads |
| `CanTpReceiver` | The Receiver role, its peers and the bus |
| `CanTpParams` | `cantp_rcvr_params_init`, from the options asked for to what FC frames announce |
| `CanTpTransfer` | `CanTpSender` as node A and `CanTpReceiver`, with `CanTpParams`, as node B, on one bus |
| `CanTpNode` | `CanTpSender` and `CanTpReceiver` on the context of one full-duplex node |
| `CbTimer` | `cbtimer_lin.c`: status word, POSIX timer, notification threads |
| `FakeCan` | `fake_can_linux.c` with its `CbTimer`: streams, acknowledge threads, transmit timeout |
| `MCCanTpSender`, `MCCanTpReceiver`, `MCCanTpTransfer`, `MCCanTpNode` | Small instances for TLC |
| `CanTpFrames_proofs`, `CanTpParams_proofs`, `CanTpSender_proofs`, `CanTpReceiver_proofs`, `CanTpReassembly_proofs`, `CanTpTransfer_proofs`, `CanTpNode_proofs`, `FakeCan_proofs` | Lemmas and theorems |

Operators with a suffix such as `_Late` or `_NoTimer` next to a definition are *faults*:
plausible bugs of that code, used to see that each property notices one.

### Data

A frame carries, instead of bytes, the number of its message and the offset of its first
byte. That tells a right segmentation from a wrong one. STmin's value is stored, its
sleep is a point where other threads run. Time is not counted: a timer is `"off"` or
running under its name, and may expire whenever it runs.

### CanTpSender

Four program counters say where each thread stands; a step ends where the code reads
shared state it will act on later, changes the state, hands a frame over or blocks.

| Variables | In the code |
|---|---|
| `state`, `sem` | `sndr.state`, tokens of `state_sem` (`cantp_sndr_set_state` changes both) |
| `len` ... `st_tim_us` | the same fields of `sndr_state_t` |
| `timer` | `sndr.timer` |
| `app` | in `cantp_send`: `"tx"` between the state change and `cantp_can_tx_nb` |
| `task` | `cantp_sndr_task`: `"poll"` the switch, `"idle"` and `"wait_tx"` its waits, `"confirm"` entering `cantp_cantx_confirm_cb`, `"sf_done"`/`"ff_done"`/`"cf_done"` one of its cases chosen, `"stmin"` the sleep, `"tx"` before `cantp_can_tx_nb` |
| `rx` | the FC branch of `cantp_canrx_cb`: `"check"` and `"recheck"` the state, `"wait"` for a change, `"fc"` in the handler, `"tx"` before `cantp_can_tx_nb` |
| `cb` | `cbtimer_cb` and `cantp_sndr_timer_cb`: `"expired"`, then the result it will report |
| `out`, `fc` | frames local to a thread |
| `txq`, `txdone` | the driver's queue, confirmations not yet waited for |
| `msg`, `owed`, `result`, `wire`, `blk`, `fcs` | history: message number, answers owed to the session layer, the last answer, the frames transmitted, CFs since the last FC, FC frames of this message |

Three constants say what the environment's timing may do. All `FALSE` is the timing under
which the code works as it says; the code has provisions for the rest, which findings 2 and 3
show not to be enough.

- `RacyTimers`: the timer may expire, and its callback run, inside a handler. Without it
  an expiry falls between two handlers and the callback, a few lines, is not interrupted.
- `LateTx`: a frame may still be transmitted after N_As has expired. Without it, N_As
  expires only once the driver holds no frame and no confirmation the task could take.
- `EarlyFC`: FC may arrive in any state. Without it, only while it is awaited. (Lines 720-731 try
  to handle FC that comes before `FF_FC_WAIT`.)

The session layer sends the next message when it has had its answer, as its callbacks
suggest. The Receiver role's FC failures use the same callback: see *CanTpNode*.

### CanTpReceiver

Everything runs on the receive thread, so a frame's handler is one step except where
`cantp_can_tx` blocks: `rx` tells whether the thread polls, is about to send the first
FC, a WAIT, or the FC at the end of a block, or counts the block. Fields are grouped in
the record `rcvr`; `bl_index` stands apart because the code keeps it in `ctx->sndr`
(lines 611-621). The session layer accepts, rejects or has no buffer.

Peers are the environment: each sends its messages frame by frame, CFs once it has seen
an FC, any FC, since these carry no addressee. A message may be given up for a new one
at any time; with `LateFC` even while the FC that answers it is being sent. `MaxLost`
frames are lost; `MaxTxFail` FC transmissions are reported as failed, and each of
those may be out all the same. The role's own steps (`RoleInit`, `cantp_canrx_cb`, `SendCTS`,
`SendWait`, `EndBlock`, `AwaitNextCF`) touch only its variables, so that the two
compositions below can put them on another bus.

### CanTpTransfer

Node A is the Sender module with its four threads, node B the Receiver module, instantiated
side by side; `toA` and `toB` are the two directions of the bus, in order. `Transmit` is
the driver's step, after which the frame arrives or is lost; `Answer` the same for B's FC
frames, which a driver may also report as failed (sent all the same or not). `request` is what B is
asked for; `CanTpParams` says what B announces, or that B does not start.

The timing is benign: timers do not race with handlers, N_Bs does not
expire while a frame of the exchange is under way or being handled (`UnderWay`), and A
handles the confirmation of its FF before it looks at the answer (`TakeFC`; run
`sender_early_fc` shows what happens otherwise). The expiry of B's timer is left out: its
callback only logs.

### CanTpNode

Both modules on one set of variables: `bl_index` is one variable for both, `Polling` is the
one receive thread, and a step of the Receiver in which an FC fails (`failed` grows) also
concludes the Sender's message (`Reported`). The peers are those of `CanTpReceiver`, the FC frames those of
`CanTpSender`.

### CbTimer and FakeCan

`CbTimer` has the timer's loads and stores one by one: `cbtimer_start` stores the status,
then arms; `cbtimer_stop` loads, then stores and leaves the POSIX timer armed; `cbtimer_cb`
loads, stores, calls back. `notes[p]` is the notification thread of the p-th start.

`FakeCan` is one of the two processes. `main` runs `fake_can_rx_task` or sends, from a callback
too; every call starts an acknowledge thread `ack[c]`; `notes` runs
`fake_can_tx_toutus_cb`. Shared: `tx_ack`, `tx_done_sem`, the timer, and the streams, buffered
on the way out (`txbuf` until somebody flushes), locked by a reader until it has all it
asked for on the way in. A frame is `FrameSize` tokens in `rxbuf`, so that one can be torn; two
are enough to tell its first byte from the rest. The other process is the environment: it
takes turns with this one, as the protocol has it, and leaves up to `MaxIgnored` frames
without an acknowledge. `stale` collects the calls that began while an earlier one had left a
thread, a token or a running timer behind. Short reads cannot happen while both processes
live, so that branch is left out. So is the `fflush(0)` with which `fake_can_rx_task` begins
(line 80): it could only send what a call that timed out has left in the buffer.

## Runs

| Run | Shows |
|---|---|
| `sender` | All schedules of the four threads under the assumed timing: lengths 7, 8, 27, 125; BS 0 and 2, a microsecond STmin, a refused STmin, WAIT, OVF and a reserved status; two messages, two FCs each |
| `sender_adverse` | `LateTx` and `EarlyFC`: lengths 7 and 27, two messages, one FC each. What stays true: one conclusion, supervision, block size, termination |
| `receiver` | One peer with lengths 7, 27, 125 and a second with 7 and 8, BS 0, 1, 3, zero or two WAIT frames, a lost frame, a failed FC |
| `transfer` | Two messages of lengths 7 and 118 from A to B, ten requests (seven accepted) at the edges of STmin's encodings, BS 0 to 4, FC.WAIT frames, one frame lost or given up, one failed FC |
| `fake_can` | Two calls in either form, two frames received, one frame never acknowledged |
| `sender_block_fc`, `sender_racy_timer`, `sender_early_fc`, `receiver_second_ff`, `receiver_fc_failure`, `node_blocks`, `fake_can_stale` | Each violates one property; see *Findings* |

Bounds. Length 7 is the longest SF, 8 the shortest FF with one short CF, 27 is three full
CFs (the end of message on a frame boundary, and inside a block when BS is 2), 125 is
seventeen full CFs, so SN wraps from 15 to 0 and goes on. A second message finds what the
first left behind (tokens, confirmations, `bl_index`, a queued frame). BS 1 ends a block with
every frame, BS 2 or 3 in the middle of a message. 118 is sixteen full CFs, so both ends
wrap SN on the last frame but one, and the last frame is full. Of two driver calls the
second finds all that a first can leave behind. `SemMax` 1 is a binary semaphore. Messages are counted
by `MaxMsgs`, FCs by `MaxFCs`; the system may stop when they are used up, so deadlock is
not checked.

Properties of the Sender: `OneConclusion` (each message gets one answer), `NeverStranded` (no wait
without a timer), `FrameStream` (the bus carries a prefix of the reference
segmentation, although two threads compose it), `HonestResult` (each answer is true of
what was transmitted), `BlockNotOverrun`, `ImplementsService` (refinement of
`SendService`), `SendTerminates` (each message ends, unless the sender is parked in `CF_FC_WAIT`).
Of the Receiver: `BufferIntact`, `DeliveredIntact`, `FlowSchedule` (the FC frames sent
are those the accepted frames call for), `NCrArmed` (without losses N_Cr watches over every wait for a CF).

Of both together: `EndToEnd` (the Receiver's buffer and deliveries are node A's messages),
`VerdictAgrees` (sent at A means delivered at B, failed means not), `BlocksAgree` (A stops
where B has offered the next block), `PaceHonoured` (A keeps the separation time
B was asked for), `ImplementsMessageService` (refinement of
`MessageService`) and `AcceptedIsDelivered` (a message B takes
up is delivered, unless a frame failed or A is parked in `CF_FC_WAIT`).

`PaceHonoured` looks at node A. Up to 127 ms it is about the pause A makes between two CFs. STmin is a
minimum (can-tp.h:159, 204), but `cantp_rcvr_params_init` rounds it down to a whole unit, 100
microseconds or 1 ms: the property tolerates a pause that is short by less than one unit, and no
longer one. Beyond 127 ms nothing is tolerated. There the code's way is "to send only one Consecutive
Frame and than wait" (cantp_glue_lin.c:45-47), so A may have its CF k+1 on the bus only if B, having
accepted the k-th, has sent CTS for it, and, from the second on, FC.WAIT frames that amount to all of
the time asked for. Because of finding 1 A never gets beyond its first CF there, so it is the stop that
keeps this pace: every schedule of the run checks that A makes it, and it has a mutant of its own (a block that ends one
frame late), which sends a second CF that was released too early. B's own count of WAIT frames would not do: see the observation
under *Findings*. The property holds for the requests of the run; it fails from 901 to 999
microseconds, which are rounded in `st_min_us` but announced as 0.

Of a full-duplex node: `SendsUndisturbed` (what it receives changes neither the frames it sends nor
what its session layer hears of them, until it has failed to send an FC) and `ReceivesUndisturbed`
(what it sends changes neither the bytes it receives nor what it hands over, nor does it stop N_Cr).
No run checks these two: they are theorems (see *Proofs*). To model-check them too, put them in
`NodeBlocks.cfg` in place of `BlockNotOverrun`, with `BlockSizes` {0, 2}, `MaxMsgs` 2, `MaxLost` 1 and
`MaxTxFail` 1; they hold there, in 1.2 million states.

Of the driver: `CleanCallsTellTrue` (a call that is not stale returns 0 or confirms only for its
own acknowledged frame, and -1 only after its own timer), `FramesWhole` (until a call times out
the two readers of one stream do not take each other's bytes), `TxReturns` (`fake_can_tx`
returns whatever was left behind), `NbReturns` (`fake_can_tx_nb`, without a timer, returns
if the other process acknowledges everything and nothing is stale).

Fairness (`FairSpec`): weak fairness of the threads that have something to do, of a
running timer's expiry, of its callback, and of the driver deciding on each frame.
These are preemptive threads, a POSIX timer and a driver that transmits or gives up. In
`transfer` also of B's receive thread and of A's taking a frame that has arrived. In
`fake_can` of each thread of a call, of the timer, and of the other process reading a frame and
acknowledging it or failing to. No
fairness for `cantp_send`, the peer or the bus: none of them owes anything.

## Findings

1. *FC that ends a block is dropped* (`sender_block_fc`). In `CF_FC_WAIT` the FC branch
   (line 720) waits for a state change and then drops the frame; only `FF_FC_WAIT` is
   served. N_Bs then expires in a state `cantp_sndr_timer_cb` has no case for: a message longer than
   one block hangs and its session layer hears nothing. `NeverStranded`
   and `SendTerminates` therefore leave `CF_FC_WAIT` out.
2. *One message, two answers* (`sender_racy_timer`). Timer callback and confirm callback
   read the state and act on it without a lock.
3. *A transmitted frame reported as timed out* (`sender_early_fc`). Early FC takes the
   semaphore token `cantp_sndr_task` needs to leave its wait in `IDLE`.
4. *One reception only* (`receiver_second_ff`). `TX_DONE` and `RX_DONE` are never left,
   so every later FF is refused; even a Single Frame does this.
5. *A failed FC does not abort* (`receiver_fc_failure`), though three comments say so.
6. *Two roles, one block count* (`node_blocks`). The Receiver counts in `ctx->sndr.bl_index`
   (lines 611-621) and resets it; a node that receives in the middle of a block it sends
   then sends more frames than its peer allows. What it sends disturbs its Receiver's count in
   the same way, so `FlowSchedule` fails in a node too. The properties that survive are theorems. `rcvr_state_t` has a counter of its own
   that nothing uses.
7. *A late acknowledge confirms the wrong frame* (`fake_can_stale`). After `fake_can_tx` has
   timed out its acknowledge thread stays; the late byte makes it post the semaphore on
   which the next call waits, whose frame may still be in the stream's buffer.

Finding 1 has a consequence at the other end: for a separation time beyond 127 ms
`cantp_rcvr_params_init` sets BS to 1, so a segmented message longer than one CF never arrives.

An observation, without a run: the separation time is rounded down, although STmin is a minimum and FC.WAIT
is "needed to achieve" it (cantp_glue_lin.c:42-60). Asked for 199 microseconds, B announces 100; asked for
127001 with WAIT frames 200000 microseconds apart, it sends no WAIT frame at all (`wft_num` 0), and
for 400000 with 150000 two of them, 300000. The number is besides cut to eight bits before it is compared with
`wft_max`. Beyond 127 ms finding 1 hides this: if A went on after its first block, `PaceHonoured`
would fail for these requests, which are among those of run `transfer`.

With `LateFC` the Receiver's `BufferIntact` fails: FC bears no addressee, and one sent
after its peer has begun a new message starts that message's CFs into the old buffer.
With `LateTx` `FrameStream` and `HonestResult` fail: a late confirmation is taken for the
next message's frame.

## Proofs

All theorems hold for every set of lengths below 4096, every set of FC frames and
parameters, every semaphore bound, any peers and any number of messages; the assumptions
are the named ASSUMEs of the component's module, which TLC evaluates in every run of it,
and what a theorem states itself (those of the full-duplex node state all of it, in `Setting`). The C ranges stay opaque in the proofs about a role, and facts
about them (`U8Type`, `NToSendType`, ...) are lemmas of `CanTpFrames_proofs`.

The Sender (`CanTpSender_proofs`):

- `Typing`: `TypeOK`, under every timing. One lemma per thread; `PrepareCFTyped` is
  shared by the two threads that compose CFs.
- `Concluding`, `Supervised`, `Blocks`: `OneConclusion`, `NeverStranded` and
  `BlockNotOverrun`, if not `RacyTimers`, for a late link and early FC alike. None is
  inductive. Three parts are added to them, the first two in `IInv`:
  - `ThreadsInv`: what a thread has read is still so when it acts on it, and a timer
    callback finds the others between handlers. This is what makes the threads' unlocked
    read-then-write safe as long as timers do not race, and run `sender_racy_timer`
    shows it to be necessary.
  - `IndexInv`: what has been composed never exceeds the message, so the code's "Wrong
    number of remaining bytes" branch (line 205) cannot be reached and every `CF_SENT`
    has a frame to follow. It rests on `NToSendRange` and `U16Below`.
  - `BlockInv`: `bl_index` counts at least the confirmed frames of the current block;
    a count left by an aborted message can only shorten the block. It also stays below
    255, so the eight-bit increment never wraps. It stands apart from the others, none of
    which says anything of `bl_index` but its type: so they hold in a node whose Receiver
    writes it as well, where `BlockInv` does not.

The Sender's stream (also `CanTpSender_proofs`), if `Timely`, that is not `RacyTimers`, `LateTx`
or `EarlyFC`. All three are needed: see *Findings*.

- `Segmentation`: `FrameStream`. `cantp_can_tx_nb` is called by three threads, so the
  invariant `SInv` follows the frame composed last, which is the reference frame number
  `Handed - 1`, from one place to the next (`FlightInv`: with the thread that composed it,
  with the driver, confirmed, with the thread that takes the confirmation, or given up at
  N_As), and says that no frame is under way in any other state (`RestInv`). `CountInv` says
  that `index` and `sn` agree with the number of frames composed: `NextChunk` and
  `NextSnCounts` are the arithmetic of one more. `OpeningInv` ties the frame that opens a
  message, and `len`, to what the session layer asked for; `WaitInv` says that a
  confirmation can neither be missed nor taken for an answer.
- `Honesty`: `HonestResult`, from the same invariant: `cantp_cantx_confirm_cb` concludes
  only in `Confirming`, where every frame handed over is on the bus, and the N_As callback
  only in `GivenUp`.
- `Implementation`: `ImplementsService`. `SendService`'s state is mapped from `owed`, the message's
  length, `Len(wire)` and `result`. `cantp_send` is a `Request`, a frame the driver transmits a
  `Progress`, the confirmation of the last frame a `Confirm`, a timer's callback a `TimeOut`; every
  other step of the four threads is a stutter. One lemma per thread says so.

The Receiver (`CanTpReceiver_proofs`, `CanTpReassembly_proofs`):

- `Typing`: `TypeOK`, in every setting. It needs `ControlOK`, which says what the thread's
  place, the state and the buffer have to do with each other.
- `Scheduling`: `FlowSchedule`, in every setting. `FlowInv` says of every accepted frame which FC
  frames have gone out for it: for all but the last exactly those it calls for (`SentBefore`), for
  the last those up to the thread's place (`Sending`), `wft_cntr` counting its WAIT frames; and
  that `bl_index` is the number of accepted CFs modulo `block_size` (`Counting`), which the eight-bit
  increment does not disturb. `FlowGrows` is one more FC frame, `NextRemainder` one more CF.
- `Reassembly`: `BufferIntact`, if no peer gives up while its FC is being sent
  (`~LateFC`) and fewer than 16 frames are lost. The invariant `BufferInv` says of the
  peer whose message is received that it
  - is still on that message, and its next frame's number is ahead of `rcvr.sn` by no
    more than the frames lost; only if it is not ahead at all is the frame stored, and then it is
    the one the buffer lacks (`Following`, `LagSteps`); or
  - has given up, and waits for an FC that will not come, because the Receiver sends one
    only after that peer's CF. So no CF of the new message gets into the old buffer.

  Both assumptions are needed: for `~LateFC` see *Findings*, and after 16 lost frames
  the four-bit number is right again. `Progress` is the arithmetic of the last frame.
- `Delivering`: `DeliveredIntact`, if besides no message exceeds 255 bytes (`Short`):
  `cantp_received_cb` takes the length as an `uint8_t`.
- `Armed`: `NCrArmed`. A frame is discarded, which stops N_Cr for good, only after a loss
  (`DiscardedLate`). It follows that the code's "remaining bytes" check (line 506) never
  refuses a frame that is in sequence.

The parameters (`CanTpParams_proofs`): `PaceTold` (the STmin byte says what was asked for,
rounded down to a whole unit, outside the gap from 901 to 999 microseconds), `PaceWaited` (there are as many
FC.WAIT frames as go into the time asked for, which may be none, if their number fits eight bits) and `ParamsTyped` (what is
left in `ctx->params` meets the Receiver's `ParamsAssumption`).

The driver (`FakeCan_proofs`), for any number of calls, frames and unacknowledged frames, and
any frame size; the other process is the environment of *CbTimer and FakeCan*, which takes turns:

- `Typing`: `TypeOK`.
- `Truthful`: `CleanCallsTellTrue`. `OwnInv` says what a call that found nothing left over
  can rely on while it lasts: the other calls' acknowledge threads are over, only its own thread
  and its own timer can post the semaphore, and `tx_ack` is 1 only from its own thread on. But
  that thread takes whatever byte comes. That it is the acknowledge of its own frame
  follows by counting (`AllRead`): every byte that came was taken by an acknowledge
  thread, by `fake_can_rx_task`, or is still there (`ByteInv`); each frame is acknowledged at
  most once (`PlaceInv`), and the other process has sent no frame of its own (`TurnInv`).
- `Undivided`: `FramesWhole`. Until something is left over, every acknowledge thread has had its
  byte before the other process sends, so its frame finds the stream empty (`WholeInv`).

Both nodes together (`CanTpTransfer_proofs`), for any lengths below 4096, any requests and any
number of losses and failures:

- `Pacing`: `PaceHonoured`, if B is not asked for 901 to 999 microseconds (`Expressible`; see *Runs*)
  and fewer than 16 frames are lost. The proof takes over the roles'
  lemmas for the instances that `CanTpTransfer` composes: `StepIs` says that each step is one of the
  Sender (`SenderMoves`), of the Receiver (`ReceiverMoves`) or of both, and `Typed` that each role keeps its own
  invariant whatever the other does. `PaceInv` follows STmin from `cantp_rcvr_params_init` to
  B's CTS frames, to the frame A takes from the bus and to `st_tim_us`, which nobody else sets.
  Beyond 127 ms B's BlockSize is 1 and A has no more CFs on the bus than it has counted in its first
  block (`WireCounted`, with `CountedInv` of the invariant below), so one; and that one follows the CTS for
  its First Frame (`OpeningReleased`, from the Receiver's `FlowInv`).

- `Conveyance`: `EndToEnd`, if fewer than 16 frames are lost and no message exceeds 255 bytes; both
  are needed, for the reasons given at `Reassembly` and `Delivering`. Neither role's theorem can be
  taken over: the Sender's assumes `~EarlyFC`, and the Receiver's peers are only its environment. So
  `JointInv` adds to the roles' invariants what relates the two nodes and the bus (`Joint`):
  - `FramesInv`: every frame on its way to B is one of A's. A First Frame is the last on the bus and A
    waits for its answer; a Consecutive Frame is of the message in B's buffer and of its first block.
  - `Following`: `Late(i)` is how far the i-th frame to come is ahead of B's sequence number. It never
    exceeds the frames lost, and where it is 0 the frame is the one B lacks (`OnTrack`).
  - `CountedInv` and `Exchange`: an FC frame is under way only as the answer to A's First Frame, which
    finds A waiting (`Answered`), or at the end of a block (`Full`), where A is deaf to it (finding 1). This takes
    the place of `~EarlyFC`: all that the Sender's lemmas need of it is that the FC thread polls until
    the frame that opens a message is confirmed (`RxInv` of `CanTpSender_proofs`, `TakenWhere`).

  The proof has one lemma per kind of step: A alone (`AloneKept`), a frame onto the bus
  (`OutgoingKept`), a new message (`StartKept`), an FC frame taken (`TakenKept`), a frame handled by
  B (`IncomingHandled`), B's thread (`ThreadKept`). `ReceiveDelivers` is what B hands over.
- `Concord`: `VerdictAgrees`, if fewer than 16 frames are lost. `VerdictInv` follows one message to
  its two verdicts: B has delivered it only if A has sent its last frame, and while nothing is lost
  what A has sent is in B's buffer, delivered, or on its way.
- `Lockstep`: `BlocksAgree`, from the same invariant: in `CF_FC_WAIT` A has sent one block; with
  nothing lost or under way B has all of it (`CaughtUp`), so both indices are those of the next
  frame, and `FlowSchedule` says that one CTS has been sent.

- `Promise`: `ImplementsMessageService`, if fewer than 16 frames are lost. `cantp_send` is an `Accept`,
  the end of a message at A a `Confirm` or a `Fail` (`ConclusionMapped`), `cantp_received_cb` at B a
  `Deliver` (`DeliveryMapped`); every other step of either node, the driver or the bus is a stutter.
  What B delivers is new and in order because frames come in the order of their messages and of their
  numbers, and later than what is delivered (`OrderInv`): a message is delivered with its last frame. That
  `Fail` and `Deliver` exclude each other is `VerdictAgrees` after the step.

One full-duplex node (`CanTpNode_proofs`), for any lengths below 4096, FC frames, peers and parameters of
the C types (`Setting`, what the two roles' modules assume):

- `Sending`: `SendsUndisturbed`. The Receiver writes two things that are the Sender's: `bl_index`, of
  which the Sender's invariants need only the type (`Typed`, which both roles keep), and, when an FC
  fails, the result. Hence the condition `failed = 0`, which is carried through the invariant `NodeInv`:
  `failed` never falls (`Failures`), so until then every step of the Receiver leaves alone what `SendInv` speaks of
  (`SenderKept`). A step of the Sender role is one of `CanTpSender` on the same variables.
- `Receiving`: `ReceivesUndisturbed`, if fewer than 16 frames are lost and no message received exceeds 255
  bytes, as at `Reassembly` and `Delivering`. The Sender writes only `bl_index`, of which
  `BufferInv`, `NCrArmed` and `DeliveredInv` say nothing (`ReceiverKept`): how the Receiver counts its
  blocks decides when it sends an FC, never where it stores a byte.

Only model-checked: every liveness property, since fairness is out of the prover's reach. Every invariant
and action property that a passing run checks is proved.

## Plan

Done: all the modules planned, and the proofs of every safety property of the Sender, the
Receiver, the parameters, the driver, the two nodes and the full-duplex node. Nothing of the plan is left.

Some hazards have no property. Outside the models are the periods of `cbtimer_start` below a second
(line 73) and the receive thread's sleep before other frames (can-tp.c:721): time is not counted. Nothing says
what the code owes for the identifiers in deliveries (can-tp.c:528, 836), messages of 4096 bytes or
more (excluded by `LensAssumption`), `cantp_send` during a message (can-tp.c:831), a First Frame without a
buffer (can-tp.c:360) and a Single Frame in mid-reception (can-tp.c:693). A property holds only
without the hazard, and its condition says so, for a gap of 16 frames (can-tp.c:495), N_Cr after a loss (can-tp.c:484),
lengths from 256 (can-tp.h:373), the result of a failed FC (can-tp.c:403) and a lost acknowledge
(fake_can_linux.c:142).

## Not modelled

- The test program: argument parsing, `fork`, shared memory, printing. Its callbacks
  are what `Conclude`, `cantp_received_cb` and the session layer's choices in
  `CanTpReceiver` stand for.
- Logging, and the printing of frames and state names.
- `cbtimer_is_expired` and `cbtimer_wait_to_expire`, which nothing calls.
- Real time: STmin's and WAIT's sleeps are values and interleaving points.
- `cantp_can_rx`, `cantp_sndr_wait_tx_done` and the state semaphore have no
  implementation in the repository; the models take them from their uses in `can-tp.c`.
