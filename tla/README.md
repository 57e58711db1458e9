# Verification of esp-now-server

This directory models the core of esp-now-server in TLA+, checks the models with
TLC and proves theorems about them with TLAPS. Paths such as `src/serial_task.rs`
are relative to the root of the repository.

## 1. The system

A host program talks to an ESP device over a serial line. The device relays ESP-NOW
messages. Scripts (Rhai or JavaScript) on the host receive the device's events and
send messages; an MQTT task can bridge them to a broker.

| Component | Source | State | Operations |
|---|---|---|---|
| Serial session | `src/serial_task.rs` | `MSG_ID`, the map `waiting_ack`, the command and event channels, the watch channel, one waiter task per message sent | the four branches of `select!` (line, command, tick), `send_msg`, the waiter |
| Frame codec | `src/framed_codec.rs` | `FrameState`, the read buffer | `decode`, `encode`, `FrameHeader::new`, `new_from_buf` |
| Checksum | `src/framed_codec.rs` | none | `crc16` |
| MQTT task | `src/mqtt_task.rs`, `src/mqtt_types.rs` | the command channel, `connected`, the rumqttc client with its bounded request channel | requests, `Disconnect`, `poll` and its packets, reconnection |
| Serial supervisor | `examples/serial.rs` | `USER_EXIT`, the tasks of a session | open, reopen after an error, abort the session's tasks |
| Script hook | `src/hook.rs` | the Rhai engine | `command_tx`, `new_txdata`, `new_broadcast`, `on_init`, `on_event`, `on_tick` |
| JavaScript channels and timers | `src/rquickjs_util.rs` | the channel's receiver behind a mutex, cancel oneshots, one task per timer and reader | `register_rx_channel`, `_cb`, `_cb_cancel`, `setTimeout`, `setInterval`, cancel functions |
| JavaScript read-eval loop | `src/rquickjs_util.rs` | a pair of channels of capacity one, the lines of the command | `repl_rl`, `needs_more_input`; the plain `repl` |
| JavaScript MQTT example | `examples/mqtt_js.rs` | `USER_EXIT` | modules, scripts, calls, then the drain loop |
| MQTT configuration | `src/mqtt_types.rs` | none | builders, conversions of QoS |
| Small examples | `examples/cancel.rs`, `echo.rs`, `mqtt.rs`, `now-api.rs` | none of their own | front ends and demonstrations |

How they interact. The supervisor starts a session and gets three channel ends:
commands in, events out, the watch channel out. A script's `command_tx` puts a message
on the command channel. The session's loop encodes it, sends the frame through the
codec, and keeps a oneshot sender under the message's id; a waiter task holds the
receiver and a timeout. The device answers with an `Ack` naming the id. The loop is the
only owner of line and map; waiters, scripts and the monitor run on other tasks.
When a session ends the supervisor aborts its hook tasks and starts the next one, with
a new channel and a new `Hook`; `MSG_ID`, the waiters and the device are what outlives
a session.
The MQTT task has the same shape with a broker instead of a line. In a JavaScript program
one thread polls every task and runs every callback, so a task that blocks stops all.

What is hard: an answer that is quicker than the send that caused it; a deadline that
passes while the answer is handled; a tick that prunes the map while waiters give up;
ids that are reused; bytes cut anywhere into reads; damage on the line; a dial dropped
because a command arrived; a task that waits for a channel only it empties; a hook that
runs on after its session; a cancel function that is called late, twice or from inside
the callback, or thrown away; two tasks of which each may end first. The list, line by
line, is "hazards" in `PROJECT.json`.

What makes each correct:

- Serial session: senders in the map are exactly the live ones; an answer resolves at
  most one waiter, and one that has its id; every waiter is resolved; a waiter is
  abandoned only when its message was sent again or the session ended.
- Codec: what is delivered depends on the bytes and not on the reads; undamaged frames
  arrive; damage is noticed and its effect is bounded.
- Checksum: it is CRC-16 with polynomial 0x1021 and initial value 0xFFFF.
- MQTT task: requests arrive at most once and in order; nothing is handed to a client
  without a link; a request is lost only with an error of the link, or in the hands of a
  `poll` that a command drops; the task reconnects once commands cease and stops when
  told.
- Supervisor: a session that has ended is replaced, its tasks wind down, nothing of it
  is mistaken for the next one's, and Ctrl-C ends the program from everywhere.
- Channels and timers: what was cancelled ends and runs at most once more, a cancel
  function thrown away cancels nothing, the channel's receiver is never lost, the thread
  is never blocked.
- Read-eval loop: the prompt asks for more exactly while a bracket is open, output and
  prompt do not mix, and nobody waits for a partner that is gone.

## 2. Modules

| Module | What it is |
|---|---|
| `SerialTask` | one serial session: clients, loop, waiters, device and line |
| `AckPromise` | abstract: what a session promises about acknowledgements |
| `SerialPromise` | `SerialTask` with the refinement mapping to `AckPromise` |
| `SerialTaskProofs` | theorems about `SerialTask`, and that it implements `AckPromise` |
| `FramedCodec` | the codec under tokio-util's `FramedRead`, byte by byte |
| `MCFramedCodec` | traffic for its runs, and the checksum tabulated |
| `FramedCodecProofs` | theorems about `FramedCodec` |
| `DataInduction` | induction over the natural numbers and recursive definitions, for proofs about data |
| `Crc16` | `crc16` of the code |
| `Crc16Check` | `Crc16` fed byte by byte against polynomial division |
| `Crc16Proofs` | theorems about `Crc16` and `Crc16Check` |
| `MqttTask` | the MQTT task, the rumqttc client and the broker |
| `MqttTaskProofs` | theorems about `MqttTask` |
| `SerialBridge` | the supervisor around sessions, their hook tasks, the device |
| `SerialBridgeProofs` | theorems about `SerialBridge` |
| `JsTasks` | timers, channel readers, cancel functions, the script and the drain loop |
| `MCJsTasks` | the scripts of its runs |
| `JsTasksProofs` | theorems about `JsTasks` |
| `ReplRl` | line reader and evaluator, and `needs_more_input` |
| `ReplRlProofs` | theorems about `ReplRl` |

An operator whose name is another's with a suffix (`Removed_get` beside `Removed`) and
whose comment begins with "mutant" is a plausible mistake in the code. It is never part
of the specification. For each property that holds, one such operator put in place of
the real one makes TLC find the property violated; the pairs are in `PROJECT.json`.

### SerialTask

The frame on the line is a whole message here. Transmission `t` is the `t`-th command
taken from the channel; `idOf[t]` is the message id, all the code knows. The variables:

- `MSG_ID`, `built`, `nBuilt`, `submitted`: the counter and what clients hold. A script
  may submit one message twice, since `command_tx` clones it.
- `command_rx`, `event_rx`, `monitor`: the channels. The watch channel holds one value.
- `pc`: the loop is at `select!`, inside the send of a command ("sending", an await at
  which the device may already answer), or done.
- `waiting_ack`, `tx`, `waiter`, `reply`: the map, the state of each oneshot sender, the
  waiter task, and what was sent to it.
- `air`, `answered`, `line`, `port`: the device and the line.

`RecvCommand` is the branch up to the await in `framed.send`; `SendOk` and `SendErr` are
what follows it. The frame may or may not reach the device in either case. `RecvAck`
is the whole `Ack` arm, `RecvOther` the rest of the serial branch, `RecvEof` its empty
`Ok(None)` arm, `RecvError` its `break`, `RecvClosed` the closed command channel, `Tick`
the prune. A waiter whose deadline has passed ("expired") drops its receiver in a step of
its own ("timeout"), so an answer handled on another thread in between still succeeds in
`tx.send`. `timeout` polls the receiver before the deadline, so a waiter whose sender
has sent or is gone does not expire. Data inside messages, wording and logging are left
out. `event_rx` is emptied by the event task of `examples/serial.rs`.

### FramedCodec

A behaviour picks a sequence of pieces (frames, text, noise), at most one damaged byte,
and then every way of cutting the bytes into reads of the sizes in `Cuts`. `decode` is a
function of the codec state and the buffer; `Read`, `ReadZero` and `Decode` follow
`FramedRead`: decode until it returns `None`, then read; after a read of zero decode
once more and fail if bytes are left. The reference `Items` finds frames by position in
the whole run of bytes, with no state and no reads: the first header, its item, and the
items of what follows it. A piece of "text" is what `println` on the device writes; all
that is assumed of it is that it has no byte 0xAA, which ASCII has not. `MAX_PAYLOAD_LEN` is 2040 in the
code and small here; the two-byte length still exceeds it.

`checksum` is a constant. `ChecksumAssumption` asks of it only that it notices one
wrong byte of a frame's data; `Crc16Proofs` proves that of `crc16`. The damaged byte may
also be in a header, which the checksum does not cover. A wrong length, or a start where
there was none, makes the codec compare other bytes of the line with two more of them,
and these agree by chance once in 65536 times. `PassedByChance` names that case, and
`NothingForged` excepts it. It also excepts traffic in which data or a checksum looks like
a start (`StartFree`), where a codec that has lost its place may find a frame inside
another. `Wrong` is what a damaged byte may become.

### Crc16

A number is the set of its bits: `^` is the symmetric difference, `<<` adds to each bit
and a u16 drops what passes 15. `Crc16Check` compares the register with the remainder of
a polynomial, which is a set of exponents, so both are about the same kind of thing. The
remainder is found by dividing the whole message, from its highest term down, and knows
nothing of bytes.

### MqttTask

The three kinds of request differ only in the rumqttc call, and are one kind here. The
client's request channel is a bounded sequence that only `poll` empties. `poll` takes a
request (`PollTake`: it has it in hand, `writing`), waits for room in the write buffer
(`PollWrite`: it is in `unsent`), and flushes (`PollFlush`: the broker has it, or nobody
when the link is broken). Between any two of them the command branch of `select!` may be
taken, which drops the `poll` future: a dial in progress is given up (`Undialed`), the
request in hand is gone (`cut`, history), and what is in the buffer waits for the next
flush, which a later write, an incoming packet or the keep-alive causes. A request is
handed over when the channel has room (`HandOver`), awaited inside the arm when it has
not (`AwaitRoom`, pc "requesting"), or refused (`Refuse`: no link, or the client finds the
topic invalid). A refused request leaves nothing behind, so the last one gives its number
back and users may go on for ever within `MaxRequests`. `Leave` is the end of an
iteration of the reconnection loop, at which client and event loop are dropped. `event`
is the last event sent, `told` (history) what the events said of the link, `accepted`
(history) what this client was handed with no error told since. rumqttc and the broker
are modelled from their use; the packet ids rumqttc gives, and what it does when two
requests in flight would have one, are left out.

### SerialBridge

The supervisor's loop is `supervisor`: opening the port, waiting a second, building the
`Hook`, `on_init`, watching, the check of `USER_EXIT` at the bottom. A session is reduced to what
crosses its border: the loop that is on or over, the command queue (messages in state
"queued"), the event channel, the waiters (messages from "waiting" on), the handle of
the port. A message is made, queued, sent, and resolved by a waiter that outlives the
session. `port[s]` is what the handle of session `s` still gives ("error" or the end
of the stream "eof"), and never comes back to life; `plugged` says whether a new handle can be
had. `Watch` aborts the tasks of the session: one that waits ends, one that runs the script's function
goes on ("hook") until it waits again; an event task in that place still takes the
events that are queued ("turn"). `--tick` is taken as given, and the monitor task, which only logs,
is left out. Ids count on without a wrap: `SerialTask` is about the wrap. An id that a
script gives a message itself (`to_msg` takes the map as it is) is outside this model too:
with one of those, or with a wrap, two sessions may have one id and `LateAckIgnored`
would not hold.

### JsTasks

`js` says who has the thread: a task keeps it from the poll that wakes it until it waits
again, its callbacks included, and the script has it otherwise (`Main`). A task goes
"new" → "turn" (inside a poll) → "waiting" or "calling" → "turn" again, or "ended". The
branches of `select!` are `Cancelled`, `Fires` and `Takes`; a branch that is ready
excludes `Waits`. The cancel oneshot is `cancel_tx` (in the cancel function) and
`cancel_rx`: "closed" when the script has thrown the function away, "disabled" when its
`Err` did not match `Ok(())` in the current `select!`, "completed" when the next `select!`
polls it again (`CancelRepolled`: it fails again or panics, by tokio's version), "gone"
when the task is through with it. The mutex is `guard` (the task that holds it) and `slot` (the
receiver is inside). `_cb` and `_cb_cancel` use `try_lock` and `take`; the plain reader
uses `lock`, which blocks the thread. A timer is modelled with a sleep that outlasts the
poll that makes it. tokio gives one poll of the runtime a budget (128 messages, sleeps and
oneshots together); when it is used up every branch says that it is not ready. `Yields` is
that, at any turn: the task gives up the thread with its cancellation unseen, and `cut`
(history) remembers those that had one. So the channel, which is unbounded in the code,
may deliver any number of messages: `MaxMsgs` bounds how many wait at a time.

### ReplRl

The blocking thread and the evaluator each have a program counter, the two channels a
count. A character is one of six kinds, a command at most `MaxText` of them.
`needs_more_input` is the code's scan, written as recursive functions over a
position; `AsksWhileOpen` compares it with a definition without a scan: brackets are counted
over the positions outside literals, and no prefix closes more than it opened. JavaScript tasks
that run while a command is evaluated are `JsTasks`' business, and so is what they print:
promise jobs and timers a command has started may print after the next prompt.
`PromptAfterOutput` is about the output of the command itself. An evaluation that is
interrupted replies like any other, so that `USER_EXIT` is never reset, and every long
evaluation after a Ctrl-C is interrupted, is not seen here.

## 3. Runs

| Run | Module | Bounds | Shows |
|---|---|---|---|
| `serial_session` | `SerialPromise` | 2 ids, 2 messages, 2 commands, 1 event, 1 damaged frame, hang-up | the safety properties, and that `SerialTask` implements `AckPromise` |
| `serial_live` | `SerialTask` | 1 id, 1 message sent twice, 1 damaged frame, hang-up | every waiter is resolved, the map is pruned, commands are taken, a failing port ends the loop |
| `serial_ack_status` | `SerialTask` | 1 command, both statuses | violation: the status is not returned |
| `codec` | `MCFramedCodec` | up to 3 pieces or 4 short frames, one damaged byte, all cuts, hang-up | cuts do not matter, frames arrive, nothing is forged, resynchronisation |
| `codec_held_back` | `MCFramedCodec` | as `codec`, no damage | violation: a full frame is held back |
| `crc16` | `Crc16Check` | 8 bytes, data up to 3 bytes | `crc16` is its definition |
| `mqtt` | `MqttTask` | channel of 2, 1 in flight, 3 requests and any number refused, 1 drop, 1 message | order, at most once, no request without a link, no loss in silence; reconnection and the end |
| `mqtt_broken_link` | `MqttTask` | channel of 1, 2 requests, 1 drop | violation: the task waits for itself |
| `js_tasks` | `MCJsTasks` | 2 readers of one channel, 1 timer, or a reader and an interval; 1 message waits at a time, any number come | the receiver is kept, cancels, late calls, Ctrl-C |
| `js_blocked` | `MCJsTasks` | as `js_tasks` | violation: a second `recv` blocks the thread |
| `repl` | `ReplRl` | lines of 3, commands of 6 characters, 2 commands | prompts, output, the end of either side |
| `serial_bridge` | `SerialBridge` | 2 sessions, 2 messages, 2 events, 1 failure | sessions that end and restart, late ACKs, Ctrl-C |

Why the bounds are enough. The id counter wraps in `serial_session`, since the second
id is the last. With two transmissions all pairs of events on one map entry occur: an
overwrite, an answer to the older one, an answer to the newer one, a late answer, an
answer that was sent although `framed.send` failed. Traffic of the codec runs has
the frame that is empty, the frame whose data is a newline (which looks like text) and
the frame whose data is a start; the reads cut it at every byte. A damaged byte is
replaced by 1 (a plausible length) and 170 (half a start). Three requests and a channel
of two make the channel overflow, and with one in flight `poll` has to wait for the
broker; one drop gives two connections, and interrupted dials any number of attempts. A
request is in the channel, in hand, in the buffer and on a broken link when commands come
or the link breaks. Refused requests are not counted, so commands can go on for ever.
In `js_tasks` two readers of one kind have every conflict over the mutex: the second is polled
before, while and after the first holds it, is cancelled, or throws; the kind matters
only pairwise, because a channel is registered under one function. Timers share only
the thread, which the pair of a timer and a reader is about; a callback runs any number of
times, and messages come without end. Six
characters hold a bracket inside a literal with an escaped quote, a newline inside a literal, and
a command of two lines. Two sessions around one failure have every overlap of an old
session with a new one; the theorems of section 4 say the rest.

Deadlock is checked except where the model stops: `crc16` at its bound, and the MQTT,
JavaScript, read-eval and supervisor runs, where the program may exit or wait for
itself. In `SerialTask` and `FramedCodec` the end is a step of its own (`Over`, `Quiet`).

### Fairness

- Waiters, and the loop inside a send, run when they can (weak fairness): the runtime
  polls ready tasks, and a write to the port returns.
- The branches of `select!` are strongly fair: `select!` polls its branches in
  random order, so one that is ready again and again is taken with probability one. In
  between the loop is inside a branch, so weak fairness would say nothing.
- The codec is called again after every item, and reads while there are bytes.
- `JsTasks`: a JavaScript callback returns, sleeps end, and a task that was woken is polled, though
  others are too (strong fairness, since the thread is taken in between). A turn after a
  turn ends (`Waits` or `Yields`), since the budget is finite: a reader whose messages
  always wait does not keep the thread. `select!` begins with a random branch, so its
  cancel branch is taken in the end. Script code gives up the thread when it awaits. The
  drain loop checks its condition again and again.
- `ReplRl`: the blocking thread and the evaluator go on when they can. A script may
  run for ever; nothing is assumed of the user.
- `SerialBridge`: the supervisor goes on, so the script's functions return when it calls them and
  its sleeps end; a loop whose port fails reads the error.
- `MqttTask`: a command, and the error of a broken link, are strongly fair branches of
  `select!`: the error is ready at each `poll` (a read fails at once, or the keep-alive
  timer, which outlives a dropped `poll`, has run out). A dial is not such a branch. It
  takes time, every command starts it over, and nothing makes it end while commands keep
  coming: `PollDial` and `PollConnAck` are weakly fair only, that is, they happen when the
  task is left alone long enough.
- Nothing is assumed of the device, the line, the port, the clients, the broker or of
  Ctrl-C. What a property needs of them it says: `Reconnects` that the broker stays
  reachable and that in the end no command is left to take, `Reopens` that the device
  stays plugged in.

### What the violations show

- `serial_ack_status`: the comment says "Return ACK status", the code sends `true`.
- `codec_held_back`: after a header `decode` returns `Ok(None)` without looking at the
  bytes it has, and `FramedRead` reads before it calls again. `MoreBytesRelease` says
  that the next byte releases the frame.
- `mqtt_broken_link`: `client.publish(..).await` is inside the `select!` arm; with ten
  requests in the channel the task waits for a `poll` it no longer runs. The liveness
  properties of `mqtt` except this state (`Blocked`).
- `js_blocked`: the comment says "Returns future when called"; the guard of the
  `std::sync::Mutex` lives across `recv().await`, and the second call's `lock()` blocks
  the only thread. The other properties of `JsTasks` count this as an end (`Stopped`).

More that a reader of the code may want to know, which contradicts no text of the
repository:

- A failed `poll` of the MQTT client is reported as `Error`, never as `Disconnected`, and
  the event does not say which requests the lost client held. `LossIsTold` is what is
  left: some event tells of the loss.
- Every command drops the handshake under way and is answered with "Not connected to
  broker"; the next turn dials from nothing. Commands that come faster than a handshake,
  a TCP and an MQTT round trip, keep the link down for as long as they come. This is in
  the model: a refused request between each `PollDial` and its `PollConnAck` is a fair
  behaviour of it, and without the premise that commands cease `Reconnects` is false.
- A request that `poll` has in hand when a command comes is lost and nobody is told: the
  exception in `NoSilentLoss`.
- The end of the stream on the serial port (`Ok(None)`) does not end the session: its loop
  spins and no new session is started. `Reopens` excepts it, and no property covers it.
- A reader registered right after another was cancelled from outside its callback may be
  refused, because the cancelled task still holds the lock. From inside it cannot
  (`SelfCancelIsFinal`), unless tokio's budget runs out before the task sees the cancel.
- `USER_EXIT` of `examples/mqtt_js.rs` is never reset. No property covers it.

## 4. Proofs

`SerialTaskProofs` proves, for every number of ids, transmissions, events and damaged
frames, from `ConstAssumption` alone:

- `TypeCorrect`: `Spec => []TypeOK`. It needs `Budget`: the loop makes no more
  transmissions than commands were submitted, and inside a send there is one.
- `MapOwnsSendersAlways`: `Spec => []MapOwnsSenders`.
- `AckSpentOnceAlways`: `Spec => []AckSpentOnce`.
- `AckNotMissedAlways`: `Spec => []AckNotMissed`.

The inductive invariant is `IInv`. `MapOwnsSenders` alone is not inductive: `SendOk`
could overwrite an entry of another id unless each entry is stored under the id of its
transmission (`MapSound`) and each live sender is found there (`MapComplete`); and the
transmission in progress must not have a sender yet (`Numbered`). `AckSpentOnce` needs
that the device answers a transmission once (`Unanswered`), that an answer still on the
line has been told to nobody (`OnLineFresh`) and is there once (`OnLineOnce`), since
`RecvAck` checks none of this. The proof that a step preserves a part has one case per
action that disturbs it; `OtherSteps` disposes of the rest.
`AckNotMissed` speaks of senders in the map. Its invariant `NotMissed` adds the transmission
whose `framed.send` has not returned: its ACK may be on the line already, and stays there
because the loop is inside the send and cannot read. The proof showed that a hypothesis
the property had, that no other transmission shares the id, was not needed; it is gone.

About the refinement it proves, from the same assumption:

- `ClosedOnlyIfSupersededAlways`: `Spec => []ClosedOnlyIfSuperseded`.
- `PromiseKeptAlways`: `Spec => PromiseKept`, that is, `SerialTask` implements
  `AckPromise` under the mapping of `SerialPromise`.

Both rest on `PInv`, which adds to `IInv` what the abstract guards ask for. `Credit`
forbids an answer for a superseded transmission: `HeldNewest` says that a sender still in
the map belongs to the newest registered transmission of its id. `Abandoned` asks for a
reason: `DroppedForReason` says that a sender dropped before its waiter gave up was
overwritten by a later transmission or dropped with the map. `Unmade` says that nothing
is known of later transmissions. The step part has one lemma per action that is visible
in `AckPromise`: `RecvCommand` is `Transmit`, `SendOk` is `Register`, `RecvClosed` and
`RecvError` are `End`, a delivered `RecvAck` is `Credit`, a waiter's step is `Acked`,
`Abandoned` or `TimedOut` (its expiry is invisible), `DeviceAck` is `Confirm`. Every
other step stutters, the tick and an answer that finds no receiver among them.

`SerialBridgeProofs` proves, for every number of sessions, messages, events and failures
(with more sessions than failures, so that the bound is not met):

- `BridgeTypeCorrect`: `Spec => []TypeOK`.
- `LateAckIgnoredAlways`: `Spec => []LateAckIgnored`.
- `OldSessionsWindDownAlways`: `Spec => []OldSessionsWindDown`.

Their inductive invariant has four parts beside. `Paid`: every session but one
whose port is still up has cost a failure, so `Open` finds room for the next. `Turns`: the supervisor is on its way to the next session only when the current one
is over and was aborted, or when it is about to exit; so only aborted sessions are
followed. `Quiet`: a task of an aborted session does not wait. `Counted`: the id of a message
is the number of messages made before it, so no two have one id, which is what
`LateAckIgnored` needs when an ACK crosses from one session to the next.

`FramedCodecProofs` proves, for every traffic, every damaged byte, every set of reads,
every `MAX_PAYLOAD_LEN` below 65536 and every function `checksum`:

- `CodecTyped`: `Spec => []TypeOK`.
- `CutsNeverMatter`: `Spec => []CutsDontMatter`.
- `FramesAlwaysArrive`: `Spec => []FramesArrive`.
- `AlwaysResync`: `Spec => []Resync`.
- `NeverForged`: `Spec => []NothingForged`, the one that uses `ChecksumAssumption`.

`ConstAssumption` asks of the traffic that frames are what `encode` accepts, with a
checksum of two bytes, and that text has no byte 0xAA. `CutsDontMatter` is not inductive:
when the device is unplugged the bytes it speaks of are gone. The invariant `Whole` says
the same for any bytes to come, and has `CutsDontMatter` as an instance. It is kept by
`Decode` because of `DecodeMeans`: whatever comes next, what a call of `decode` returns
and what it leaves stand for the items its state and buffer stood for. There is one lemma
per outcome: `FrameMeans` (a frame that is or is not all there), `HeaderMeans` (a header:
incomplete, beyond the limit, accepted), `StartMeans` (what is before a start is dropped:
`DropPrefix`), `LinesMean` (lines are dropped; no start can begin in one and go on after it,
because a newline is no byte of a start). `FramesArrive` follows with `FrameItems`, which
says that `decode` undoes `encode`, and `TextItems`, by induction over the pieces.

`Resync` and `NothingForged` speak of a damaged line. What they need beside `Whole` is
`AsSent`: the line is what was sent, with at most one byte replaced (`Line`), and the stream
is that line, or its beginning when the device was unplugged (`Arrives`). `Resync` rests on
position: an item that begins before the frames in question ends before the first of them,
since a length beyond the limit is refused, and from there on `Items` finds what was sent.
`NothingForged` goes through the items one by one. Each is the item of some header of the
stream (`ItemsStand`). If the wrong byte is in that header, it is `PassedByChance`. If not,
a frame was sent there (`StartFree`), and its data is the item's or differs in the one
wrong byte, which the checksum notices (`SentData`).

The induction. `Items` and `FlattenSeq` are recursive functions, which for the provers are
a CHOOSE. `ItemsSolves` and `FlattenSteps` show that the equation has a solution, put
together from solutions for shorter runs; `RecursiveHolds` does it once for every
definition that looks at places of a smaller measure only, and is used for the scan of
`ReplRl`. The induction theorems of the library take an
operator, which the provers cannot instantiate; `DataInduction` derives them for sets
of numbers from the well-foundedness of `<`.

`Crc16Proofs` proves, for data of any length and any bytes:

- `AlwaysCrc`: `Spec => []IsCrc`.
- `CrcSeesOneByte`: replacing one byte changes the checksum.
- `CrcIsU16`: it is less than 65536.

With the last two `crc16` is a `checksum` of which the theorems about the codec hold.
A shift of the register is invertible, because bit 0 of the divisor is set: bit 0 of
the result says whether the divisor was added (`ShiftOnce`). So a byte takes different
registers, and different bytes, to different registers (`CrcByteOnce`), and two runs that
have once parted on one byte never meet again. `AlwaysCrc` has as its invariant that the
register is the remainder of what was fed. Its step is three facts about the division:
what stays below x^16 passes through it (`RemainderPlus`), one more power of x is one shift
of the register (`RemainderTimes`), and one more byte is eight more powers of x and eight
bits (`MessageAppend`).

`MqttTaskProofs` proves, for every capacity of the request channel, every limit of
confirmed requests in flight, and any number of requests, lost links and messages:

- `TaskTyped`: `Spec => []TypeOK`.
- `ReceivedInOrder`: `Spec => []AtMostOnceInOrder`.
- `NothingQueuedEarly`: `Spec => []NothingQueuedBeforeConnAck`.
- `LossIsNeverSilent`: `Spec => []NoSilentLoss`.
- `LinkAnnouncedOnce`: `Spec => ConnectedOnce`, an action property.

`AtMostOnceInOrder` is about what the broker has; `Ordered` says of everything on the way
(broker, write buffer, the request in hand, request channel, command channel) that the
numbers rise along each and from one to the next. `Idle`: a client without a link holds
nothing, so a new client starts empty; its user was told that the last link is gone, and
nothing it was handed is owed to anybody; and `poll` has at most one request in hand,
which is what a command can cost. `NoSilentLoss` is then kept by every step that moves a
request to the next place, and by `PollErr`, which tells of the loss of all of them.

`JsTasksProofs` proves, for any number of timers and readers of any kinds, messages that
keep coming and any number of them waiting, with a budget that may run out in any turn:

- `TasksTyped`: `Spec => []TypeOK`.
- `ReceiverIsKept`: `Spec => []ReceiverKept`.
- `SelfCancelKeepsThread`: `Spec => []SelfCancelIsFinal`.
- `AtMostOneLateCall`: `Spec => []OneLateCall`.

They rest on who has the thread (`OnThread`: the one task inside a poll) and the lock
(`Holder`: the one reader past `lock` or `try_lock`). `Heard` is the reason for the
cancellation properties: a cancellation that succeeded stays in the oneshot until its
task sees it, is over, or is a timeout whose `select!` took the sleep. `LastCall` adds that a
task called after it was cancelled runs no further, because the next `select!` finds the
cancellation before another sleep has ended, or the budget has run out (`cut`), which the
two cancellation properties name as their exception.

`ReplRlProofs` proves, for any length of lines and commands and any number of them:

- `ReplTyped`: `Spec => []TypeOK`.
- `PromptsAfterOutput`: `Spec => []PromptAfterOutput`.
- `AsksOnlyWhileOpen`: `Spec => []AsksWhileOpen`.

`Turns` says where the one command is that reader and evaluator hand back and forth.
`AsksOnlyWhileOpen` is about an algorithm: `AsksIffUnfinished` says that the scan and its
definition agree for every text. The scan reads on from a character and `Inside` is
defined from the character before, so `ScansRight` goes by induction from the end and says
of each place outside a literal that the balance there is the depth; `SkipPast` is the same
for the scan inside a literal. Mixed brackets count alike, in the code and in `Depth`.

Every safety property and every action property of a passing run is a theorem; the type
invariant of `ReplRl` is a theorem only, and no run repeats it. Only
model-checked are the liveness properties (`EveryWaiterEnds`, `Reopens`,
`MoreBytesRelease` and the others that use `~>`), since fairness and ENABLED are out of the prover's reach, and what the runs that end in a
violation show, which is a behaviour and not a theorem.

## 5. Not modelled

- `src/hook.rs`: the conversions of addresses, blobs and maps; they have no state.
- `src/rquickjs_util.rs`: `register_tx_channel` and `register_oneshot` (one send each),
  `sleep`, printing and JSON, `run_module` and `call_fn`. The plain `repl`, which
  nothing in the crate calls and which does not notice the end of its input.
- `examples/cancel.rs` repeats the timers and the drain loop of the library;
  `echo.rs` and `now-api.rs` are `select!` loops without state; `mqtt.rs` has the shape of the
  supervisor around a single MQTT task, but queues `Disconnect` and returns without
  waiting for it.
- Builders and conversions in `src/mqtt_types.rs`. Its `reconnect_*` settings are never
  read.
- `FrameHeader::new`, which nothing calls; it writes the length in big endian, where the
  encoder and the decoder use little endian.
- The payload of messages: `Msg::from_slice` accepts or rejects a frame.
- A buffer that grows because no newline and no start arrives.

## 6. Plan

Done: session, codec, checksum and MQTT task; supervisor, JavaScript tasks and
read-eval loop. What is left, in order of importance:

1. A refinement of `SerialBridge`'s sessions by `SerialTask`: the states of a message
   against `waiting_ack`, `tx` and `waiter`.
2. `examples/mqtt.rs`: Ctrl-C against the MQTT task's disconnect.
