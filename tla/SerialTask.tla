----------------------------- MODULE SerialTask -----------------------------
(***************************************************************************)
(* One session of SerialTask::start (src/serial_task.rs): the select! loop *)
(* that owns the serial line and the waiting_ack map, the tasks send_msg   *)
(* spawns to wait for each ACK, the clients that put messages on the       *)
(* command channel, and the ESP device at the other end of the line.       *)
(*                                                                         *)
(* Frames are whole messages here; module FramedCodec models the bytes.    *)
(* Transmission t is the t-th command the loop took from the channel.  Its *)
(* number is a name of the model; the program only knows the message id.   *)
(***************************************************************************)
EXTENDS Integers, Sequences

CONSTANTS
  IdMod,       (* MSG_ID wraps at this value: 2^32 in the code (AtomicU32)  *)
  MaxBuilt,    (* bound: how many times next_id is called                   *)
  MaxSends,    (* bound: how many commands the clients submit               *)
  MaxEvents,   (* bound: how many frames the device sends unasked           *)
  MaxDamaged,  (* bound: how many frames the line loses or damages          *)
  Statuses,    (* the delivery statuses the device's ACKs may report        *)
  MayHangUp    (* may the line fail, or every command sender be dropped?    *)

ASSUME ConstAssumption ==
  /\ IdMod \in Nat \ {0}
  /\ MaxBuilt \in Nat /\ MaxSends \in Nat
  /\ MaxEvents \in Nat /\ MaxDamaged \in Nat
  /\ Statuses \subseteq BOOLEAN
  /\ MayHangUp \in BOOLEAN

Ids == 0 .. IdMod - 1
Transmissions == 1 .. MaxSends
NoTx == 0                            \* a key waiting_ack does not hold
NoId == -1
NoReply == [of |-> NoTx, value |-> FALSE, status |-> FALSE]

VARIABLES
  MSG_ID,      (* the static message counter                                *)
  built,       (* ids of the messages the clients hold                      *)
  nBuilt,      (* calls of next_id so far                                   *)
  submitted,   (* ids of the messages submitted at least once               *)
  senders,     (* TRUE while some command_tx is alive                       *)
  command_rx,  (* the command channel: ids of the queued messages           *)
  nQueued,     (* commands submitted so far                                 *)
  pc,          (* the loop: at "select", inside "sending", or "done"        *)
  nSent,       (* transmissions so far                                      *)
  idOf,        (* id of the message of each transmission                    *)
  waiting_ack, (* the HashMap: id -> transmission whose sender it holds     *)
  tx,          (* the oneshot sender of each transmission                   *)
  waiter,      (* the task send_msg spawned for it                          *)
  reply,       (* what tx.send delivered to it, and (history) for which ack *)
  event_rx,    (* the event channel                                         *)
  monitor,     (* the value of the watch channel                            *)
  air,         (* transmissions the device has received and not answered    *)
  answered,    (* transmissions the device has answered (history)           *)
  line,        (* frames on their way from the device                       *)
  port,        (* "up", "eof" or "error": what reading the line returns     *)
  nEvents,     (* frames the device sent unasked so far                     *)
  nDamaged     (* frames lost or damaged so far                             *)

clientVars == <<MSG_ID, built, nBuilt, submitted, senders, nQueued>>
ackVars    == <<waiting_ack, tx, waiter, reply>>
deviceVars == <<air, answered, port, nEvents, nDamaged>>
vars == <<clientVars, command_rx, pc, nSent, idOf, ackVars, event_rx, monitor,
          deviceVars, line>>

Quiet == [kind |-> "none"]           \* the watch channel's initial None
AckFrame(t, s) == [kind |-> "ack", of |-> t, status |-> s]
EventFrame(n)  == [kind |-> "event", n |-> n]
BadMsg   == [kind |-> "badmsg"]      \* a frame that Msg::from_slice rejects
BadFrame == [kind |-> "badframe"]    \* a frame the codec rejects
TxShown(t) == [kind |-> "tx", of |-> t]
TxError    == [kind |-> "txerror"]

Init ==
  /\ MSG_ID = 0 /\ built = {} /\ nBuilt = 0 /\ submitted = {}
  /\ senders = TRUE /\ command_rx = <<>> /\ nQueued = 0
  /\ pc = "select" /\ nSent = 0
  /\ idOf = [t \in Transmissions |-> NoId]
  /\ waiting_ack = [i \in Ids |-> NoTx]
  /\ tx = [t \in Transmissions |-> "none"]
  /\ waiter = [t \in Transmissions |-> "none"]
  /\ reply = [t \in Transmissions |-> NoReply]
  /\ event_rx = <<>> /\ monitor = Quiet
  /\ air = {} /\ answered = {} /\ line = <<>> /\ port = "up"
  /\ nEvents = 0 /\ nDamaged = 0

-----------------------------------------------------------------------------
(* The clients: Hook's script functions, on the event and the timer task.  *)

\* MSG_ID.fetch_add(1)
fetch_add_nowrap == MSG_ID + 1   \* mutant: a wider counter
fetch_add == (MSG_ID + 1) % IdMod

\* new_txdata, new_broadcast: next_id() is the only place an id comes from.
next_id ==
  /\ nBuilt < MaxBuilt
  /\ MSG_ID' = fetch_add
  /\ built' = built \cup {MSG_ID}
  /\ nBuilt' = nBuilt + 1
  /\ submitted' = submitted \ {MSG_ID}
  /\ UNCHANGED <<senders, nQueued, command_rx, pc, nSent, idOf, ackVars,
                 event_rx, monitor, deviceVars, line>>

\* The script function command_tx(msg) clones the message, so a script that
\* keeps msg can send it again.  After the loop has ended send only fails.
command_tx(i) ==
  /\ i \in built
  /\ senders /\ pc # "done" /\ nQueued < MaxSends
  /\ command_rx' = Append(command_rx, i)
  /\ nQueued' = nQueued + 1
  /\ submitted' = submitted \cup {i}
  /\ UNCHANGED <<MSG_ID, built, nBuilt, senders, pc, nSent, idOf, ackVars,
                 event_rx, monitor, deviceVars, line>>

DropSenders ==
  /\ MayHangUp /\ senders
  /\ senders' = FALSE
  /\ UNCHANGED <<MSG_ID, built, nBuilt, submitted, nQueued, command_rx,
                 pc, nSent, idOf, ackVars, event_rx, monitor, deviceVars, line>>

\* The event task takes a message and runs on_event; what the script then
\* submits is a command_tx step of its own.
TakeEvent ==
  /\ event_rx # <<>>
  /\ event_rx' = Tail(event_rx)
  /\ UNCHANGED <<clientVars, command_rx, pc, nSent, idOf, ackVars, monitor,
                 deviceVars, line>>

-----------------------------------------------------------------------------
(* The loop.                                                               *)

\* The loop is back at select!: it is not inside the send of a command.
Selecting_always == pc # "done"             \* mutant: the send in a task of its own
Selecting        == pc = "select"

\* Leaving the loop drops the map, and with it every sender it still holds,
\* and the receiver of the command channel.
End ==
  /\ pc' = "done"
  /\ command_rx' = <<>>
  /\ waiting_ack' = [i \in Ids |-> NoTx]
  /\ tx' = [t \in Transmissions |-> IF tx[t] = "held" THEN "dropped" ELSE tx[t]]

\* command_rx.recv() returned a message: send_msg encodes it and awaits
\* framed.send.  The device may have the frame before that await returns.
RecvCommand(reaches) ==
  /\ Selecting /\ command_rx # <<>>
  /\ pc' = "sending"
  /\ nSent' = nSent + 1
  /\ idOf' = [idOf EXCEPT ![nSent + 1] = Head(command_rx)]
  /\ command_rx' = Tail(command_rx)
  /\ air' = IF reaches THEN air \cup {nSent + 1} ELSE air
  /\ UNCHANGED <<clientVars, ackVars, event_rx, monitor, answered, port,
                 nEvents, nDamaged, line>>

\* framed.send succeeded: the waiter is spawned, its sender goes into the map
\* (dropping the sender of an older message with the same id) and the monitor
\* shows the message.
SendOk ==
  LET old == waiting_ack[idOf[nSent]]
  IN
  /\ pc = "sending"
  /\ pc' = "select"
  /\ waiting_ack' = [waiting_ack EXCEPT ![idOf[nSent]] = nSent]
  /\ tx' = [t \in Transmissions |->
              IF t = nSent THEN "held" ELSE IF t = old THEN "dropped" ELSE tx[t]]
  /\ waiter' = [waiter EXCEPT ![nSent] = "waiting"]
  /\ monitor' = TxShown(nSent)
  /\ UNCHANGED <<clientVars, command_rx, nSent, idOf, reply, event_rx,
                 deviceVars, line>>

\* Encoding or framed.send failed; the frame may have left all the same.
SendErr ==
  /\ pc = "sending"
  /\ pc' = "select"
  /\ monitor' = TxError
  /\ UNCHANGED <<clientVars, command_rx, nSent, idOf, ackVars, event_rx,
                 deviceVars, line>>

\* command_rx.recv() returned None.
RecvClosed ==
  /\ Selecting /\ command_rx = <<>> /\ ~senders
  /\ End
  /\ UNCHANGED <<clientVars, nSent, idOf, waiter, reply, event_rx, monitor,
                 deviceVars, line>>

\* An ACK: its rx_id selects the sender.  tx.send(true) fails when the waiter
\* has dropped its receiver; it consumes the sender either way.
RxOpen(t) == waiter[t] \in {"waiting", "expired"}

\* waiting_ack.remove(&ack.rx_id): the transmission found and the map after it.
Found_oldest(ack) ==                        \* mutant: answers are taken in turn
  IF \E t \in Transmissions : tx[t] = "held"
    THEN CHOOSE t \in Transmissions : tx[t] = "held" ELSE NoTx
Found(ack)        == waiting_ack[idOf[ack.of]]
Removed_get(ack)  == waiting_ack            \* mutant: get, not remove
Removed(ack)      == [waiting_ack EXCEPT ![idOf[ack.of]] = NoTx]

RecvAck ==
  LET ack == Head(line)
      t   == Found(ack)
  IN
  /\ Selecting /\ line # <<>> /\ ack.kind = "ack"
  /\ line' = Tail(line)
  /\ monitor' = ack
  /\ \/ /\ t # NoTx /\ RxOpen(t)
        /\ tx' = [tx EXCEPT ![t] = "sent"]
        /\ reply' = [reply EXCEPT
                       ![t] = [of |-> ack.of, value |-> TRUE, status |-> ack.status]]
     \/ /\ t # NoTx /\ ~RxOpen(t)
        /\ tx' = [tx EXCEPT ![t] = "dropped"]
        /\ UNCHANGED reply
     \/ /\ t = NoTx
        /\ UNCHANGED <<tx, reply>>
  /\ waiting_ack' = Removed(ack)
  /\ UNCHANGED <<clientVars, command_rx, pc, nSent, idOf, waiter, event_rx,
                 deviceVars>>

\* Any other message goes to the event queue; a frame that is no message only
\* to the monitor; a frame the codec rejected is only logged.
RecvOther ==
  LET f == Head(line)
  IN
  /\ Selecting /\ line # <<>> /\ f.kind # "ack"
  /\ line' = Tail(line)
  /\ monitor' = IF f.kind = "badframe" THEN monitor ELSE f
  /\ event_rx' = IF f.kind = "event" THEN Append(event_rx, f.n) ELSE event_rx
  /\ UNCHANGED <<clientVars, command_rx, pc, nSent, idOf, ackVars, deviceVars>>

\* framed.try_next() returned Ok(None), the end of the stream: the arm is
\* empty and the loop selects again.
RecvEof ==
  /\ Selecting /\ line = <<>> /\ port = "eof"
  /\ UNCHANGED vars

\* framed.try_next() returned Err: the only error that leaves the loop.
RecvError_continue ==                       \* mutant: no break
  /\ Selecting /\ line = <<>> /\ port = "error"
  /\ UNCHANGED vars

RecvError ==
  /\ Selecting /\ line = <<>> /\ port = "error"
  /\ End
  /\ UNCHANGED <<clientVars, nSent, idOf, waiter, reply, event_rx, monitor,
                 deviceVars, line>>

\* ticker.tick(): drop the senders whose receiver is closed.
is_closed_never(t) == FALSE                 \* mutant: nothing is pruned
is_closed_early(t) == waiter[t] \in {"waiting", "timeout"}   \* mutant: live ones too
is_closed(t)       == waiter[t] = "timeout"

Tick ==
  LET expired == {t \in Transmissions : is_closed(t)}
  IN
  /\ Selecting
  /\ waiting_ack' = [i \in Ids |-> IF waiting_ack[i] \in expired
                                     THEN NoTx ELSE waiting_ack[i]]
  /\ tx' = [t \in Transmissions |-> IF t \in expired /\ tx[t] = "held"
                                     THEN "dropped" ELSE tx[t]]
  /\ UNCHANGED <<clientVars, command_rx, pc, nSent, idOf, waiter, reply,
                 event_rx, monitor, deviceVars, line>>

-----------------------------------------------------------------------------
(* The waiters.  timeout(timeout_secs, rx) polls rx before its deadline, so *)
(* it expires only while the channel is empty and its sender alive.  The    *)
(* receiver is dropped after that poll has returned: an ACK the loop        *)
(* handles in between, on another thread, still finds it open.              *)

WaiterStep(t, from, to) ==
  /\ waiter[t] = from
  /\ waiter' = [waiter EXCEPT ![t] = to]
  /\ UNCHANGED <<clientVars, command_rx, pc, nSent, idOf, waiting_ack, tx,
                 reply, event_rx, monitor, deviceVars, line>>

WaiterAcked(t)   == tx[t] = "sent" /\ WaiterStep(t, "waiting", "acked")
WaiterClosed(t)  == tx[t] = "dropped" /\ WaiterStep(t, "waiting", "closed")
WaiterExpires_never(t) == FALSE             \* mutant: no timeout
WaiterExpires_first(t) ==                   \* mutant: the deadline is polled first
  WaiterStep(t, "waiting", "expired")
WaiterExpires(t) == tx[t] = "held" /\ WaiterStep(t, "waiting", "expired")
WaiterTimeout(t) == WaiterStep(t, "expired", "timeout")

WaiterRuns(t) ==
  WaiterAcked(t) \/ WaiterClosed(t) \/ WaiterExpires(t) \/ WaiterTimeout(t)

-----------------------------------------------------------------------------
(* The device and the line (outside the repository).                        *)

DeviceAck(t, s) ==
  /\ t \in air /\ port = "up"
  /\ air' = air \ {t}
  /\ answered' = answered \cup {t}
  /\ line' = Append(line, AckFrame(t, s))
  /\ UNCHANGED <<clientVars, command_rx, pc, nSent, idOf, ackVars, event_rx,
                 monitor, port, nEvents, nDamaged>>

DeviceEvent ==
  /\ port = "up" /\ nEvents < MaxEvents
  /\ nEvents' = nEvents + 1
  /\ line' = Append(line, EventFrame(nEvents + 1))
  /\ UNCHANGED <<clientVars, command_rx, pc, nSent, idOf, ackVars, event_rx,
                 monitor, air, answered, port, nDamaged>>

\* A frame from the device is lost, fails the codec's check, or is a frame
\* that is no message.
LineDamage ==
  /\ line # <<>> /\ nDamaged < MaxDamaged
  /\ nDamaged' = nDamaged + 1
  /\ \/ line' = Tail(line)
     \/ \E bad \in {BadFrame, BadMsg} : line' = <<bad>> \o Tail(line)
  /\ UNCHANGED <<clientVars, command_rx, pc, nSent, idOf, ackVars, event_rx,
                 monitor, air, answered, port, nEvents>>

\* The port is unplugged: reading it returns an error, or the end of the
\* stream.  (The codec turns an end of stream inside a frame into an error.)
HangUp(how) ==
  /\ MayHangUp /\ port = "up"
  /\ port' = how
  /\ UNCHANGED <<clientVars, command_rx, pc, nSent, idOf, ackVars, event_rx,
                 monitor, air, answered, nEvents, nDamaged, line>>

-----------------------------------------------------------------------------
Client == next_id \/ (\E i \in Ids : command_tx(i)) \/ DropSenders \/ TakeEvent

Loop ==
  \/ \E reaches \in BOOLEAN : RecvCommand(reaches)
  \/ SendOk \/ SendErr \/ RecvClosed
  \/ RecvAck \/ RecvOther \/ RecvEof \/ RecvError
  \/ Tick

Waiter == \E t \in Transmissions : WaiterRuns(t)

Device ==
  \/ \E t \in Transmissions, s \in Statuses : DeviceAck(t, s)
  \/ DeviceEvent \/ LineDamage
  \/ \E how \in {"eof", "error"} : HangUp(how)

\* The session is over and nothing is left to run.
Over ==
  /\ pc = "done" /\ event_rx = <<>>
  /\ \A t \in Transmissions : ~RxOpen(t)
  /\ UNCHANGED vars

Next == Client \/ Loop \/ Waiter \/ Device \/ Over

Spec == Init /\ [][Next]_vars

(* The runtime polls every ready task.  select! picks at random among the   *)
(* ready branches, so a branch that is ready again and again is taken: that *)
(* is strong fairness, since the loop passes through "sending" in between.  *)
(* Nothing is assumed of the clients that submit, of the device or of the   *)
(* line.                                                                    *)
Fairness ==
  /\ WF_vars(SendOk \/ SendErr)
  /\ SF_vars(\E reaches \in BOOLEAN : RecvCommand(reaches))
  /\ SF_vars(RecvClosed)
  /\ SF_vars(RecvAck \/ RecvOther)
  /\ SF_vars(RecvError)
  /\ SF_vars(Tick)
  /\ WF_vars(TakeEvent)
  /\ \A t \in Transmissions : WF_vars(WaiterRuns(t))

FairSpec == Spec /\ Fairness

-----------------------------------------------------------------------------
Frames ==
  [kind : {"ack"}, of : Transmissions, status : BOOLEAN]
    \cup [kind : {"event"}, n : 1 .. MaxEvents] \cup {BadMsg, BadFrame}

\* Every variable keeps its type.
TypeOK ==
  /\ MSG_ID \in Ids /\ built \subseteq Ids /\ nBuilt \in 0 .. MaxBuilt
  /\ submitted \subseteq Ids /\ senders \in BOOLEAN
  /\ command_rx \in Seq(Ids) /\ nQueued \in 0 .. MaxSends
  /\ pc \in {"select", "sending", "done"} /\ nSent \in 0 .. MaxSends
  /\ idOf \in [Transmissions -> Ids \cup {NoId}]
  /\ waiting_ack \in [Ids -> Transmissions \cup {NoTx}]
  /\ tx \in [Transmissions -> {"none", "held", "sent", "dropped"}]
  /\ waiter \in [Transmissions ->
                   {"none", "waiting", "expired", "timeout", "acked", "closed"}]
  /\ reply \in [Transmissions ->
                  [of : Transmissions \cup {NoTx}, value : BOOLEAN, status : BOOLEAN]]
  /\ event_rx \in Seq(1 .. MaxEvents)
  /\ monitor \in Frames \cup [kind : {"tx"}, of : Transmissions] \cup {Quiet, TxError}
  /\ air \subseteq Transmissions /\ answered \subseteq Transmissions
  /\ line \in Seq(Frames) /\ port \in {"up", "eof", "error"}
  /\ nEvents \in 0 .. MaxEvents /\ nDamaged \in 0 .. MaxDamaged

\* The map owns exactly the live senders: insert, remove, the overwrite of a
\* key that is still waited for, the prune of the tick and the end of the loop
\* together neither leak a sender nor lose one.  So a waiter that can still be
\* told something can be found under the id of its message.
MapOwnsSenders ==
  \A t \in Transmissions :
    tx[t] = "held" <=> \E i \in Ids : waiting_ack[i] = t /\ idOf[t] = i

\* An ACK is spent at most once: a waiter that was told something was told so
\* for an answer of the device to a message with its own id, and no two
\* waiters for the same answer, even when a message is sent twice or the
\* answer is handled after framed.send reported an error.
AckSpentOnce ==
  \A t \in Transmissions : tx[t] = "sent" =>
    /\ reply[t].of \in answered
    /\ idOf[reply[t].of] = idOf[t]
    /\ \A u \in Transmissions \ {t} : tx[u] = "sent" => reply[u].of # reply[t].of

\* An answer is not missed because it was quicker than the loop: while the map
\* waits for a transmission and the line is undamaged, the device has not answered
\* it or its ACK is still to be read, also when it answers before framed.send has
\* returned and when other messages share the id.
AckNotMissed ==
  \A t \in answered :
    tx[t] = "held" /\ nDamaged = 0
      => \E k \in 1 .. Len(line) : line[k].kind = "ack" /\ line[k].of = t

\* A waiter loses its sender without being told only because the same message
\* was sent again or the loop has ended; never to the tick, which removes
\* entries while waiters are on the point of giving up.
ClosedOnlyIfSuperseded ==
  \A t \in Transmissions : waiter[t] = "closed" =>
    pc = "done" \/ \E u \in t + 1 .. nSent : idOf[u] = idOf[t] /\ waiter[u] # "none"

\* What the comment on the ACK arm says (serial_task.rs:87, "Return ACK
\* status"): the value a waiter is told is the status the device reported.
AckStatusReturned ==
  \A t \in Transmissions : waiter[t] = "acked" => reply[t].value = reply[t].status

\* An ACK handled before its waiter's deadline wins: that waiter ends "acked".
PromptAckWins ==
  \A t \in Transmissions :
    (tx[t] = "sent" /\ waiter[t] = "waiting") ~> (waiter[t] = "acked")

\* Every entry whose waiter has given up leaves the map.
ExpiredPruned ==
  \A t \in Transmissions :
    (waiter[t] = "timeout") ~> (\A i \in Ids : waiting_ack[i] # t)

\* Every transmission that was accepted is resolved for the task that waits
\* for it, whatever the device, the line and the loop do.
EveryWaiterEnds ==
  \A t \in Transmissions :
    (waiter[t] = "waiting") ~> (waiter[t] \in {"acked", "closed", "timeout"})

\* A queued command does not stay queued, and a failing port ends the loop,
\* which is how the program learns that it must open the port again.
LoopServes ==
  /\ (command_rx # <<>>) ~> (command_rx = <<>>)
  /\ (port = "error") ~> (pc = "done")
=============================================================================
