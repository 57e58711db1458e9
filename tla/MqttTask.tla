------------------------------ MODULE MqttTask ------------------------------
(***************************************************************************)
(* MqttTask (src/mqtt_task.rs): the task that owns the command channel and *)
(* runs one connection after the other, with the rumqttc client it drives  *)
(* and the broker.  Each connection makes a new AsyncClient and EventLoop; *)
(* their request channel is bounded and only EventLoop::poll empties it.   *)
(*                                                                         *)
(* A request is a publish, subscribe or unsubscribe: the three arms differ *)
(* in nothing but the call.  Requests are numbered in the order they were  *)
(* submitted; a confirmed one (QoS above 0) counts as in flight until the  *)
(* broker acknowledges it.                                                 *)
(*                                                                         *)
(* poll takes a request from the channel, waits until the write buffer has *)
(* room for it, and flushes the buffer.  It may wait at each of the three, *)
(* and select! drops it there when a command comes: the request in hand is *)
(* then lost, what is in the buffer waits for the next flush.              *)
(***************************************************************************)
EXTENDS Integers, Sequences, SequencesExt

CONSTANTS
  Capacity,      (* of the request channel: 10 in the code                  *)
  MaxInflight,   (* rumqttc stops taking requests at this many: 100         *)
  MaxRequests,   (* bound: requests submitted and not refused               *)
  MaxMessages,   (* bound: messages the broker sends on subscribed topics   *)
  MaxDrops,      (* bound: links the broker drops and dials it refuses      *)
  MayStop        (* may Disconnect be sent, or every command_tx dropped?    *)

ASSUME ConstAssumption ==
  /\ Capacity \in Nat \ {0} /\ MaxInflight \in Nat \ {0}
  /\ MaxRequests \in Nat /\ MaxMessages \in Nat /\ MaxDrops \in Nat
  /\ MayStop \in BOOLEAN

Numbers == 1 .. MaxRequests
Nobody == 0
Disconnect == [n |-> Nobody, confirmed |-> FALSE]   \* the command

VARIABLES
  senders,    (* TRUE while some command_tx is alive                        *)
  command_rx, (* the command channel: requests and Disconnect               *)
  nRequests,  (* the number of the last request submitted                   *)
  pc,         (* "select", "requesting", "delay" or "stopped"               *)
  connected,  (* the flag of run_connection                                 *)
  link,       (* the event loop: "none", "dialing", "up" or "broken"        *)
  requests,   (* the client's request channel                               *)
  writing,    (* the request poll has in hand, at most one                  *)
  unsent,     (* written by poll and not flushed                            *)
  inflight,   (* confirmed requests poll has taken, not acknowledged        *)
  event,      (* the last event sent on the event channel                  *)
  told,       (* what the events have said of the link (history)           *)
  broker,     (* TRUE while the broker accepts connections                  *)
  incoming,   (* packets from the broker not yet polled                     *)
  received,   (* requests the broker has received                           *)
  accepted,   (* requests handed to the client, no error told since         *)
  cut,        (* those of them that a command cut in hand (both history)    *)
  nMessages, nDrops

chanVars   == <<senders, command_rx, nRequests>>
clientVars == <<link, requests, writing, unsent, inflight>>
histVars   == <<accepted, cut>>
brokerVars == <<broker, incoming, received, nMessages, nDrops>>
userVars   == <<event, told>>
vars == <<chanVars, pc, connected, clientVars, userVars, histVars,
          brokerVars>>

Request(n, c) == [n |-> n, confirmed |-> c]
Packet(type, n) == [type |-> type, n |-> n]
NumbersIn(s) == {s[i].n : i \in DOMAIN s}

Init ==
  /\ senders = TRUE /\ command_rx = <<>> /\ nRequests = 0
  /\ pc = "select" /\ connected = FALSE
  /\ link = "none" /\ requests = <<>> /\ writing = <<>> /\ unsent = <<>>
  /\ inflight = {} /\ event = "none" /\ told = "nothing"
  /\ broker \in BOOLEAN /\ incoming = <<>> /\ received = <<>>
  /\ accepted = {} /\ cut = {} /\ nMessages = 0 /\ nDrops = 0

-----------------------------------------------------------------------------
(* The users of the channels.                                               *)

Submit(c) ==
  /\ senders /\ pc # "stopped" /\ nRequests < MaxRequests
  /\ nRequests' = nRequests + 1
  /\ command_rx' = Append(command_rx, Request(nRequests + 1, c))
  /\ UNCHANGED <<senders, pc, connected, clientVars, userVars, histVars, brokerVars>>

SubmitDisconnect ==
  /\ MayStop /\ senders /\ pc # "stopped" /\ ~Contains(command_rx, Disconnect)
  /\ command_rx' = Append(command_rx, Disconnect)
  /\ UNCHANGED <<senders, nRequests, pc, connected, clientVars, userVars, histVars, brokerVars>>

DropSenders ==
  /\ MayStop /\ senders
  /\ senders' = FALSE
  /\ UNCHANGED <<command_rx, nRequests, pc, connected, clientVars,
                 userVars, histVars, brokerVars>>

-----------------------------------------------------------------------------
(* The command branch of select!.  Taking it drops the future of poll: a    *)
(* link that was being dialed is given up, one that is up is kept, and so   *)
(* is what was written; the request in hand goes.                           *)

Undialed_always == "none"         \* mutant: a link that is up is dropped too
Undialed == IF link = "dialing" THEN "none" ELSE link

HasRoom_always == TRUE            \* mutant: the channel is not bounded
HasRoom == Len(requests) < Capacity

AwaitRoom_try(cmd) ==             \* mutant: try_publish, its error ignored
  /\ connected /\ ~HasRoom
  /\ accepted' = accepted \cup {cmd.n}
  /\ UNCHANGED <<nRequests, pc, requests, userVars>>

\* client.publish, .subscribe or .unsubscribe awaits room in the channel,
AwaitRoom(cmd) ==
  /\ connected /\ ~HasRoom
  /\ pc' = "requesting"
  /\ UNCHANGED <<nRequests, requests, accepted, userVars>>

\* hands the request over,
HandOver(cmd) ==
  /\ connected /\ HasRoom
  /\ requests' = Append(requests, cmd)
  /\ accepted' = accepted \cup {cmd.n}
  /\ UNCHANGED <<nRequests, pc, userVars>>

\* or refuses a topic it finds invalid; without a link the task refuses.  The
\* last request gives its number back, so that users may go on for ever.
Refuse(cmd) ==
  /\ event' = IF connected THEN "Failed" ELSE "NotConnected"
  /\ nRequests' = IF cmd.n = nRequests THEN nRequests - 1 ELSE nRequests
  /\ UNCHANGED <<pc, requests, accepted, told>>

RecvRequest ==
  LET cmd == Head(command_rx)
  IN
  /\ pc = "select" /\ command_rx # <<>> /\ cmd # Disconnect
  /\ command_rx' = Tail(command_rx)
  /\ link' = Undialed
  /\ writing' = <<>> /\ cut' = cut \cup NumbersIn(writing)
  /\ AwaitRoom(cmd) \/ HandOver(cmd) \/ Refuse(cmd)
  /\ UNCHANGED <<senders, connected, unsent, inflight, brokerVars>>

\* run_connection is left: the client, its event loop and what they hold go.
Leave_connected(next) ==          \* mutant: the flag outlives the connection
  /\ pc' = next /\ connected' = connected
  /\ link' = "none" /\ requests' = <<>> /\ writing' = <<>> /\ unsent' = <<>>
  /\ inflight' = {} /\ incoming' = <<>>

Leave(next) ==
  /\ pc' = next /\ connected' = FALSE
  /\ link' = "none" /\ requests' = <<>> /\ writing' = <<>> /\ unsent' = <<>>
  /\ inflight' = {} /\ incoming' = <<>>

RecvDisconnect_true ==            \* mutant: returns true
  /\ pc = "select" /\ command_rx # <<>> /\ Head(command_rx) = Disconnect
  /\ Leave("delay")
  /\ command_rx' = Tail(command_rx)
  /\ UNCHANGED <<senders, nRequests, userVars, histVars, broker, received,
                 nMessages, nDrops>>

RecvDisconnect ==
  /\ pc = "select" /\ command_rx # <<>> /\ Head(command_rx) = Disconnect
  /\ Leave("stopped")
  /\ command_rx' = <<>>
  /\ UNCHANGED <<senders, nRequests, userVars, histVars, broker, received,
                 nMessages, nDrops>>

RecvClosed ==
  /\ pc = "select" /\ command_rx = <<>> /\ ~senders
  /\ Leave("stopped")
  /\ UNCHANGED <<chanVars, userVars, histVars, broker, received, nMessages,
                 nDrops>>

-----------------------------------------------------------------------------
(* The other branch: EventLoop::poll (rumqttc) and what the task does with  *)
(* what it returns.                                                         *)

\* Without a link poll dials, and dials again after it was dropped.
PollDial ==
  /\ pc = "select" /\ link = "none"
  /\ link' = "dialing"
  /\ UNCHANGED <<chanVars, pc, connected, requests, writing, unsent, inflight,
                 userVars, histVars, brokerVars>>

PollConnAck ==
  /\ pc = "select" /\ link = "dialing" /\ broker
  /\ link' = "up" /\ connected' = TRUE
  /\ event' = "Connected" /\ told' = "Connected"
  /\ UNCHANGED <<chanVars, pc, requests, writing, unsent, inflight, histVars,
                 brokerVars>>

\* poll reads when it has no request in hand.
Reading == pc = "select" /\ link \in {"up", "broken"} /\ writing = <<>>

PollIncoming ==
  /\ Reading /\ incoming # <<>>
  /\ incoming' = Tail(incoming)
  /\ \/ /\ Head(incoming).type = "Publish"
        /\ event' = "MessageReceived"
        /\ UNCHANGED <<told, connected, inflight>>
     \/ /\ Head(incoming).type = "Disconnect"
        /\ connected' = FALSE
        /\ event' = "Disconnected" /\ told' = "Disconnected"
        /\ UNCHANGED inflight
     \/ /\ Head(incoming).type = "PubAck"
        /\ inflight' = inflight \ {Head(incoming).n}
        /\ UNCHANGED <<connected, userVars>>
  /\ UNCHANGED <<chanVars, pc, link, requests, writing, unsent, histVars,
                 broker, received, nMessages, nDrops>>

Untaken_peek == requests          \* mutant: the request stays in the channel
Untaken == Tail(requests)
MayTake == Cardinality(inflight) < MaxInflight

\* poll takes a request from the channel; a confirmed one counts from here.
PollTake ==
  /\ Reading /\ requests # <<>> /\ MayTake
  /\ requests' = Untaken
  /\ writing' = <<Head(requests)>>
  /\ inflight' = IF Head(requests).confirmed THEN inflight \cup {Head(requests).n}
                                             ELSE inflight
  /\ UNCHANGED <<chanVars, pc, connected, link, unsent, userVars, histVars,
                 brokerVars>>

\* The write buffer has room.
PollWrite ==
  /\ pc = "select" /\ writing # <<>>
  /\ writing' = <<>> /\ unsent' = Append(unsent, Head(writing))
  /\ UNCHANGED <<chanVars, pc, connected, link, requests, inflight, userVars,
                 histVars, brokerVars>>

\* poll flushes what is written: after a write, with a ping or after reading.
\* On a link that is broken this may still succeed, and goes nowhere.
PollFlush ==
  /\ Reading /\ unsent # <<>>
  /\ unsent' = Tail(unsent)
  /\ received' = IF link = "up" THEN Append(received, Head(unsent)) ELSE received
  /\ UNCHANGED <<chanVars, pc, connected, link, requests, writing, inflight,
                 userVars, histVars, broker, incoming, nMessages, nDrops>>

\* poll fails: the link is broken or the dial is refused.
PollFails ==
  /\ pc = "select"
  /\ \/ link = "broken" /\ UNCHANGED nDrops
     \/ link = "dialing" /\ ~broker /\ nDrops < MaxDrops /\ nDrops' = nDrops + 1
  /\ Leave("delay")
  /\ UNCHANGED <<chanVars, broker, received, nMessages>>

PollErr_quiet ==                  \* mutant: reconnects without the event
  /\ PollFails
  /\ UNCHANGED <<userVars, histVars>>

PollErr ==
  /\ PollFails
  /\ event' = "Error"
  /\ told' = IF told = "Connected" THEN "Error" ELSE told
  /\ accepted' = {} /\ cut' = {}

\* The 100 ms are over: a new client and event loop.
Reconnect_never ==                \* mutant: keeps waiting
  /\ pc = "delay"
  /\ UNCHANGED vars

Reconnect ==
  /\ pc = "delay"
  /\ pc' = "select"
  /\ UNCHANGED <<chanVars, connected, clientVars, userVars, histVars,
                 brokerVars>>

-----------------------------------------------------------------------------
(* The broker (outside the repository).                                     *)

BrokerSends ==
  /\ link = "up" /\ nMessages < MaxMessages
  /\ nMessages' = nMessages + 1
  /\ incoming' = Append(incoming, Packet("Publish", Nobody))
  /\ UNCHANGED <<chanVars, pc, connected, clientVars, userVars, histVars, broker, received, nDrops>>

\* The broker acknowledges what it has received, once.
BrokerAcks(n) ==
  /\ link = "up" /\ n \in inflight /\ n \in NumbersIn(received)
  /\ ~Contains(incoming, Packet("PubAck", n))
  /\ incoming' = Append(incoming, Packet("PubAck", n))
  /\ UNCHANGED <<chanVars, pc, connected, clientVars, userVars, histVars, broker, received, nMessages, nDrops>>

\* The broker closes the link, with or without saying so, or goes away.
BrokerDrops(politely) ==
  /\ link = "up" /\ nDrops < MaxDrops
  /\ nDrops' = nDrops + 1
  /\ link' = "broken" /\ broker' \in BOOLEAN
  /\ incoming' = IF politely THEN Append(incoming, Packet("Disconnect", Nobody))
                             ELSE incoming
  /\ UNCHANGED <<chanVars, pc, connected, requests, writing, unsent, inflight,
                 userVars, histVars, received, nMessages>>

BrokerReturns ==
  /\ ~broker
  /\ broker' = TRUE
  /\ UNCHANGED <<chanVars, pc, connected, clientVars, userVars, histVars, incoming, received, nMessages, nDrops>>

-----------------------------------------------------------------------------
Users == (\E c \in BOOLEAN : Submit(c)) \/ SubmitDisconnect \/ DropSenders
Poll == PollDial \/ PollConnAck \/ PollIncoming \/ PollTake \/ PollWrite \/ PollFlush \/ PollErr
Commands == RecvRequest \/ RecvDisconnect \/ RecvClosed
Broker ==
  \/ BrokerSends \/ BrokerReturns
  \/ \E n \in Numbers : BrokerAcks(n)
  \/ \E p \in BOOLEAN : BrokerDrops(p)

Next == Users \/ Commands \/ Poll \/ Reconnect \/ Broker

Spec == Init /\ [][Next]_vars

(* select! picks at random among the branches that are ready, so a command  *)
(* and the error of a broken link (a read that fails at once, or the        *)
(* keep-alive timer, which the event loop keeps when poll is dropped) are   *)
(* taken when they are ready again and again.  A dial is no such branch:    *)
(* every command starts it over, so it is fair only while none comes.       *)
(* Nothing is assumed of users or broker but what a property says.          *)
Fairness ==
  /\ SF_vars(Commands) /\ SF_vars(link = "broken" /\ PollErr)
  /\ WF_vars(PollDial) /\ WF_vars(PollConnAck) /\ WF_vars(Reconnect)

FairSpec == Spec /\ Fairness

-----------------------------------------------------------------------------
Requests == [n : Numbers, confirmed : BOOLEAN]
Packets == [type : {"Publish", "Disconnect"}, n : {Nobody}] \cup [type : {"PubAck"}, n : Numbers]
Events == {"Connected", "Disconnected", "MessageReceived", "NotConnected", "Failed", "Error"}

TypeOK ==
  /\ senders \in BOOLEAN /\ nRequests \in 0 .. MaxRequests
  /\ command_rx \in Seq(Requests \cup {Disconnect})
  /\ pc \in {"select", "requesting", "delay", "stopped"}
  /\ connected \in BOOLEAN
  /\ link \in {"none", "dialing", "up", "broken"}
  /\ requests \in Seq(Requests) /\ Len(requests) <= Capacity
  /\ writing \in Seq(Requests) /\ unsent \in Seq(Requests)
  /\ inflight \subseteq Numbers /\ Cardinality(inflight) <= MaxInflight
  /\ event \in Events \cup {"none"}
  /\ told \in {"nothing", "Connected", "Disconnected", "Error"}
  /\ broker \in BOOLEAN /\ incoming \in Seq(Packets)
  /\ received \in Seq(Requests) /\ accepted \subseteq Numbers /\ cut \subseteq Numbers
  /\ nMessages \in 0 .. MaxMessages /\ nDrops \in 0 .. MaxDrops

\* The broker receives requests at most once and in the order they were
\* submitted, however often the task reconnects: what a lost client still held
\* is never sent by the next one.
AtMostOnceInOrder ==
  \A i, j \in DOMAIN received : i < j => received[i].n < received[j].n

\* A request is handed only to a client whose link the broker has accepted:
\* nothing is queued while the task dials or waits to dial, so the connected
\* flag never survives the link it stands for.
NothingQueuedBeforeConnAck ==
  link \in {"none", "dialing"} =>
    requests = <<>> /\ writing = <<>> /\ unsent = <<>> /\ ~connected

\* No request is lost in silence: one that was handed to the client, with no
\* error told since, is held by the client or has reached the broker, or the
\* link is broken and the error is still to come.  The one exception is the
\* request that poll had in hand when a command made select! drop it.
NoSilentLoss ==
  pc # "stopped" /\ link # "broken" =>
    accepted \subseteq NumbersIn(requests) \cup NumbersIn(writing) \cup NumbersIn(unsent)
                      \cup NumbersIn(received) \cup cut

\* The link is announced once: when it comes up again the user has been told
\* in between of an error or that it was gone, whatever commands came first.
ConnectedOnce == [][link # "up" /\ link' = "up" => told # "Connected"]_vars

\* The task is blocked on a full request channel.  Nobody else empties it, so
\* the properties below have to except this (BrokenLinkEnds shows it).
Blocked == pc = "requesting"

\* The user of a link that breaks is told, by an Error or, when the broker had
\* said so, by Disconnected; a link that is just gone is never Disconnected.
LossIsTold ==
  (link = "broken" /\ told = "Connected")
    ~> (told # "Connected" \/ pc = "stopped" \/ Blocked)

\* When the broker stays reachable and the commands cease, the task gets a link in
\* the end, however often they made it dial again before.  They have to cease:
\* every one drops the handshake under way, so those that come faster than a
\* handshake keep the link down for as long as they come.
Reconnects ==
  <>[](broker /\ command_rx = <<>>) => []<>(link = "up" \/ pc = "stopped" \/ Blocked)

\* A Disconnect command ends the task, whatever the link is doing.
DisconnectStops == Contains(command_rx, Disconnect) ~> (pc = "stopped" \/ Blocked)

\* What the comment says (mqtt_task.rs:85, "Run the connection until an error
\* occurs"): a link that breaks ends the connection.
BrokenLinkEnds == (link = "broken") ~> (link # "broken")
=============================================================================
