----------------------------- MODULE SerialBridge -----------------------------
(***************************************************************************)
(* The program of examples/serial.rs: a supervisor that opens the port,    *)
(* starts a session (SerialTask), gives its command sender to a script     *)
(* (Hook), runs the script's functions from two tasks and, when the        *)
(* session is over, starts the next one.  Of a session only what crosses   *)
(* from one to the next is kept; SerialTask has the rest.                  *)
(***************************************************************************)
EXTENDS Integers, FiniteSets

CONSTANTS
  MaxSessions,   (* bound: sessions started                                 *)
  MaxMsgs,       (* bound: messages the scripts make                        *)
  MaxEvents,     (* bound: events the device sends                          *)
  MaxUnplugs     (* bound: times the port fails                             *)

ASSUME ConstAssumption ==
  /\ {MaxSessions, MaxMsgs, MaxEvents, MaxUnplugs} \subseteq Nat
  /\ MaxUnplugs < MaxSessions     \* so that every failure can be followed by a session

Sessions == 1 .. MaxSessions
Msgs == 1 .. MaxMsgs             \* in the order the scripts make them

VARIABLES
  supervisor,  (* where main is: "bottom" is the check at the loop's end    *)
  session,     (* sessions started so far; the last is the current one      *)
  USER_EXIT,   (* Ctrl-C                                                    *)
  plugged,     (* the device is there                                       *)
  port,        (* what the session's handle of the port still gives         *)
  loop,        (* the session's select! loop; when over, its ends of the    *)
               (* command and the event channel are dropped                 *)
  events,      (* number of events in the session's event channel           *)
  event_task,  (* the task that calls on_event; "turn": between two calls   *)
  timer_task,  (* the task that calls on_tick                               *)
  aborted,     (* sessions whose tasks were aborted                         *)
  made,        (* number of messages made                                   *)
  of,          (* the session whose script made a message                   *)
  id,          (* its id                                                    *)
  state,       (* what became of it; from "waiting" on it is the waiter's   *)
  toldOf,      (* the message whose ACK the waiter was told (history)       *)
  device,      (* messages the device has and has not answered              *)
  acks,        (* messages whose ACK is on the line                         *)
  nEvents, nUnplugs

mainVars == <<supervisor, session, USER_EXIT>>
taskVars == <<events, event_task, timer_task, aborted>>
msgVars == <<made, of, id, state, toldOf>>
lineVars == <<plugged, port, device, acks>>
vars == <<mainVars, loop, taskVars, msgVars, lineVars, nEvents, nUnplugs>>

Init ==
  /\ supervisor = "open" /\ session = 0 /\ USER_EXIT = FALSE
  /\ plugged \in BOOLEAN /\ port = [s \in Sessions |-> "none"]
  /\ loop = [s \in Sessions |-> "none"] /\ events = [s \in Sessions |-> 0]
  /\ event_task = [s \in Sessions |-> "none"] /\ timer_task = [s \in Sessions |-> "none"]
  /\ aborted = {} /\ made = 0
  /\ of = [m \in Msgs |-> 0] /\ id = [m \in Msgs |-> 0]
  /\ state = [m \in Msgs |-> "none"] /\ toldOf = [m \in Msgs |-> 0]
  /\ device = {} /\ acks = {} /\ nEvents = 0 /\ nUnplugs = 0

Running == supervisor # "exited"

-----------------------------------------------------------------------------
(* The supervisor.                                                          *)

\* serial.start
Open ==
  /\ supervisor = "open"
  /\ \/ /\ ~plugged /\ supervisor' = "retry"
        /\ UNCHANGED <<session, loop, port>>
     \/ /\ plugged /\ supervisor' = "new" /\ session' = session + 1
        /\ loop' = [loop EXCEPT ![session + 1] = "on"]
        /\ port' = [port EXCEPT ![session + 1] = "up"]
  /\ UNCHANGED <<USER_EXIT, taskVars, msgVars, plugged, device, acks, nEvents, nUnplugs>>

\* Its second is over.
Retry ==
  /\ supervisor = "retry" /\ supervisor' = "bottom"
  /\ UNCHANGED <<session, USER_EXIT, loop, taskVars, msgVars, lineVars, nEvents, nUnplugs>>

\* Hook::new: main returns the error of a script that does not compile.
HookNew ==
  /\ supervisor = "new" /\ supervisor' \in {"init", "exited"}
  /\ UNCHANGED <<session, USER_EXIT, loop, taskVars, msgVars, lineVars, nEvents, nUnplugs>>

\* on_init returns, whatever it returns, and the tasks are spawned.
Spawn ==
  /\ supervisor = "init" /\ supervisor' = "watch"
  /\ event_task' = [event_task EXCEPT ![session] = "recv"]
  /\ timer_task' = [timer_task EXCEPT ![session] = "sleep"]
  /\ UNCHANGED <<session, USER_EXIT, loop, events, aborted, msgVars, lineVars, nEvents, nUnplugs>>

is_closed_port == port[session] # "up"          \* mutant: looks at the port
is_closed_never == FALSE                        \* mutant: waits for Ctrl-C only
is_closed == loop[session] = "over"

AbortsTimer_forgotten == FALSE                  \* mutant: timer_handle is not aborted
AbortsTimer == TRUE

\* The watch loop, once a second.  abort ends a task at its await; one that runs
\* a script's function goes on until it waits again.
Watch ==
  /\ supervisor = "watch"
  /\ \/ /\ USER_EXIT
        /\ UNCHANGED <<event_task, timer_task, aborted>>
     \/ /\ ~USER_EXIT /\ is_closed
        /\ aborted' = aborted \cup {session}
        /\ event_task' = [event_task EXCEPT ![session] = IF @ = "recv" THEN "ended" ELSE @]
        /\ timer_task' = [timer_task EXCEPT ![session] =
                            IF @ = "sleep" /\ AbortsTimer THEN "ended" ELSE @]
  /\ supervisor' = "bottom"
  /\ UNCHANGED <<session, USER_EXIT, loop, events, msgVars, lineVars, nEvents, nUnplugs>>

AtBottom_open == "open"                         \* mutant: checks in the watch loop only
AtBottom == IF USER_EXIT THEN "exited" ELSE "open"

Bottom ==
  /\ supervisor = "bottom" /\ supervisor' = AtBottom
  /\ UNCHANGED <<session, USER_EXIT, loop, taskVars, msgVars, lineVars, nEvents, nUnplugs>>

CtrlC ==
  /\ Running /\ ~USER_EXIT /\ USER_EXIT' = TRUE
  /\ UNCHANGED <<supervisor, session, loop, taskVars, msgVars, lineVars, nEvents, nUnplugs>>

-----------------------------------------------------------------------------
(* The tasks that call the script, and what the script does.                *)

OnEvent(s) ==
  /\ Running /\ event_task[s] \in {"recv", "turn"} /\ events[s] > 0
  /\ events' = [events EXCEPT ![s] = @ - 1]
  /\ event_task' = [event_task EXCEPT ![s] = "hook"]
  /\ UNCHANGED <<mainVars, loop, timer_task, aborted, msgVars, lineVars, nEvents, nUnplugs>>

\* No event is queued: the task waits, or ends.
EventTaskWaits(s) ==
  /\ Running /\ events[s] = 0
  /\ \/ event_task[s] = "turn"
     \/ event_task[s] = "recv" /\ loop[s] = "over"
  /\ event_task' = [event_task EXCEPT ![s] =
                      IF loop[s] = "over" \/ s \in aborted THEN "ended" ELSE "recv"]
  /\ UNCHANGED <<mainVars, loop, events, timer_task, aborted, msgVars, lineVars, nEvents, nUnplugs>>

OnEventReturns(s) ==
  /\ Running /\ event_task[s] = "hook"
  /\ event_task' = [event_task EXCEPT ![s] = "turn"]
  /\ UNCHANGED <<mainVars, loop, events, timer_task, aborted, msgVars, lineVars, nEvents, nUnplugs>>

OnTick(s) ==
  /\ Running /\ timer_task[s] = "sleep"
  /\ timer_task' = [timer_task EXCEPT ![s] = "hook"]
  /\ UNCHANGED <<mainVars, loop, events, event_task, aborted, msgVars, lineVars, nEvents, nUnplugs>>

OnTickReturns(s) ==
  /\ Running /\ timer_task[s] = "hook"
  /\ timer_task' = [timer_task EXCEPT ![s] =
                      IF s \in aborted /\ AbortsTimer THEN "ended" ELSE "sleep"]
  /\ UNCHANGED <<mainVars, loop, events, event_task, aborted, msgVars, lineVars, nEvents, nUnplugs>>

InHook(s) ==
  \/ supervisor = "init" /\ s = session
  \/ "hook" \in {event_task[s], timer_task[s]}

\* MSG_ID outlives the sessions.
next_id_session(s) == Cardinality({m \in Msgs : of[m] = s})   \* mutant: a counter per session
next_id(s) == made

\* The script makes a message; command_tx sends it, or only logs that the channel
\* is closed.  A bad address or too much data spends the id.
Command(s) ==
  /\ Running /\ InHook(s) /\ made < MaxMsgs
  /\ LET m == made + 1 IN
       /\ made' = m
       /\ of' = [of EXCEPT ![m] = s] /\ id' = [id EXCEPT ![m] = next_id(s)]
       /\ state' = [state EXCEPT ![m] = IF loop[s] = "on" THEN "queued" ELSE "lost"]
  /\ UNCHANGED <<mainVars, loop, taskVars, toldOf, lineVars, nEvents, nUnplugs>>

BadMessage(s) ==
  /\ Running /\ InHook(s) /\ made < MaxMsgs
  /\ made' = made + 1
  /\ of' = [of EXCEPT ![made + 1] = s] /\ id' = [id EXCEPT ![made + 1] = next_id(s)]
  /\ state' = [state EXCEPT ![made + 1] = "bad"]
  /\ UNCHANGED <<mainVars, loop, taskVars, toldOf, lineVars, nEvents, nUnplugs>>

-----------------------------------------------------------------------------
(* A session.                                                               *)

Queue(s) == {m \in Msgs : of[m] = s /\ state[m] = "queued"}
waiting_ack(s) == {m \in Msgs : of[m] = s /\ state[m] = "waiting"}   \* those not yet given up

\* A port that fails may have taken the message or not.
Transmit(s) ==
  /\ Running /\ loop[s] = "on"
  /\ \E m \in Queue(s) :
       /\ \A first \in Queue(s) : m <= first
       /\ \/ /\ state' = [state EXCEPT ![m] = "waiting"]
             /\ device' = IF port[s] = "up" /\ plugged THEN device \cup {m} ELSE device
          \/ /\ port[s] # "up"
             /\ state' = [state EXCEPT ![m] = "lost"] /\ UNCHANGED device
  /\ UNCHANGED <<mainVars, loop, taskVars, made, of, id, toldOf, plugged, port, acks,
                 nEvents, nUnplugs>>

RecvAck(s) ==
  /\ Running /\ loop[s] = "on" /\ port[s] = "up" /\ plugged
  /\ \E a \in acks :
       /\ acks' = acks \ {a}
       /\ LET found == {m \in waiting_ack(s) : id[m] = id[a]} IN
            /\ state' = [m \in Msgs |-> IF m \in found THEN "acked" ELSE state[m]]
            /\ toldOf' = [m \in Msgs |-> IF m \in found THEN a ELSE toldOf[m]]
  /\ UNCHANGED <<mainVars, loop, taskVars, made, of, id, plugged, port, device, nEvents, nUnplugs>>

WaiterTimeout(m) ==
  /\ Running /\ state[m] = "waiting"
  /\ state' = [state EXCEPT ![m] = "timeout"]
  /\ UNCHANGED <<mainVars, loop, taskVars, made, of, id, toldOf, lineVars, nEvents, nUnplugs>>

RecvEvent(s) ==
  /\ Running /\ loop[s] = "on" /\ port[s] = "up" /\ plugged /\ nEvents < MaxEvents
  /\ nEvents' = nEvents + 1 /\ events' = [events EXCEPT ![s] = @ + 1]
  /\ UNCHANGED <<mainVars, loop, event_task, timer_task, aborted, msgVars, lineVars, nUnplugs>>

\* Err(e) breaks the loop: queued commands are lost, waiters' senders dropped.
\* (Ok(None), the end of a stream, changes nothing: the loop goes on.)
RecvError(s) ==
  /\ Running /\ loop[s] = "on" /\ port[s] = "error"
  /\ loop' = [loop EXCEPT ![s] = "over"]
  /\ state' = [m \in Msgs |-> CASE m \in Queue(s) -> "lost"
                                [] m \in waiting_ack(s) -> "closed"
                                [] OTHER -> state[m]]
  /\ UNCHANGED <<mainVars, taskVars, made, of, id, toldOf, lineVars, nEvents, nUnplugs>>

-----------------------------------------------------------------------------
(* The device and the port.  A handle does not come back to life.           *)

DeviceAck ==
  /\ Running /\ \E m \in device : acks' = acks \cup {m} /\ device' = device \ {m}
  /\ UNCHANGED <<mainVars, loop, taskVars, msgVars, plugged, port, nEvents, nUnplugs>>

\* The device is unplugged, or the port alone fails; what is on the line may be
\* kept by the device.
Fails ==
  /\ Running /\ nUnplugs < MaxUnplugs
  /\ nUnplugs' = nUnplugs + 1
  /\ plugged' \in {FALSE, plugged}
  /\ \E kind \in {"error", "eof"} :
       port' = [s \in Sessions |-> IF port[s] = "up" /\ loop[s] = "on" THEN kind ELSE port[s]]
  /\ acks' \in {acks, {}}
  /\ UNCHANGED <<mainVars, loop, taskVars, msgVars, device, nEvents>>

Replug ==
  /\ Running /\ ~plugged /\ plugged' = TRUE
  /\ UNCHANGED <<mainVars, loop, taskVars, msgVars, port, device, acks, nEvents, nUnplugs>>

-----------------------------------------------------------------------------
Supervisor == Open \/ Retry \/ HookNew \/ Spawn \/ Watch \/ Bottom
Session(s) == Transmit(s) \/ RecvAck(s) \/ RecvEvent(s) \/ RecvError(s)
EventTask(s) == OnEvent(s) \/ EventTaskWaits(s) \/ OnEventReturns(s)
TimerTask(s) == OnTick(s) \/ OnTickReturns(s)

Next ==
  \/ Supervisor \/ CtrlC \/ DeviceAck \/ Fails \/ Replug
  \/ \E s \in Sessions :
       Session(s) \/ EventTask(s) \/ TimerTask(s) \/ Command(s) \/ BadMessage(s)
  \/ \E m \in Msgs : WaiterTimeout(m)

Spec == Init /\ [][Next]_vars

(* The supervisor goes on, so a script's functions return; a loop reads the  *)
(* error of its port.  Nothing is assumed of the device or of Ctrl-C.        *)
Fairness == WF_vars(Supervisor) /\ \A s \in Sessions : WF_vars(RecvError(s))

FairSpec == Spec /\ Fairness

-----------------------------------------------------------------------------
TypeOK ==
  /\ supervisor \in {"open", "retry", "new", "init", "watch", "bottom", "exited"}
  /\ session \in 0 .. MaxSessions /\ {USER_EXIT, plugged} \subseteq BOOLEAN
  /\ port \in [Sessions -> {"none", "up", "error", "eof"}]
  /\ loop \in [Sessions -> {"none", "on", "over"}]
  /\ \A s \in Sessions : loop[s] = "none" <=> s > session
  /\ events \in [Sessions -> 0 .. nEvents]
  /\ event_task \in [Sessions -> {"none", "recv", "turn", "hook", "ended"}]
  /\ timer_task \in [Sessions -> {"none", "sleep", "hook", "ended"}]
  /\ aborted \subseteq {s \in Sessions : loop[s] = "over"}
  /\ made \in 0 .. MaxMsgs /\ of \in [Msgs -> 0 .. MaxSessions] /\ id \in [Msgs -> 0 .. MaxMsgs]
  /\ state \in [Msgs -> {"none", "bad", "queued", "lost", "waiting", "timeout", "acked", "closed"}]
  /\ toldOf \in [Msgs -> 0 .. MaxMsgs]
  /\ device \subseteq Msgs /\ acks \subseteq Msgs
  /\ nEvents \in 0 .. MaxEvents /\ nUnplugs \in 0 .. MaxUnplugs

\* The device may answer a message of an ended session to the next one.  Such an
\* ACK resolves nobody: a waiter is told of the ACK of its own message only, since
\* ids go on counting from session to session (a session sends fewer than 2^32).
LateAckIgnored ==
  \A m \in Msgs : state[m] = "acked" => toldOf[m] = m

\* When a session is started the one before has let go of the port and its hook
\* tasks are at most in the middle of their last calls: an aborted task does not
\* wait for another tick or event.
OldSessionsWindDown ==
  \A s \in 1 .. session - 1 :
    /\ loop[s] = "over"
    /\ event_task[s] \in {"hook", "turn", "ended"} /\ timer_task[s] \in {"hook", "ended"}

\* A port that fails with an error is opened again once the device is back for
\* good.  (The end of the stream is not an error for the loop: no session follows.)
Reopens ==
  <>[]plugged =>
    \A s \in Sessions : (port[s] = "error") ~> (session > s \/ ~Running)

\* Ctrl-C ends the program from everywhere: while the port is closed, while a
\* session runs, when its port fails at the same moment, and when its loop spins
\* at the end of the stream.
ExitStops == USER_EXIT ~> ~Running
=============================================================================
