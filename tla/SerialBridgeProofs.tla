-------------------------- MODULE SerialBridgeProofs --------------------------
(***************************************************************************)
(* Theorems of SerialBridge, for any number of sessions, messages, events  *)
(* and failures.                                                           *)
(***************************************************************************)
EXTENDS SerialBridge, TLAPS

\* The port of the current session is the only one that may still give bytes, and
\* every other session cost a failure; so there is always room for the next one.
Paid ==
  session > 0 => session <= nUnplugs + (IF port[session] = "up" THEN 1 ELSE 0)

\* Only a session that failed is over, and only such a one is aborted and followed
\* by another.
Turns ==
  /\ \A s \in Sessions : loop[s] = "over" => port[s] = "error"
  /\ aborted \subseteq 1 .. session
  /\ \A s \in 1 .. session : s < session => s \in aborted
  /\ supervisor \in {"open", "retry"} => session = 0 \/ session \in aborted
  /\ supervisor = "bottom" => USER_EXIT \/ session = 0 \/ session \in aborted
  /\ supervisor \in {"new", "init", "watch"} => session > 0 /\ session \notin aborted
  /\ supervisor = "watch" => event_task[session] # "none" /\ timer_task[session] # "none"

\* What was aborted does not wait for more.
Quiet ==
  \A s \in aborted :
    event_task[s] \in {"hook", "turn", "ended"} /\ timer_task[s] \in {"hook", "ended"}

\* A message's id is the number of messages made before it, in whatever session.
Counted ==
  /\ \A m \in Msgs : m <= made => id[m] = m - 1
  /\ \A m \in Msgs : state[m] # "none" => m <= made
  /\ device \cup acks \subseteq 1 .. made

IInv == TypeOK /\ Paid /\ Turns /\ Quiet /\ Counted /\ LateAckIgnored

-----------------------------------------------------------------------------
LEMMA IInvInit == Init => IInv
<1> SUFFICES ASSUME Init PROVE IInv
  OBVIOUS
<1> USE ConstAssumption DEF Init, Sessions, Msgs
<1>1. TypeOK
  <2>1. /\ supervisor = "open" /\ session = 0 /\ aborted = {} /\ made = 0
        /\ device = {} /\ acks = {} /\ nEvents = 0 /\ nUnplugs = 0
        /\ USER_EXIT \in BOOLEAN /\ plugged \in BOOLEAN
    OBVIOUS
  <2>2. /\ port \in [Sessions -> {"none", "up", "error", "eof"}]
        /\ loop \in [Sessions -> {"none", "on", "over"}]
        /\ events \in [Sessions -> 0 .. nEvents]
        /\ event_task \in [Sessions -> {"none", "recv", "turn", "hook", "ended"}]
        /\ timer_task \in [Sessions -> {"none", "sleep", "hook", "ended"}]
    OBVIOUS
  <2>3. /\ of \in [Msgs -> 0 .. MaxSessions] /\ id \in [Msgs -> 0 .. MaxMsgs]
        /\ state \in [Msgs -> {"none", "bad", "queued", "lost", "waiting", "timeout", "acked", "closed"}]
        /\ toldOf \in [Msgs -> 0 .. MaxMsgs]
    OBVIOUS
  <2>4. \A s \in Sessions : loop[s] = "none" <=> s > session
    OBVIOUS
  <2> QED
    BY <2>1, <2>2, <2>3, <2>4 DEF TypeOK
<1>2. Paid /\ Turns /\ Quiet /\ Counted /\ LateAckIgnored
  BY DEF Paid, Turns, Quiet, Counted, LateAckIgnored
<1> QED
  BY <1>1, <1>2 DEF IInv

\* A session is started only if there is room for it.
LEMMA Room ==
  ASSUME IInv, supervisor = "open"
  PROVE  session + 1 \in Sessions /\ session <= nUnplugs /\ session + 1 \notin aborted
<1> USE ConstAssumption DEF IInv, TypeOK, Sessions
<1>1. session \in Nat /\ nUnplugs \in Nat /\ nUnplugs <= MaxUnplugs
  OBVIOUS
<1>2. session <= nUnplugs
  <2>1. CASE session = 0
    BY <2>1, <1>1
  <2>2. CASE session \in aborted
    BY <2>2, <1>1 DEF Turns, Paid
  <2> QED
    BY <2>1, <2>2 DEF Turns
<1>3. session + 1 \notin aborted
  BY <1>1 DEF Turns
<1> QED
  BY <1>1, <1>2, <1>3

\* The steps of the messages and of the line leave the sessions alone.
MessageStep ==
  \/ DeviceAck \/ \E s \in Sessions : Transmit(s) \/ RecvAck(s) \/ Command(s) \/ BadMessage(s)
  \/ \E m \in Msgs : WaiterTimeout(m)

LEMMA MessageStepTurns ==
  IInv /\ MessageStep => Paid' /\ Turns' /\ Quiet'
<1> SUFFICES ASSUME IInv, MessageStep PROVE Paid' /\ Turns' /\ Quiet'
  OBVIOUS
<1>1. UNCHANGED <<mainVars, loop, taskVars, port, nUnplugs>>
  BY DEF MessageStep, DeviceAck, Transmit, RecvAck, Command, BadMessage, WaiterTimeout, lineVars
<1> QED
  BY <1>1 DEF IInv, Paid, Turns, Quiet, mainVars, taskVars

\* The steps of the tasks that call the script.
LEMMA TaskStep ==
  ASSUME IInv, NEW s \in Sessions, EventTask(s) \/ TimerTask(s)
  PROVE  TypeOK' /\ Paid' /\ Turns' /\ Quiet'
<1> USE ConstAssumption DEF IInv, Sessions
<1>1. UNCHANGED <<mainVars, loop, aborted, msgVars, lineVars, nEvents, nUnplugs>>
  BY DEF EventTask, OnEvent, EventTaskWaits, OnEventReturns, TimerTask, OnTick, OnTickReturns
<1>2. events' \in [Sessions -> 0 .. nEvents]
  BY SMTT(30) DEF TypeOK, EventTask, OnEvent, EventTaskWaits, OnEventReturns, TimerTask, OnTick, OnTickReturns
<1>3. \E e \in {"recv", "turn", "hook", "ended"}, t \in {"sleep", "hook", "ended"} :
        /\ \/ event_task' = event_task
           \/ event_task' = [event_task EXCEPT ![s] = e] /\ (s \in aborted => e # "recv")
        /\ \/ timer_task' = timer_task
           \/ timer_task' = [timer_task EXCEPT ![s] = t] /\ (s \in aborted => t # "sleep")
  <2>1. CASE EventTask(s)
    BY <2>1 DEF EventTask, OnEvent, EventTaskWaits, OnEventReturns
  <2>2. CASE TimerTask(s)
    BY <2>2 DEF TimerTask, OnTick, OnTickReturns, AbortsTimer
  <2> QED
    BY <2>1, <2>2
<1>4. Quiet'
  BY <1>1, <1>3, SMTT(30) DEF Quiet, TypeOK
<1>5. Turns'
  BY <1>1, <1>3 DEF Turns, TypeOK, mainVars, lineVars
<1>6. Paid'
  BY <1>1 DEF Paid, mainVars, lineVars
<1>7. /\ event_task' \in [Sessions -> {"none", "recv", "turn", "hook", "ended"}]
      /\ timer_task' \in [Sessions -> {"none", "sleep", "hook", "ended"}]
  <2>1. PICK e \in {"recv", "turn", "hook", "ended"}, t \in {"sleep", "hook", "ended"} :
          /\ event_task' = event_task \/ event_task' = [event_task EXCEPT ![s] = e]
          /\ timer_task' = timer_task \/ timer_task' = [timer_task EXCEPT ![s] = t]
    BY <1>3
  <2>2. event_task' \in [Sessions -> {"none", "recv", "turn", "hook", "ended"}]
    BY <2>1 DEF TypeOK
  <2>3. timer_task' \in [Sessions -> {"none", "sleep", "hook", "ended"}]
    BY <2>1, SMTT(30) DEF TypeOK
  <2> QED
    BY <2>2, <2>3
<1>8. TypeOK'
  BY <1>1, <1>2, <1>7 DEF TypeOK, mainVars, msgVars, lineVars
<1> QED
  BY <1>4, <1>5, <1>6, <1>8

LEMMA SupervisorStep ==
  ASSUME IInv, Supervisor \/ CtrlC PROVE TypeOK' /\ Paid' /\ Turns' /\ Quiet'
<1> USE ConstAssumption DEF IInv, Sessions
<1> DEFINE Goal == TypeOK' /\ Paid' /\ Turns' /\ Quiet'
<1>1. CASE Open
  <2>1. CASE ~plugged
    <3>1. supervisor' = "retry" /\ UNCHANGED <<session, loop, port, USER_EXIT, taskVars, msgVars, plugged,
                                               device, acks, nEvents, nUnplugs>>
      BY <1>1, <2>1 DEF Open
    <3>2. TypeOK'
      BY <3>1 DEF TypeOK, taskVars, msgVars
    <3>3. Paid' /\ Turns' /\ Quiet'
      BY <1>1, <3>1 DEF Open, Paid, Turns, Quiet, taskVars
    <3> QED
      BY <3>2, <3>3
  <2>2. CASE plugged
    <3>1. /\ supervisor' = "new" /\ session' = session + 1
          /\ loop' = [loop EXCEPT ![session + 1] = "on"]
          /\ port' = [port EXCEPT ![session + 1] = "up"]
          /\ UNCHANGED <<USER_EXIT, taskVars, msgVars, plugged, device, acks, nEvents, nUnplugs>>
      BY <1>1, <2>2 DEF Open
    <3>2. /\ session + 1 \in Sessions /\ session <= nUnplugs /\ session + 1 \notin aborted
          /\ session \in Nat
      BY <1>1, Room DEF Open, TypeOK
    <3>3. TypeOK'
      <4>1. \A s \in Sessions : loop'[s] = "none" <=> s > session'
        BY <3>1, <3>2 DEF TypeOK
      <4>2. aborted' \subseteq {s \in Sessions : loop'[s] = "over"}
        BY <3>1, <3>2 DEF TypeOK, taskVars
      <4>3. /\ loop' \in [Sessions -> {"none", "on", "over"}]
            /\ port' \in [Sessions -> {"none", "up", "error", "eof"}] /\ session' \in 0 .. MaxSessions
        BY <3>1, <3>2 DEF TypeOK
      <4> QED
        BY <3>1, <4>1, <4>2, <4>3 DEF TypeOK, taskVars, msgVars
    <3>4. Paid' /\ Quiet'
      BY <3>1, <3>2 DEF Paid, Quiet, TypeOK, taskVars
    <3>5. Turns'
      <4>1. \A s \in 1 .. session' : s < session' => s \in aborted'
        BY <1>1, <3>1, <3>2 DEF Turns, Open, taskVars
      <4>2. \A s \in Sessions : loop'[s] = "over" => port'[s] = "error"
        BY <3>1, <3>2 DEF Turns, TypeOK
      <4>3. aborted' \subseteq 1 .. session' /\ session' \notin aborted'
        BY <3>1, <3>2 DEF Turns, taskVars
      <4> QED
        BY <3>1, <3>2, <4>1, <4>2, <4>3 DEF Turns
    <3> QED
      BY <3>3, <3>4, <3>5
  <2> QED
    BY <2>1, <2>2 DEF TypeOK
<1>2. CASE Retry \/ HookNew \/ CtrlC
  <2>1. /\ UNCHANGED <<session, loop, taskVars, msgVars, lineVars, nEvents, nUnplugs>>
        /\ USER_EXIT' \in BOOLEAN /\ (USER_EXIT => USER_EXIT')
        /\ \/ supervisor' = supervisor
           \/ supervisor = "retry" /\ supervisor' = "bottom"
           \/ supervisor = "new" /\ supervisor' \in {"init", "exited"}
    <3>1. CASE Retry \/ HookNew
      BY <3>1 DEF Retry, HookNew, TypeOK
    <3>2. CASE CtrlC
      BY <3>2 DEF CtrlC
    <3> QED
      BY <1>2, <3>1, <3>2
  <2>2. TypeOK'
    BY <2>1 DEF TypeOK, taskVars, msgVars, lineVars
  <2> QED
    BY <2>1, <2>2 DEF Paid, Turns, Quiet, taskVars, lineVars
<1>3. CASE Spawn
  <2>1. /\ supervisor = "init" /\ supervisor' = "watch" /\ session \in Sessions /\ session \notin aborted
        /\ event_task' = [event_task EXCEPT ![session] = "recv"]
        /\ timer_task' = [timer_task EXCEPT ![session] = "sleep"]
        /\ UNCHANGED <<session, USER_EXIT, loop, events, aborted, msgVars, lineVars, nEvents, nUnplugs>>
    BY <1>3 DEF Spawn, Turns, TypeOK
  <2>2. TypeOK'
    BY <2>1 DEF TypeOK, msgVars, lineVars
  <2> QED
    BY <2>1, <2>2, SMTT(30) DEF Paid, Turns, Quiet, TypeOK, lineVars
<1>4. CASE Watch
  <2>1. /\ supervisor = "watch" /\ supervisor' = "bottom" /\ session \in Sessions
        /\ event_task[session] # "none" /\ timer_task[session] # "none"
        /\ UNCHANGED <<session, USER_EXIT, loop, events, msgVars, lineVars, nEvents, nUnplugs>>
    BY <1>4 DEF Watch, Turns, TypeOK
  <2>2. CASE USER_EXIT
    <3>1. UNCHANGED taskVars
      BY <1>4, <2>1, <2>2 DEF Watch, taskVars
    <3>2. TypeOK'
      BY <2>1, <3>1 DEF TypeOK, taskVars, msgVars, lineVars
    <3> QED
      BY <2>1, <2>2, <3>1, <3>2 DEF Paid, Turns, Quiet, taskVars, lineVars
  <2>3. CASE ~USER_EXIT
    <3>1. /\ loop[session] = "over" /\ aborted' = aborted \cup {session}
          /\ event_task' = [event_task EXCEPT ![session] = IF @ = "recv" THEN "ended" ELSE @]
          /\ timer_task' = [timer_task EXCEPT ![session] = IF @ = "sleep" THEN "ended" ELSE @]
      BY <1>4, <2>3 DEF Watch, is_closed, AbortsTimer
    <3>2. TypeOK'
      BY <2>1, <3>1 DEF TypeOK, msgVars, lineVars
    <3>3. Quiet'
      BY <2>1, <3>1, ZenonT(60) DEF Quiet, TypeOK
    <3>4. Paid' /\ Turns'
      BY <2>1, <3>1 DEF Paid, Turns, TypeOK, lineVars
    <3> QED
      BY <3>2, <3>3, <3>4
  <2> QED
    BY <2>2, <2>3 DEF TypeOK
<1>5. CASE Bottom
  <2>1. /\ supervisor = "bottom" /\ supervisor' = (IF USER_EXIT THEN "exited" ELSE "open")
        /\ UNCHANGED <<session, USER_EXIT, loop, taskVars, msgVars, lineVars, nEvents, nUnplugs>>
    BY <1>5 DEF Bottom, AtBottom
  <2>2. TypeOK'
    BY <2>1 DEF TypeOK, taskVars, msgVars, lineVars
  <2> QED
    BY <2>1, <2>2 DEF Paid, Turns, Quiet, TypeOK, taskVars, lineVars
<1> QED
  BY <1>1, <1>2, <1>3, <1>4, <1>5 DEF Supervisor

\* Failures and what a session reads besides ACKs.
LEMMA LineStep ==
  ASSUME IInv, Fails \/ Replug \/ \E s \in Sessions : RecvEvent(s) \/ RecvError(s)
  PROVE  TypeOK' /\ Paid' /\ Turns' /\ Quiet'
<1> USE ConstAssumption DEF IInv
<1>1. CASE Fails
  <2>1. PICK kind \in {"error", "eof"} :
          port' = [s \in Sessions |-> IF port[s] = "up" /\ loop[s] = "on" THEN kind ELSE port[s]]
    BY <1>1 DEF Fails
  <2>2. /\ nUnplugs' = nUnplugs + 1 /\ nUnplugs < MaxUnplugs /\ plugged' \in BOOLEAN /\ acks' \subseteq Msgs
        /\ UNCHANGED <<mainVars, loop, taskVars, msgVars, device, nEvents>>
    BY <1>1 DEF Fails, TypeOK
  <2>3. TypeOK'
    BY <2>1, <2>2 DEF TypeOK, mainVars, taskVars, msgVars
  <2>4. Turns' /\ Quiet'
    BY <2>1, <2>2 DEF Turns, Quiet, mainVars, taskVars
  <2>5. Paid'
    <3> SUFFICES ASSUME session > 0 PROVE session <= nUnplugs'
      BY <2>1, <2>2 DEF Paid, TypeOK, mainVars, Sessions
    <3> QED
      BY <2>2 DEF Paid, TypeOK
  <2> QED
    BY <2>3, <2>4, <2>5
<1>2. CASE Replug
  <2>1. plugged' = TRUE /\ UNCHANGED <<mainVars, loop, taskVars, msgVars, port, device, acks, nEvents, nUnplugs>>
    BY <1>2 DEF Replug
  <2>2. TypeOK'
    BY <2>1 DEF TypeOK, mainVars, taskVars, msgVars
  <2> QED
    BY <2>1, <2>2 DEF Paid, Turns, Quiet, mainVars, taskVars
<1>3. ASSUME NEW s \in Sessions, RecvEvent(s) PROVE TypeOK' /\ Paid' /\ Turns' /\ Quiet'
  <2>1. /\ nEvents' = nEvents + 1 /\ nEvents < MaxEvents
        /\ UNCHANGED <<mainVars, loop, event_task, timer_task, aborted, msgVars, lineVars, nUnplugs>>
        /\ events' = [events EXCEPT ![s] = @ + 1]
    BY <1>3 DEF RecvEvent
  <2>2. events[s] \in Nat
    BY DEF TypeOK
  <2>3. events' \in [Sessions -> 0 .. nEvents'] /\ nEvents' \in 0 .. MaxEvents
    BY <2>1, <2>2 DEF TypeOK
  <2>4. TypeOK'
    BY <2>1, <2>3 DEF TypeOK, mainVars, msgVars, lineVars
  <2> QED
    BY <2>1, <2>4 DEF Paid, Turns, Quiet, mainVars, lineVars
<1>4. ASSUME NEW s \in Sessions, RecvError(s) PROVE TypeOK' /\ Paid' /\ Turns' /\ Quiet'
  <2>1. /\ loop[s] = "on" /\ port[s] = "error" /\ loop' = [loop EXCEPT ![s] = "over"]
        /\ UNCHANGED <<mainVars, taskVars, made, of, id, toldOf, lineVars, nEvents, nUnplugs>>
        /\ state' = [m \in Msgs |-> CASE m \in Queue(s) -> "lost"
                                [] m \in waiting_ack(s) -> "closed"
                                [] OTHER -> state[m]]
    BY <1>4 DEF RecvError
  <2>2. state' \in [Msgs -> {"none", "bad", "queued", "lost", "waiting", "timeout", "acked", "closed"}]
    BY <2>1 DEF TypeOK
  <2>3. TypeOK'
    BY <2>1, <2>2 DEF TypeOK, mainVars, taskVars, lineVars
  <2> QED
    BY <2>1, <2>3 DEF Paid, Turns, Quiet, TypeOK, mainVars, taskVars, lineVars
<1> QED
  BY <1>1, <1>2, <1>3, <1>4

\* The messages: ids count up, whichever session's script makes them.
LEMMA MakeStep ==
  ASSUME IInv, NEW s \in Sessions, NEW fate \in {"queued", "lost", "bad"}, made < MaxMsgs,
         made' = made + 1, UNCHANGED <<toldOf, device, acks>>,
         of' = [of EXCEPT ![made + 1] = s], id' = [id EXCEPT ![made + 1] = made],
         state' = [state EXCEPT ![made + 1] = fate]
  PROVE  /\ Counted' /\ LateAckIgnored' /\ made' \in 0 .. MaxMsgs
         /\ of' \in [Msgs -> 0 .. MaxSessions] /\ id' \in [Msgs -> 0 .. MaxMsgs]
         /\ state' \in [Msgs -> {"none", "bad", "queued", "lost", "waiting", "timeout", "acked", "closed"}]
<1> USE ConstAssumption DEF IInv, TypeOK, Msgs, Sessions
<1>1. made \in Nat /\ made + 1 \in Msgs
  OBVIOUS
<1>2. \A m \in Msgs : m <= made' => id'[m] = m - 1
  BY <1>1 DEF Counted
<1>3. \A m \in Msgs : state'[m] # "none" => m <= made'
  BY <1>1 DEF Counted
<1>4. (device \cup acks)' \subseteq 1 .. made'
  BY <1>1 DEF Counted
<1>5. LateAckIgnored'
  BY <1>1 DEF LateAckIgnored
<1>6. of' \in [Msgs -> 0 .. MaxSessions] /\ id' \in [Msgs -> 0 .. MaxMsgs]
  BY <1>1
<1>7. state' \in [Msgs -> {"none", "bad", "queued", "lost", "waiting", "timeout", "acked", "closed"}]
  BY <1>1
<1> QED
  BY <1>1, <1>2, <1>3, <1>4, <1>5, <1>6, <1>7 DEF Counted

LEMMA MessageStepCounted ==
  ASSUME IInv, MessageStep PROVE TypeOK' /\ Counted' /\ LateAckIgnored'
<1> USE ConstAssumption DEF IInv
<1>1. UNCHANGED <<mainVars, loop, taskVars, plugged, port, nEvents, nUnplugs>>
  BY DEF MessageStep, DeviceAck, Transmit, RecvAck, Command, BadMessage, WaiterTimeout, lineVars
<1> DEFINE Types ==
      /\ made \in 0 .. MaxMsgs /\ of \in [Msgs -> 0 .. MaxSessions] /\ id \in [Msgs -> 0 .. MaxMsgs]
      /\ state \in [Msgs -> {"none", "bad", "queued", "lost", "waiting", "timeout", "acked", "closed"}]
      /\ toldOf \in [Msgs -> 0 .. MaxMsgs] /\ device \subseteq Msgs /\ acks \subseteq Msgs
<1>2. Types' => TypeOK'
  BY <1>1 DEF TypeOK, mainVars, taskVars
<1>3. Types
  BY DEF TypeOK
<1> HIDE DEF IInv
<1>4. ASSUME NEW s \in Sessions, Command(s) \/ BadMessage(s)
      PROVE  Types' /\ Counted' /\ LateAckIgnored'
  <2>1. /\ made < MaxMsgs /\ made' = made + 1 /\ UNCHANGED <<toldOf, device, acks>>
        /\ of' = [of EXCEPT ![made + 1] = s] /\ id' = [id EXCEPT ![made + 1] = made]
    BY <1>4 DEF Command, BadMessage, next_id, lineVars
  <2>2. PICK fate \in {"queued", "lost", "bad"} : state' = [state EXCEPT ![made + 1] = fate]
    BY <1>4 DEF Command, BadMessage
  <2> QED
    BY <1>3, <2>1, <2>2, MakeStep
<1>5. ASSUME NEW s \in Sessions, Transmit(s) PROVE Types' /\ Counted' /\ LateAckIgnored'
  <2>1. PICK m \in Queue(s) :
          /\ \/ state' = [state EXCEPT ![m] = "waiting"] \/ state' = [state EXCEPT ![m] = "lost"]
          /\ device' = device \/ device' = device \cup {m}
    BY <1>5 DEF Transmit
  <2>2. UNCHANGED <<made, of, id, toldOf, acks>>
    BY <1>5 DEF Transmit
  <2>3. m \in Msgs /\ state[m] = "queued"
    BY DEF Queue
  <2>4. m \in 1 .. made
    BY <1>3, <2>3 DEF IInv, Counted, Msgs
  <2>5. Types'
    BY <1>3, <2>1, <2>2, <2>3
  <2>6. Counted'
    BY <1>3, <2>1, <2>2, <2>3, <2>4 DEF IInv, Counted
  <2>7. LateAckIgnored'
    BY <1>3, <2>1, <2>2, <2>3 DEF IInv, LateAckIgnored
  <2> QED
    BY <2>5, <2>6, <2>7
<1>6. ASSUME NEW s \in Sessions, RecvAck(s) PROVE Types' /\ Counted' /\ LateAckIgnored'
  <2>1. UNCHANGED <<made, of, id, device>>
    BY <1>6 DEF RecvAck
  <2>2. PICK a \in acks :
          /\ acks' = acks \ {a}
          /\ LET found == {m \in waiting_ack(s) : id[m] = id[a]} IN
               /\ state' = [m \in Msgs |-> IF m \in found THEN "acked" ELSE state[m]]
               /\ toldOf' = [m \in Msgs |-> IF m \in found THEN a ELSE toldOf[m]]
    BY <1>6 DEF RecvAck
  <2>3. a \in Msgs /\ a \in 1 .. made
    BY <1>3 DEF IInv, Counted
  <2>4. \A m \in waiting_ack(s) : id[m] = id[a] => m = a
    <3> SUFFICES ASSUME NEW m \in waiting_ack(s), id[m] = id[a] PROVE m = a
      OBVIOUS
    <3>1. m \in Msgs /\ m <= made
      BY DEF waiting_ack, IInv, Counted
    <3>2. id[m] = m - 1 /\ id[a] = a - 1
      BY <2>3, <3>1 DEF IInv, Counted
    <3>3. m \in Int /\ a \in Int
      BY <2>3, <3>1 DEF Msgs
    <3>4. m - 1 = a - 1
      BY <3>2
    <3> QED
      BY <3>3, <3>4
  <2>5. Types'
    BY <1>3, <2>1, <2>2, <2>3
  <2>6. Counted'
    <3>1. \A m \in Msgs : state'[m] # "none" => state[m] # "none"
      BY <2>2 DEF waiting_ack
    <3> QED
      BY <2>1, <2>2, <3>1 DEF IInv, Counted
  <2>7. LateAckIgnored'
    BY <2>2, <2>4 DEF IInv, LateAckIgnored
  <2> QED
    BY <2>5, <2>6, <2>7
<1>7. CASE DeviceAck
  <2>1. UNCHANGED <<made, of, id, state, toldOf>>
    BY <1>7 DEF DeviceAck, msgVars
  <2>2. (device \cup acks)' \subseteq device \cup acks
    BY <1>7 DEF DeviceAck
  <2>3. Types'
    BY <1>3, <2>1, <2>2
  <2>4. Counted'
    BY <2>1, <2>2 DEF IInv, Counted
  <2>5. LateAckIgnored'
    BY <2>1 DEF IInv, LateAckIgnored
  <2> QED
    BY <1>2, <2>3, <2>4, <2>5
<1>8. ASSUME NEW m \in Msgs, WaiterTimeout(m) PROVE Types' /\ Counted' /\ LateAckIgnored'
  <2>1. /\ state[m] = "waiting" /\ state' = [state EXCEPT ![m] = "timeout"]
        /\ UNCHANGED <<made, of, id, toldOf, device, acks>>
    BY <1>8 DEF WaiterTimeout, lineVars
  <2> QED
    BY <1>3, <2>1 DEF IInv, Counted, LateAckIgnored
<1> QED
  BY <1>2, <1>4, <1>5, <1>6, <1>7, <1>8 DEF MessageStep

\* The other steps make no message and invent no ACK.
LEMMA OtherStepCounted ==
  ASSUME IInv,
         \/ Supervisor \/ CtrlC \/ Fails \/ Replug
         \/ \E s \in Sessions : RecvEvent(s) \/ RecvError(s) \/ EventTask(s) \/ TimerTask(s)
  PROVE  Counted' /\ LateAckIgnored'
<1>1. UNCHANGED <<made, id, toldOf>>
  BY DEF Supervisor, Open, Retry, HookNew, Spawn, Watch, Bottom, CtrlC, Fails, Replug, RecvEvent,
         RecvError, EventTask, OnEvent, EventTaskWaits, OnEventReturns, TimerTask, OnTick,
         OnTickReturns, msgVars
<1>2. (device \cup acks)' \subseteq device \cup acks
  BY DEF Supervisor, Open, Retry, HookNew, Spawn, Watch, Bottom, CtrlC, Fails, Replug, RecvEvent,
         RecvError, EventTask, OnEvent, EventTaskWaits, OnEventReturns, TimerTask, OnTick,
         OnTickReturns, lineVars
<1>3. \/ state' = state
      \/ \A m \in Msgs : /\ state'[m] # "none" => state[m] # "none"
                         /\ state'[m] = "acked" => state[m] = "acked"
  <2>1. ASSUME NEW s \in Sessions, RecvError(s)
        PROVE  \A m \in Msgs : /\ state'[m] # "none" => state[m] # "none"
                               /\ state'[m] = "acked" => state[m] = "acked"
    BY <2>1 DEF RecvError, Queue, waiting_ack
  <2>2. CASE \A s \in Sessions : ~RecvError(s)
    BY <2>2 DEF Supervisor, Open, Retry, HookNew, Spawn, Watch, Bottom, CtrlC, Fails, Replug, RecvEvent,
         EventTask, OnEvent, EventTaskWaits, OnEventReturns, TimerTask, OnTick, OnTickReturns, msgVars
  <2> QED
    BY <2>1, <2>2
<1> QED
  BY <1>1, <1>2, <1>3 DEF IInv, Counted, LateAckIgnored

LEMMA IInvStep == IInv /\ [Next]_vars => IInv'
<1> SUFFICES ASSUME IInv, [Next]_vars PROVE IInv'
  OBVIOUS
<1>1. CASE MessageStep
  BY <1>1, MessageStepTurns, MessageStepCounted DEF IInv
<1>2. CASE \/ Supervisor \/ CtrlC \/ Fails \/ Replug
           \/ \E s \in Sessions : RecvEvent(s) \/ RecvError(s) \/ EventTask(s) \/ TimerTask(s)
  <2>1. Counted' /\ LateAckIgnored'
    BY <1>2, OtherStepCounted
  <2>2. TypeOK' /\ Paid' /\ Turns' /\ Quiet'
    BY <1>2, SupervisorStep, LineStep, TaskStep
  <2> QED
    BY <2>1, <2>2 DEF IInv
<1>3. CASE UNCHANGED vars
  BY <1>3 DEF vars, mainVars, taskVars, msgVars, lineVars, IInv, TypeOK, Paid, Turns, Quiet, Counted,
             LateAckIgnored
<1> QED
  BY <1>1, <1>2, <1>3 DEF Next, Session, MessageStep

LEMMA Invariant == Spec => []IInv
<1> QED
  BY IInvInit, IInvStep, PTL DEF Spec

-----------------------------------------------------------------------------
\* Every variable of the program keeps its type; among other things there is always
\* room for the session that follows a failure.
THEOREM BridgeTypeCorrect == Spec => []TypeOK
<1>1. IInv => TypeOK
  BY DEF IInv
<1> QED
  BY <1>1, Invariant, PTL

\* An ACK for a message of an ended session never resolves a waiter of the next
\* one (examples/serial.rs:68, src/serial_task.rs:19).
THEOREM LateAckIgnoredAlways == Spec => []LateAckIgnored
<1>1. IInv => LateAckIgnored
  BY DEF IInv
<1> QED
  BY <1>1, Invariant, PTL

\* When a session is started the one before is over and its hook tasks are at most
\* in the middle of their last calls (examples/serial.rs:137-143).
THEOREM OldSessionsWindDownAlways == Spec => []OldSessionsWindDown
<1>1. IInv => OldSessionsWindDown
  <2> SUFFICES ASSUME IInv, NEW s \in 1 .. session - 1
               PROVE  /\ loop[s] = "over" /\ event_task[s] \in {"hook", "turn", "ended"}
                      /\ timer_task[s] \in {"hook", "ended"}
    BY DEF OldSessionsWindDown
  <2>1. s \in aborted
    BY DEF IInv, Turns, TypeOK
  <2> QED
    BY <2>1 DEF IInv, Quiet, TypeOK
<1> QED
  BY <1>1, Invariant, PTL
=============================================================================
