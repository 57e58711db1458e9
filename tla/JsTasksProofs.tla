---------------------------- MODULE JsTasksProofs ----------------------------
(***************************************************************************)
(* Theorems of JsTasks, for any scripts of any number of tasks, messages   *)
(* that keep coming, any number of them waiting at a time, and a budget of *)
(* tokio that may run out in any poll.                                     *)
(***************************************************************************)
EXTENDS JsTasks, TLAPS

\* A task has the oneshot of its cancel function once it is started, and only if
\* its function returns one.
Started ==
  \A t \in Tasks :
    /\ Kind(t) = "none" => task[t] = "none"
    /\ task[t] = "none" => cancel_tx[t] = "none" /\ cancel_rx[t] = "none" /\ told[t] = "nothing"
    /\ Kind(t) \in {"recv", "cb"} => cancel_tx[t] = "none" /\ cancel_rx[t] \in {"none", "gone"}

\* The task in the middle of a poll is the one that has the thread.
OnThread == \A t \in Tasks : task[t] \in {"turn", "calling"} <=> js = t

\* The reader past the lock is the one that holds it.
Holder ==
  \A t \in Tasks : Kind(t) \in Readers =>
    (task[t] \in {"turn", "waiting", "calling"} <=> guard = t)

\* A cancellation that succeeded stays in the oneshot until the task sees it: it is
\* over, or a timeout whose select! took the sleep.
Heard ==
  \A t \in Tasks : told[t] # "nothing" =>
    /\ cancel_tx[t] = "spent"
    /\ cancel_rx[t] = "sent" \/ Over(t) \/ (Kind(t) = "timeout" /\ task[t] = "calling")

\* The timer, whose budget has not run out, is past its last call and cannot be
\* called again: it is over, or keeps the thread until it is, its next sleep just begun.
Finishing(t) ==
  \/ Over(t)
  \/ js = t /\ sleep[t] # "elapsed" /\ (Kind(t) = "timeout" => task[t] = "calling")

\* A call after the cancellation, or a cancellation in the call, is the last one.
LastCall ==
  \A t \in Tasks : Kind(t) \in Timers =>
    /\ Kind(t) = "timeout" \/ t \notin cut =>
         late[t] <= 1 /\ (told[t] = "self" => late[t] = 0)
    /\ late[t] > 0 => told[t] # "nothing"
    /\ t \notin cut /\ (late[t] > 0 \/ told[t] = "self") => Finishing(t)
    /\ Kind(t) = "timeout" => told[t] # "self" /\ (late[t] > 0 => task[t] \in {"calling", "ended"})
    /\ task[t] = "calling" => sleep[t] # "elapsed"
    /\ t \in early => Kind(t) = "timeout" /\ told[t] = "nothing" /\ task[t] \in {"calling", "ended"}

SelfOver == \A t \in Tasks \ cut : told[t] = "self" => js = t \/ task[t] = "ended"

IInv ==
  /\ TypeOK /\ Started /\ OnThread /\ Holder /\ ReceiverKept /\ Heard /\ LastCall /\ SelfOver

-----------------------------------------------------------------------------
LEMMA IInvInit == Init => IInv
<1> SUFFICES ASSUME Init PROVE IInv
  OBVIOUS
<1> USE ConstAssumption DEF Init, Idle, Main, NoTask
<1>1. TypeOK
  <2>1. task = [t \in Tasks |-> "none"] /\ queue \in 0 .. MaxMsgs
    OBVIOUS
  <2>2. \A t \in Tasks : task[t] = "none"
    BY <2>1
  <2>3. {USER_EXIT, suspended, slot, senders, thrown} \subseteq BOOLEAN
    BY Zenon
  <2> QED
    BY <2>1, <2>2, <2>3 DEF TypeOK
<1>2. Started /\ OnThread /\ Heard /\ LastCall /\ SelfOver
  BY DEF Started, OnThread, Heard, LastCall, SelfOver, Tasks, Kind, Readers
<1>3. Holder /\ ReceiverKept
  BY DEF Holder, ReceiverKept, Tasks
<1> QED
  BY <1>1, <1>2, <1>3 DEF IInv

\* A step of a task t leaves the other tasks alone, and the thread is t's or nobody's
\* before and after it, unless it is the script that acts upon t.
Others(t) ==
  /\ task' \in [Tasks -> {"none", "new", "turn", "waiting", "calling", "ended", "refused"}]
  /\ sleep' \in [Tasks -> {"none", "running", "elapsed"}]
  /\ cancel_tx' \in [Tasks -> {"none", "held", "spent", "dropped"}]
  /\ cancel_rx' \in [Tasks -> {"none", "open", "sent", "closed", "disabled", "completed", "gone"}]
  /\ told' \in [Tasks -> {"nothing", "ok", "self"}]
  /\ late' \in [Tasks -> 0 .. 2]
  /\ early' \in {early, early \cup {t}} /\ cut' \in {cut, cut \cup {t}}
  /\ \A u \in Tasks \ {t} :
       /\ task'[u] = task[u] /\ sleep'[u] = sleep[u] /\ cancel_tx'[u] = cancel_tx[u]
       /\ cancel_rx'[u] = cancel_rx[u] /\ told'[u] = told[u] /\ late'[u] = late[u]
  /\ js' = js \/ (js \in {Idle, t} /\ js' \in {Idle, t})
  /\ guard' = guard \/ (guard \in {NoTask, t} /\ guard' \in {NoTask, t})
  /\ script' = script

TaskStep(t) == Script(t) \/ TimerTask(t) \/ ReaderTask(t) \/ Select(t) \/ Elapses(t)

LEMMA StepOthers ==
  ASSUME IInv, NEW t \in Tasks, TaskStep(t)
  PROVE  Others(t)
<1> USE DEF IInv, TypeOK, Others, vars, hostVars, chanVars, history, Idle, Main, NoTask
<1>1. CASE Script(t)
  BY <1>1 DEF Script, Start, Cancel, Forget
<1>2. CASE TimerTask(t)
  BY <1>2 DEF TimerTask, TimerBegins, Fires, TimerReturns, Begin, Turn, NextTurn, Call, Upto2,
     FreshSleep, AfterSleep, Polled
<1>3. CASE ReaderTask(t)
  <2>1. CASE ReaderBegins(t) \/ RecvBegins(t)
    BY <2>1 DEF ReaderBegins, RecvBegins, Begin
  <2>2. CASE Takes(t)
    BY <2>2 DEF Takes, Call, Upto2, Polled, Holder
  <2>3. CASE ChannelClosed(t)
    BY <2>3 DEF ChannelClosed, Polled, Holder
  <2>4. CASE ReaderReturns(t) \/ ReaderThrows(t)
    BY <2>4 DEF ReaderReturns, ReaderThrows, Turn, NextTurn, Holder
  <2> QED
    BY <1>3, <2>1, <2>2, <2>3, <2>4 DEF ReaderTask
<1>4. CASE Select(t)
  BY <1>4 DEF Select, Cancelled, CancelGone, CancelRepolled, Waits, Yields, Polled, Broken, Cancellable,
     Returned, Holder, Readers
<1>5. CASE Elapses(t)
  BY <1>5 DEF Elapses
<1> QED
  BY <1>1, <1>2, <1>3, <1>4, <1>5 DEF TaskStep

\* What a step does to the parts of the invariant that speak of single tasks.
LEMMA StepTypeOK ==
  ASSUME IInv, NEW t \in Tasks, TaskStep(t)
  PROVE  TypeOK'
<1> USE ConstAssumption DEF IInv
<1>1. Others(t)
  BY StepOthers
<1>2. early' \subseteq Tasks /\ cut' \subseteq Tasks
  BY <1>1 DEF Others, TypeOK
<1>3. js' \in Tasks \cup {Idle, Main} /\ guard' \in Tasks \cup {NoTask}
  BY <1>1 DEF Others, TypeOK
<1>4. /\ host' \in {"script", "drain", "exited", "panicked", "blocked"}
      /\ {USER_EXIT', suspended', slot', senders', thrown'} \subseteq BOOLEAN
      /\ queue' \in 0 .. MaxMsgs
  <2> USE DEF TypeOK, vars, hostVars, chanVars, history, Call
  <2>1. CASE Script(t) \/ TimerTask(t) \/ Elapses(t)
    BY <2>1 DEF Script, Start, Cancel, Forget, TimerTask, TimerBegins, Fires, TimerReturns, Elapses
  <2>2. CASE ReaderTask(t)
    <3>1. CASE ReaderBegins(t) \/ RecvBegins(t)
      BY <3>1 DEF ReaderBegins, RecvBegins
    <3>2. CASE Takes(t)
      <4>1. queue' \in 0 .. MaxMsgs
        BY <3>2 DEF Takes
      <4> QED
        BY <3>2, <4>1 DEF Takes
    <3>3. CASE ChannelClosed(t)
      BY <3>3 DEF ChannelClosed
    <3>4. CASE ReaderReturns(t) \/ ReaderThrows(t)
      BY <3>4 DEF ReaderReturns, ReaderThrows
    <3> QED
      BY <2>2, <3>1, <3>2, <3>3, <3>4 DEF ReaderTask
  <2>3. CASE Select(t)
    BY <2>3 DEF Select, Cancelled, CancelGone, CancelRepolled, Waits, Yields, Returned
  <2> QED
    BY <2>1, <2>2, <2>3 DEF TaskStep
<1>5. Kind(t) = "timeout" /\ task'[t] \in {"calling", "ended"} => cancel_rx'[t] = "gone"
  <2> USE DEF TypeOK, vars, hostVars, chanVars, history, Call, Kind
  <2>1. CASE Script(t) \/ TimerTask(t) \/ Elapses(t)
    BY <2>1 DEF Script, Start, Cancel, Forget, TimerTask, TimerBegins, Fires, TimerReturns, Elapses,
       Begin, AfterSleep, Turn, NextTurn
  <2>2. CASE ReaderTask(t)
    BY <2>2 DEF ReaderTask, ReaderBegins, RecvBegins, Takes, ChannelClosed, ReaderReturns, ReaderThrows,
       Readers
  <2>3. CASE Select(t)
    BY <2>3 DEF Select, Cancelled, CancelGone, CancelRepolled, Waits, Yields, Broken, Polled
  <2> QED
    BY <2>1, <2>2, <2>3 DEF TaskStep
<1> QED
  BY <1>1, <1>2, <1>3, <1>4, <1>5 DEF TypeOK, Others, Kind

LEMMA StepStarted ==
  ASSUME IInv, NEW t \in Tasks, TaskStep(t)
  PROVE  Started'
<1> USE DEF IInv, TypeOK, Started, Kind
<1>1. Others(t)
  BY StepOthers
<1>2. /\ Kind(t) = "none" => task'[t] = "none"
      /\ task'[t] = "none" => cancel_tx'[t] = "none" /\ cancel_rx'[t] = "none" /\ told'[t] = "nothing"
      /\ Kind(t) \in {"recv", "cb"} => cancel_tx'[t] = "none" /\ cancel_rx'[t] \in {"none", "gone"}
  <2> USE DEF vars, hostVars, chanVars, history, Call, Polled
  <2>1. CASE Script(t) \/ TimerTask(t) \/ Elapses(t)
    BY <2>1 DEF Script, Start, Cancel, Forget, TimerTask, TimerBegins, Fires, TimerReturns, Elapses,
       Begin, Timers, AfterSleep, Turn, NextTurn
  <2>2. CASE ReaderTask(t)
    BY <2>2 DEF ReaderTask, ReaderBegins, RecvBegins, Takes, ChannelClosed, ReaderReturns, ReaderThrows,
       Begin, Readers, Turn, NextTurn
  <2>3. CASE Select(t)
    BY <2>3 DEF Select, Cancelled, CancelGone, CancelRepolled, Waits, Yields, Broken, Cancellable
  <2> QED
    BY <2>1, <2>2, <2>3 DEF TaskStep
<1> QED
  BY <1>1, <1>2 DEF Others

LEMMA StepOnThread ==
  ASSUME IInv, NEW t \in Tasks, TaskStep(t)
  PROVE  OnThread'
<1> USE ConstAssumption DEF IInv, TypeOK, OnThread, Idle, Main, Tasks
<1>1. Others(t)
  BY StepOthers
<1>2. task'[t] \in {"turn", "calling"} <=> js' = t
  <2> USE DEF vars, hostVars, chanVars, history, Call, Polled
  <2>1. CASE Script(t) \/ TimerTask(t) \/ Elapses(t)
    BY <2>1 DEF Script, Start, Cancel, Forget, TimerTask, TimerBegins, Fires, TimerReturns, Elapses,
       Begin, Turn, NextTurn
  <2>2. CASE ReaderTask(t)
    BY <2>2 DEF ReaderTask, ReaderBegins, RecvBegins, Takes, ChannelClosed, ReaderReturns, ReaderThrows,
       Begin, Turn, NextTurn
  <2>3. CASE Select(t)
    BY <2>3 DEF Select, Cancelled, CancelGone, CancelRepolled, Waits, Yields, Broken
  <2> QED
    BY <2>1, <2>2, <2>3 DEF TaskStep
<1> QED
  BY <1>1, <1>2 DEF Others

LEMMA StepHolder ==
  ASSUME IInv, NEW t \in Tasks, TaskStep(t)
  PROVE  Holder' /\ ReceiverKept'
<1> USE ConstAssumption DEF IInv, TypeOK, Kind, NoTask, Tasks
<1>1. Others(t)
  BY StepOthers
<1>2. /\ Kind(t) \in Readers => (task'[t] \in {"turn", "waiting", "calling"} <=> guard' = t)
      /\ Kind(t) \notin Readers => guard' = guard
      /\ slot' => guard' = NoTask
      /\ ~slot' /\ guard' = NoTask => (~senders' /\ queue' = 0) \/ thrown'
  <2> USE DEF Holder, ReceiverKept, vars, hostVars, chanVars, history, Call, Polled
  <2>1. CASE Script(t) \/ TimerTask(t) \/ Elapses(t)
    BY <2>1 DEF Script, Start, Cancel, Forget, TimerTask, TimerBegins, Fires, TimerReturns, Elapses,
       Timers, Readers
  <2>2. CASE ReaderTask(t)
    <3>1. CASE ReaderBegins(t) \/ RecvBegins(t)
      BY <3>1 DEF ReaderBegins, RecvBegins, Begin, Readers
    <3>2. CASE Takes(t) \/ ChannelClosed(t)
      BY <3>2 DEF Takes, ChannelClosed, Readers
    <3>3. CASE ReaderReturns(t) \/ ReaderThrows(t)
      BY <3>3 DEF ReaderReturns, ReaderThrows, Turn, NextTurn
    <3> QED
      BY <2>2, <3>1, <3>2, <3>3 DEF ReaderTask
  <2>3. CASE Select(t)
    <3>1. CASE Cancelled(t)
      <4>1. Kind(t) \in Readers => Kind(t) = "cb_cancel"
        BY <3>1 DEF Cancelled, Cancellable, Started, Readers
      <4>2. Kind(t) = "cb_cancel" => Kind(t) \in Readers /\ slot' /\ guard' = NoTask
        BY <3>1 DEF Cancelled, Returned, Readers
      <4>3. /\ Kind(t) # "cb_cancel" => UNCHANGED <<slot, guard>>
            /\ task'[t] = "ended" /\ UNCHANGED <<senders, queue, thrown>>
        BY <3>1 DEF Cancelled, Broken
      <4> QED
        BY <4>1, <4>2, <4>3
    <3>2. CASE CancelGone(t) \/ CancelRepolled(t) \/ Waits(t) \/ Yields(t)
      BY <3>2 DEF CancelGone, CancelRepolled, Waits, Yields
    <3> QED
      BY <2>3, <3>1, <3>2 DEF Select
  <2> QED
    BY <2>1, <2>2, <2>3 DEF TaskStep
<1>3. Holder'
  <2> SUFFICES ASSUME NEW u \in Tasks, Kind(u) \in Readers
               PROVE  task'[u] \in {"turn", "waiting", "calling"} <=> guard' = u
    BY <1>1 DEF Holder, Others
  <2>1. CASE u = t
    BY <1>2, <2>1
  <2>2. CASE u # t
    <3>1. task'[u] = task[u] /\ (guard' = u <=> guard = u)
      BY <1>1, <2>2 DEF Others
    <3> QED
      BY <3>1 DEF Holder
  <2> QED
    BY <2>1, <2>2
<1>4. guard' # NoTask => Kind(guard') \in Readers /\ task'[guard'] \in {"turn", "waiting", "calling"}
  <2>1. CASE guard' = t
    BY <1>2, <2>1 DEF ReceiverKept
  <2>2. CASE guard' # t
    BY <1>1, <2>2 DEF Others, ReceiverKept
  <2> QED
    BY <2>1, <2>2
<1> QED
  BY <1>1, <1>2, <1>3, <1>4 DEF ReceiverKept, Others

LEMMA StepHeard ==
  ASSUME IInv, NEW t \in Tasks, TaskStep(t)
  PROVE  Heard'
<1> USE DEF IInv, TypeOK, Heard, Kind, Over
<1>1. Others(t)
  BY StepOthers
<1>2. told'[t] # "nothing" =>
        /\ cancel_tx'[t] = "spent"
        /\ \/ cancel_rx'[t] = "sent" \/ task'[t] \in {"ended", "refused"}
           \/ Kind(t) = "timeout" /\ task'[t] = "calling"
  <2> USE DEF vars, hostVars, chanVars, history, Call, Polled
  <2>1. CASE Script(t)
    BY <2>1 DEF Script, Start, Cancel, Forget, Started
  <2>2. CASE TimerTask(t) \/ Elapses(t)
    BY <2>2 DEF TimerTask, TimerBegins, Fires, TimerReturns, Elapses, Begin, AfterSleep, Turn,
       NextTurn
  <2>3. CASE ReaderTask(t)
    BY <2>3 DEF ReaderTask, ReaderBegins, RecvBegins, Takes, ChannelClosed, ReaderReturns, ReaderThrows,
       Begin, Readers, Turn, NextTurn
  <2>4. CASE Select(t)
    BY <2>4 DEF Select, Cancelled, CancelGone, CancelRepolled, Waits, Yields, Broken
  <2> QED
    BY <2>1, <2>2, <2>3, <2>4 DEF TaskStep
<1> QED
  BY <1>1, <1>2 DEF Others

LEMMA StepSelfOver ==
  ASSUME IInv, NEW t \in Tasks, TaskStep(t)
  PROVE  SelfOver'
<1> USE ConstAssumption DEF IInv, TypeOK, SelfOver, Kind, Over, Idle, Main, Tasks
<1>1. Others(t)
  BY StepOthers
<1>2. told'[t] = "self" /\ t \notin cut' => js' = t \/ task'[t] = "ended"
  <2> USE DEF vars, hostVars, chanVars, history, Call, Polled
  <2>1. CASE Script(t)
    BY <2>1 DEF Script, Start, Cancel, Forget, Started
  <2>2. CASE TimerTask(t) \/ Elapses(t)
    BY <2>2 DEF TimerTask, TimerBegins, Fires, TimerReturns, Elapses, Begin, Turn, NextTurn, OnThread
  <2>3. CASE ReaderTask(t)
    BY <2>3 DEF ReaderTask, ReaderBegins, RecvBegins, Takes, ChannelClosed, ReaderReturns, ReaderThrows,
       Begin, Turn, NextTurn, OnThread
  <2>4. CASE Cancelled(t) \/ CancelGone(t) \/ CancelRepolled(t)
    BY <2>4 DEF Cancelled, CancelGone, CancelRepolled, Broken
  <2>5. CASE Waits(t)
    BY <2>5 DEF Waits, Heard
  <2>6. CASE Yields(t)
    BY <2>6 DEF Yields
  <2> QED
    BY <2>1, <2>2, <2>3, <2>4, <2>5, <2>6 DEF TaskStep, Select
<1> QED
  BY <1>1, <1>2 DEF Others

LEMMA StepLastCall ==
  ASSUME IInv, NEW t \in Tasks, TaskStep(t)
  PROVE  LastCall'
<1> USE ConstAssumption DEF IInv, TypeOK, Kind, Over, Idle, Main, Tasks
<1>1. Others(t)
  BY StepOthers
<1>2. ASSUME Kind(t) \in Timers
      PROVE  /\ Kind(t) = "timeout" \/ t \notin cut' =>
                  late'[t] <= 1 /\ (told'[t] = "self" => late'[t] = 0)
             /\ late'[t] > 0 => told'[t] # "nothing"
             /\ t \notin cut' /\ (late'[t] > 0 \/ told'[t] = "self") => Finishing(t)'
             /\ Kind(t) = "timeout" =>
                  told'[t] # "self" /\ (late'[t] > 0 => task'[t] \in {"calling", "ended"})
             /\ task'[t] = "calling" => sleep'[t] # "elapsed"
             /\ t \in early' =>
                  Kind(t) = "timeout" /\ told'[t] = "nothing" /\ task'[t] \in {"calling", "ended"}
  <2> USE <1>2 DEF vars, hostVars, chanVars, history, Polled, LastCall, Finishing
  <2>1. CASE Start(t) \/ Forget(t)
    BY <2>1 DEF Start, Forget, Started, Heard
  <2>2. CASE Cancel(t)
    <3>1. UNCHANGED <<script, js, task, sleep, late, early, cut>>
      BY <2>2 DEF Cancel
    <3>2. ASSUME told' # told
          PROVE  /\ cancel_tx[t] = "held" /\ cancel_rx[t] = "open"
                 /\ told' = [told EXCEPT ![t] = IF js = t THEN "self" ELSE "ok"]
      BY <2>2, <3>2 DEF Cancel
    <3>3. CASE told' = told
      BY <3>1, <3>3
    <3>4. CASE told' # told
      <4>1. told[t] = "nothing" /\ late[t] = 0 /\ t \notin early
        BY <3>2, <3>4 DEF Heard
      <4>2. told'[t] = "self" => js = t /\ sleep[t] # "elapsed" /\ (Kind(t) = "timeout" => task[t] = "calling")
        BY <2>2, <3>2, <3>4 DEF Cancel, InScript, Alive
      <4>3. Kind(t) = "timeout" => told'[t] # "self"
        BY <2>2, <3>2, <3>4, <4>2 DEF Cancel
      <4>4. late'[t] = 0 /\ told'[t] # "nothing" /\ t \notin early'
        BY <3>1, <3>2, <3>4, <4>1
      <4>5. told'[t] = "self" => Finishing(t)'
        BY <3>1, <4>2
      <4> QED
        BY <3>1, <4>3, <4>4, <4>5
    <3> QED
      BY <3>3, <3>4
  <2>3. CASE Fires(t)
    <3>1. /\ task[t] \in {"turn", "waiting"} /\ sleep[t] = "elapsed"
          /\ task'[t] = "calling" /\ js' = t /\ sleep'[t] = "none" /\ told' = told
      BY <2>3 DEF Fires, Call
    <3>2. /\ Kind(t) = "timeout" \/ t \notin cut => late[t] = 0 /\ told[t] # "self"
          /\ t \notin early /\ late[t] \in 0 .. 2 /\ (told[t] = "nothing" => late[t] = 0)
      <4>1. t \notin cut => late[t] = 0 /\ told[t] # "self"
        <5>1. ~ Finishing(t)
          BY <3>1
        <5>2. ~ (t \notin cut /\ (late[t] > 0 \/ told[t] = "self"))
          BY <5>1
        <5>3. late[t] \in 0 .. 2
          OBVIOUS
        <5> QED
          BY <5>2, <5>3
      <4>2. Kind(t) = "timeout" => late[t] = 0 /\ told[t] # "self"
        <5>1. Kind(t) = "timeout" => told[t] # "self" /\ ~ (late[t] > 0)
          BY <3>1
        <5>2. late[t] \in 0 .. 2
          OBVIOUS
        <5> QED
          BY <5>1, <5>2
      <4>3. t \notin early
        BY <3>1
      <4>4. late[t] \in 0 .. 2 /\ (told[t] = "nothing" => late[t] = 0)
        OBVIOUS
      <4> QED
        BY <4>1, <4>2, <4>3, <4>4
    <3>3. /\ late'[t] = IF told[t] # "nothing" THEN Upto2(late[t]) ELSE late[t]
          /\ t \in early' <=> Kind(t) = "timeout" /\ told[t] = "nothing"
          /\ cut' = cut
      BY <2>3, <3>2 DEF Fires, Call
    <3>4. /\ Kind(t) = "timeout" \/ t \notin cut => late'[t] <= 1
          /\ late'[t] > 0 => told[t] # "nothing"
      BY <3>2, <3>3 DEF Upto2
    <3>5. t \notin cut /\ late'[t] > 0 => Finishing(t)'
      BY <3>1, <1>2, <1>1 DEF Others
    <3> QED
      BY <3>1, <3>2, <3>3, <3>4, <3>5
  <2>4. CASE TimerBegins(t) \/ Elapses(t)
    BY <2>4 DEF TimerBegins, Elapses, Begin, FreshSleep, OnThread
  <2>5. CASE TimerReturns(t)
    BY <2>5 DEF TimerReturns, Turn, NextTurn, FreshSleep
  <2>6. CASE Select(t)
    <3>1. CASE Cancelled(t)
      BY <3>1 DEF Cancelled, Broken
    <3>2. CASE CancelGone(t) \/ CancelRepolled(t)
      BY <3>2 DEF CancelGone, CancelRepolled
    <3>3. CASE Waits(t)
      BY <3>3 DEF Waits, Heard
    <3>4. CASE Yields(t)
      BY <3>4 DEF Yields
    <3> QED
      BY <2>6, <3>1, <3>2, <3>3, <3>4 DEF Select
  <2> QED
    BY <2>1, <2>2, <2>3, <2>4, <2>5, <2>6
       DEF TaskStep, Script, TimerTask, ReaderTask, ReaderBegins, RecvBegins, Takes, ChannelClosed,
           ReaderReturns, ReaderThrows, Timers, Readers
<1>3. \A u \in Tasks \ {t} : Finishing(u) => Finishing(u)'
  BY <1>1 DEF Others, Finishing
<1>4. \A u \in Tasks \ {t} : u \in early' => u \in early
  BY <1>1 DEF Others
<1> QED
  BY <1>1, <1>2, <1>3, <1>4 DEF Others, LastCall

\* The program, the user, the senders and the script that lets the thread go touch no
\* task.
ProgramStep == Program \/ CtrlC \/ Send \/ DropSenders

LEMMA StepProgram == IInv /\ ProgramStep => IInv'
<1> SUFFICES ASSUME IInv, ProgramStep PROVE IInv'
  OBVIOUS
<1> USE ConstAssumption DEF IInv
<1>1. /\ UNCHANGED <<script, task, sleep, cancel_tx, cancel_rx, slot, guard, history>>
      /\ js' = js \/ (js \in {Idle, Main} /\ js' \in {Idle, Main})
  BY DEF ProgramStep, Program, ScriptWaits, ScriptResumes, ScriptEnds, DrainEnds, CtrlC, Send,
     DropSenders, hostVars, chanVars
<1>2. /\ host' \in {"script", "drain", "exited", "panicked", "blocked"}
      /\ {USER_EXIT', suspended', senders'} \subseteq BOOLEAN
  BY DEF ProgramStep, Program, ScriptWaits, ScriptResumes, ScriptEnds, DrainEnds, CtrlC, Send,
     DropSenders, hostVars, chanVars, TypeOK
<1>3. /\ queue' \in 0 .. MaxMsgs
      /\ ~senders /\ queue = 0 => ~senders' /\ queue' = 0
  <2>1. CASE Program \/ CtrlC \/ DropSenders
    <3>1. UNCHANGED queue
      BY <2>1 DEF Program, ScriptWaits, ScriptResumes, ScriptEnds, DrainEnds, CtrlC, DropSenders, chanVars
    <3>2. ~senders => ~senders'
      BY <2>1 DEF Program, ScriptWaits, ScriptResumes, ScriptEnds, DrainEnds, CtrlC, DropSenders, chanVars
    <3> QED
      BY <3>1, <3>2 DEF TypeOK
  <2>2. CASE Send
    <3>1. senders /\ queue < MaxMsgs /\ queue' = queue + 1
      BY <2>2 DEF Send
    <3> QED
      BY <3>1 DEF TypeOK
  <2> QED
    BY <2>1, <2>2 DEF ProgramStep
<1>4. TypeOK'
  BY <1>1, <1>2, <1>3 DEF TypeOK, history, Kind
<1>5. Started' /\ OnThread' /\ Heard'
  BY <1>1 DEF Started, OnThread, Heard, history, Kind, Over, Tasks, Idle, Main
<1>6. Holder' /\ ReceiverKept'
  BY <1>1, <1>3 DEF Holder, ReceiverKept, history, Kind
<1>7. LastCall' /\ SelfOver'
  BY <1>1 DEF LastCall, SelfOver, Finishing, history, Kind, Over, Tasks, Idle, Main
<1> QED
  BY <1>4, <1>5, <1>6, <1>7

LEMMA IInvNext == IInv /\ [Next]_vars => IInv'
<1> SUFFICES ASSUME IInv, [Next]_vars PROVE IInv'
  OBVIOUS
<1>1. ASSUME NEW t \in Tasks, TaskStep(t) PROVE IInv'
  BY <1>1, StepTypeOK, StepStarted, StepOnThread, StepHolder, StepHeard, StepLastCall, StepSelfOver
     DEF IInv
<1>2. CASE ProgramStep
  BY <1>2, StepProgram
<1>3. CASE UNCHANGED vars
  BY <1>3 DEF IInv, TypeOK, Started, OnThread, Holder, ReceiverKept, Heard, LastCall, SelfOver, Finishing,
     vars, hostVars, chanVars, history, Kind, Over
<1> QED
  BY <1>1, <1>2, <1>3 DEF Next, TaskStep, ProgramStep

LEMMA IInvAlways == Spec => []IInv
BY IInvInit, IInvNext, PTL DEF Spec

-----------------------------------------------------------------------------
\* The variables have their types, and a timeout gives up its oneshot before its
\* handler runs.
THEOREM TasksTyped == Spec => []TypeOK
BY IInvAlways, PTL DEF IInv

\* The channel's receiver is never lost: it is in the mutex or with the one task that
\* holds the lock, until the channel is closed or a callback of _cb throws.
THEOREM ReceiverIsKept == Spec => []ReceiverKept
BY IInvAlways, PTL DEF IInv

\* What is cancelled from inside its own callback keeps the thread until it is over,
\* unless tokio's budget for this poll runs out before it sees the cancel.
THEOREM SelfCancelKeepsThread == Spec => []SelfCancelIsFinal
<1>1. IInv => SelfCancelIsFinal
  BY DEF IInv, SelfOver, SelfCancelIsFinal
<1> QED
  BY <1>1, IInvAlways, PTL

\* Cancelling a timer succeeds only before its timeout ran, and lets it run at most
\* once more, an interval that cancels itself not at all; only for an interval whose
\* budget runs out before it sees the cancel is that not so.
THEOREM AtMostOneLateCall == Spec => []OneLateCall
<1>1. IInv => OneLateCall
  BY DEF IInv, TypeOK, LastCall, OneLateCall
<1> QED
  BY <1>1, IInvAlways, PTL
=============================================================================
