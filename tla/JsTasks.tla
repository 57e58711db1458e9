------------------------------- MODULE JsTasks -------------------------------
(***************************************************************************)
(* The tasks the JavaScript functions of src/rquickjs_util.rs put on the   *)
(* runtime: setTimeout, setInterval, and the reader of a channel given to  *)
(* the script by register_rx_channel, _cb or _cb_cancel; with the program  *)
(* that runs them (examples/mqtt_js.rs).                                   *)
(*                                                                         *)
(* One thread polls all tasks and runs all JavaScript.  Variable js says   *)
(* whose turn it is: a task keeps the thread from the poll that wakes it   *)
(* until it waits again, its callback included, or until the budget that   *)
(* tokio gives one poll of the runtime (128 messages, sleeps and oneshots) *)
(* is used up.                                                             *)
(***************************************************************************)
EXTENDS Integers

CONSTANTS
  MaxTasks,   (* bound: tasks a script starts                               *)
  Scripts,    (* what these tasks may be, in the order they are started     *)
  MaxMsgs     (* bound: messages in the channel at a time                   *)

Timers == {"timeout", "interval"}
Readers == {"recv", "cb", "cb_cancel"}     \* the three register functions
Kinds == Timers \cup Readers \cup {"none"}
Tasks == 1 .. MaxTasks

\* A channel is registered once, so a script reads it in one way.
ASSUME ConstAssumption ==
  /\ MaxMsgs \in Nat /\ MaxTasks \in Nat /\ Scripts \subseteq [Tasks -> Kinds]
  /\ \A s \in Scripts : \A i, j \in Tasks :
       {s[i], s[j]} \subseteq Readers => s[i] = s[j]

Idle == 0                 \* nobody has the thread
Main == -1                \* the script has it
NoTask == 0

VARIABLES
  host,       (* main: in the "script", in the "drain" loop, or over        *)
  USER_EXIT,  (* Ctrl-C                                                     *)
  js,         (* who has the thread                                         *)
  suspended,  (* script code waits for a promise                            *)
  script,     (* the script of this run                                     *)
  task,       (* where the task is                                          *)
  sleep,      (* its tokio sleep                                            *)
  cancel_tx,  (* the oneshot sender in its cancel function                  *)
  cancel_rx,  (* the oneshot receiver                                       *)
  slot,       (* the mutex holds the channel's receiver                     *)
  guard,      (* the task that holds the mutex                              *)
  senders,    (* some sender of the channel is alive                        *)
  queue,      (* number of messages in the channel                          *)
  thrown,     (* a callback of a reader has thrown (history)                *)
  told,       (* cancel succeeded: "ok", or "self" from inside the task's   *)
              (* own callback (history)                                     *)
  early,      (* timeouts that ran when not cancelled (history)             *)
  late,       (* how often the callback ran after that, up to 2 (history)   *)
  cut         (* tasks whose budget ran out after that (history)            *)

hostVars == <<host, USER_EXIT, suspended>>
chanVars == <<slot, guard, senders, queue>>
history  == <<thrown, told, early, late, cut>>
vars == <<hostVars, js, script, task, sleep, cancel_tx, cancel_rx, chanVars, history>>

Kind(t) == script[t]

Init ==
  /\ host = "script" /\ USER_EXIT = FALSE /\ js = Main /\ suspended = FALSE
  /\ script \in Scripts
  /\ task = [t \in Tasks |-> "none"]
  /\ sleep = [t \in Tasks |-> "none"]
  /\ cancel_tx = [t \in Tasks |-> "none"] /\ cancel_rx = [t \in Tasks |-> "none"]
  /\ slot = TRUE /\ guard = NoTask /\ senders = TRUE /\ queue = 0
  /\ thrown = FALSE /\ told = [t \in Tasks |-> "nothing"]
  /\ early = {} /\ late = [t \in Tasks |-> 0] /\ cut = {}

Alive == host \in {"script", "drain"}
InScript == Alive /\ (js = Main \/ (js \in Tasks /\ task[js] = "calling"))
Over(t) == task[t] \in {"ended", "refused"}

-----------------------------------------------------------------------------
(* What the script calls.                                                   *)

\* setTimeout, setInterval, or the channel's function: a task is spawned and,
\* except for recv and cb, a cancel function returned.
Start(t) ==
  /\ InScript /\ task[t] = "none" /\ Kind(t) # "none" /\ \A u \in 1 .. t - 1 : task[u] # "none"
  /\ task' = [task EXCEPT ![t] = "new"]
  /\ IF Kind(t) \in {"recv", "cb"} THEN UNCHANGED <<cancel_tx, cancel_rx>>
     ELSE /\ cancel_tx' = [cancel_tx EXCEPT ![t] = "held"]
          /\ cancel_rx' = [cancel_rx EXCEPT ![t] = "open"]
  /\ UNCHANGED <<hostVars, js, script, sleep, chanVars, history>>

\* cancel_f: take the sender out of its mutex and send.
Cancel(t) ==
  /\ InScript
  /\ \/ /\ cancel_tx[t] = "held" /\ cancel_rx[t] = "open"
        /\ cancel_rx' = [cancel_rx EXCEPT ![t] = "sent"]
        /\ told' = [told EXCEPT ![t] = IF js = t THEN "self" ELSE "ok"]
        /\ cancel_tx' = [cancel_tx EXCEPT ![t] = "spent"]
     \/ /\ cancel_tx[t] = "held" /\ cancel_rx[t] = "gone"   \* Oneshot Channel Closed
        /\ cancel_tx' = [cancel_tx EXCEPT ![t] = "spent"]
        /\ UNCHANGED <<cancel_rx, told>>
     \/ /\ cancel_tx[t] = "spent"                           \* Already Cancelled
        /\ UNCHANGED <<cancel_tx, cancel_rx, told>>
  /\ UNCHANGED <<hostVars, js, script, task, sleep, chanVars, thrown, early, late, cut>>

\* The script forgets the cancel function; the engine frees it and its sender.
Forget(t) ==
  /\ InScript /\ cancel_tx[t] = "held"
  /\ cancel_tx' = [cancel_tx EXCEPT ![t] = "dropped"]
  /\ cancel_rx' = [cancel_rx EXCEPT ![t] = IF @ = "open" THEN "closed" ELSE @]
  /\ UNCHANGED <<hostVars, js, script, task, sleep, chanVars, history>>

-----------------------------------------------------------------------------
(* Polling a task.                                                          *)

\* A task is polled when the thread is free, or goes on in the poll that ran
\* its callback.
Polled(t) ==
  Alive /\ \/ js = Idle /\ task[t] = "waiting"
           \/ js = t /\ task[t] = "turn"

\* A sleep outlasts the poll that makes it.
FreshSleep_burst == {"running", "elapsed"}      \* mutant: a tokio interval, which catches up
FreshSleep == {"running"}

Begin(t) ==
  /\ task' = [task EXCEPT ![t] = "turn"] /\ js' = t

TimerBegins(t) ==
  /\ Alive /\ js = Idle /\ task[t] = "new" /\ Kind(t) \in Timers
  /\ \E s \in FreshSleep : sleep' = [sleep EXCEPT ![t] = s]
  /\ Begin(t)
  /\ UNCHANGED <<hostVars, script, cancel_tx, cancel_rx, chanVars, history>>

\* _cb and _cb_cancel try the lock and take the receiver out of it.
ReaderBegins(t) ==
  /\ Alive /\ js = Idle /\ task[t] = "new" /\ Kind(t) \in {"cb", "cb_cancel"}
  /\ \/ /\ guard = NoTask /\ slot
        /\ guard' = t /\ slot' = FALSE
        /\ Begin(t)
        /\ UNCHANGED <<cancel_rx, suspended>>
     \/ /\ guard # NoTask \/ ~slot
        /\ task' = [task EXCEPT ![t] = "refused"]
        /\ cancel_rx' = [cancel_rx EXCEPT ![t] = "gone"]
        /\ suspended' = (suspended \/ Kind(t) = "cb")
        /\ UNCHANGED <<js, guard, slot>>
  /\ UNCHANGED <<host, USER_EXIT, script, sleep, cancel_tx, senders, queue,
                 history>>

\* register_rx_channel waits for the lock, and the thread with it.
RecvBegins(t) ==
  /\ Alive /\ js = Idle /\ task[t] = "new" /\ Kind(t) = "recv"
  /\ \/ /\ guard = NoTask
        /\ guard' = t /\ slot' = FALSE
        /\ Begin(t)
        /\ UNCHANGED host
     \/ /\ guard # NoTask
        /\ host' = "blocked"
        /\ UNCHANGED <<task, js, guard, slot>>
  /\ UNCHANGED <<USER_EXIT, suspended, script, sleep, cancel_tx, cancel_rx,
                 senders, queue, history>>

\* select! took the cancel branch.
Returned_drop == FALSE                          \* mutant: the receiver is dropped
Returned == TRUE
Broken_loop(t) == Kind(t) = "timeout"           \* mutant: no break
Broken(t) == TRUE
Cancellable_any(t) == cancel_rx[t] \in {"sent", "closed"}   \* mutant: _ = cancel_rx
Cancellable(t) == cancel_rx[t] = "sent"

Cancelled(t) ==
  /\ Polled(t) /\ Cancellable(t)
  /\ cancel_rx' = [cancel_rx EXCEPT ![t] = IF Broken(t) THEN "gone" ELSE "disabled"]
  /\ task' = [task EXCEPT ![t] = IF Broken(t) THEN "ended" ELSE "waiting"]
  /\ js' = Idle
  /\ IF Kind(t) = "cb_cancel" THEN slot' = Returned /\ guard' = NoTask
                              ELSE UNCHANGED <<slot, guard>>
  /\ UNCHANGED <<hostVars, script, sleep, cancel_tx, senders, queue, history>>

\* The cancel function is gone: Err does not match Ok(()), which disables the
\* branch in this select!.
CancelGone(t) ==
  /\ Polled(t) /\ cancel_rx[t] = "closed"
  /\ cancel_rx' = [cancel_rx EXCEPT ![t] = "disabled"]
  /\ UNCHANGED <<hostVars, js, script, task, sleep, cancel_tx, chanVars, history>>

\* The loop's next select! polls that oneshot again, which has completed: it
\* fails again or panics, as the tokio version has it.
CancelRepolled(t) ==
  /\ Polled(t) /\ cancel_rx[t] = "completed"
  /\ \/ cancel_rx' = [cancel_rx EXCEPT ![t] = "disabled"] /\ UNCHANGED host
     \/ host' = "panicked" /\ UNCHANGED cancel_rx
  /\ UNCHANGED <<USER_EXIT, suspended, js, script, task, sleep, cancel_tx, chanVars,
                 history>>

Upto2(n) == IF n < 2 THEN n + 1 ELSE n
Call(t) ==
  /\ task' = [task EXCEPT ![t] = "calling"] /\ js' = t
  /\ early' = IF Kind(t) = "timeout" /\ told[t] = "nothing" THEN early \cup {t} ELSE early
  /\ late' = [late EXCEPT ![t] = IF told[t] # "nothing" THEN Upto2(@) ELSE @]
  /\ UNCHANGED <<thrown, told, cut>>

\* The sleep branch.  The branches of a timeout's select! are gone before its
\* handler runs, the oneshot with them; an interval keeps it for the next turn.
AfterSleep_kept(t) == cancel_rx[t]              \* mutant: a timeout keeps it too
AfterSleep(t) == IF Kind(t) = "timeout" THEN "gone" ELSE cancel_rx[t]

Fires(t) ==
  /\ Polled(t) /\ Kind(t) \in Timers /\ sleep[t] = "elapsed"
  /\ sleep' = [sleep EXCEPT ![t] = "none"]
  /\ cancel_rx' = [cancel_rx EXCEPT ![t] = AfterSleep(t)]
  /\ Call(t)
  /\ UNCHANGED <<hostVars, script, cancel_tx, chanVars>>

\* A message: the callback is called with it, or it resolves recv's promise.
Takes(t) ==
  /\ Polled(t) /\ Kind(t) \in Readers /\ queue > 0
  /\ queue' = queue - 1
  /\ \/ /\ Kind(t) = "recv"
        /\ task' = [task EXCEPT ![t] = "ended"] /\ js' = Idle
        /\ guard' = NoTask /\ slot' = TRUE /\ suspended' = TRUE
        /\ UNCHANGED history
     \/ /\ Kind(t) # "recv"
        /\ Call(t)
        /\ UNCHANGED <<guard, slot, suspended>>
  /\ UNCHANGED <<host, USER_EXIT, script, sleep, cancel_tx, cancel_rx, senders>>

\* The channel is closed: the promise of recv or cb settles, the loop ends.
ChannelClosed(t) ==
  /\ Polled(t) /\ Kind(t) \in Readers /\ queue = 0 /\ ~senders
  /\ task' = [task EXCEPT ![t] = "ended"] /\ js' = Idle
  /\ guard' = NoTask /\ slot' = (Kind(t) = "recv")
  /\ cancel_rx' = [cancel_rx EXCEPT ![t] = "gone"]
  /\ suspended' = (suspended \/ Kind(t) # "cb_cancel")
  /\ UNCHANGED <<host, USER_EXIT, script, sleep, cancel_tx, senders, queue,
                 history>>

\* No branch is ready: the task waits and gives up the thread.
Waits(t) ==
  /\ Polled(t) /\ task[t] = "turn" /\ cancel_rx[t] \in {"none", "open", "disabled"}
  /\ sleep[t] # "elapsed" /\ (Kind(t) \in Readers => queue = 0 /\ senders)
  /\ task' = [task EXCEPT ![t] = "waiting"] /\ js' = Idle
  /\ UNCHANGED <<hostVars, script, sleep, cancel_tx, cancel_rx, chanVars, history>>

\* The budget is used up: every branch says that it is not ready, and the task is
\* polled again in the runtime's next poll, which has a new budget.
Yields(t) ==
  /\ Alive /\ js = t /\ task[t] = "turn"
  /\ task' = [task EXCEPT ![t] = "waiting"] /\ js' = Idle
  /\ cut' = IF told[t] = "nothing" THEN cut ELSE cut \cup {t}
  /\ UNCHANGED <<hostVars, script, sleep, cancel_tx, cancel_rx, chanVars, thrown, told,
                 early, late>>

\* The callback is over.  What a timer's callback throws is ignored; cb's
\* promise is rejected, its receiver dropped; cb_cancel unwraps and panics.
NextTurn_yield == "waiting"                     \* mutant: yields first
NextTurn == "turn"

Turn(t) ==
  /\ task' = [task EXCEPT ![t] = NextTurn]
  /\ js' = IF NextTurn = "turn" THEN t ELSE Idle
  /\ cancel_rx' = [cancel_rx EXCEPT ![t] = IF @ = "disabled" THEN "completed" ELSE @]

TimerReturns(t) ==
  /\ Alive /\ js = t /\ task[t] = "calling" /\ Kind(t) \in Timers
  /\ \/ /\ Kind(t) = "timeout"
        /\ task' = [task EXCEPT ![t] = "ended"] /\ js' = Idle
        /\ UNCHANGED <<sleep, cancel_rx>>
     \/ /\ Kind(t) = "interval"
        /\ \E s \in FreshSleep : sleep' = [sleep EXCEPT ![t] = s]
        /\ Turn(t)
  /\ UNCHANGED <<hostVars, script, cancel_tx, chanVars, history>>

ReaderReturns(t) ==
  /\ Alive /\ js = t /\ task[t] = "calling" /\ Kind(t) \in Readers
  /\ Turn(t)
  /\ UNCHANGED <<hostVars, script, sleep, cancel_tx, chanVars, history>>

ReaderThrows(t) ==
  /\ Alive /\ js = t /\ task[t] = "calling" /\ Kind(t) \in Readers
  /\ thrown' = TRUE
  /\ \/ /\ Kind(t) = "cb"
        /\ task' = [task EXCEPT ![t] = "ended"] /\ js' = Idle
        /\ guard' = NoTask /\ suspended' = TRUE
        /\ UNCHANGED host
     \/ /\ Kind(t) = "cb_cancel"
        /\ host' = "panicked"
        /\ UNCHANGED <<task, js, guard, suspended>>
  /\ UNCHANGED <<USER_EXIT, script, sleep, cancel_tx, cancel_rx, slot, senders,
                 queue, told, early, late, cut>>

-----------------------------------------------------------------------------
(* The program: modules, scripts and calls, then the drain loop.            *)

\* The script awaits, or its code that was suspended goes on or ends.
ScriptWaits ==
  /\ Alive /\ js = Main /\ js' = Idle
  /\ suspended' \in (IF host = "script" THEN {TRUE} ELSE BOOLEAN)
  /\ UNCHANGED <<host, USER_EXIT, script, task, sleep, cancel_tx, cancel_rx,
                 chanVars, history>>

ScriptResumes ==
  /\ Alive /\ js = Idle /\ suspended
  /\ js' = Main /\ suspended' = FALSE
  /\ UNCHANGED <<host, USER_EXIT, script, task, sleep, cancel_tx, cancel_rx,
                 chanVars, history>>

\* async_with ends: with an error main returns it.
ScriptEnds(ok) ==
  /\ host = "script" /\ js = Main
  /\ js' = Idle
  /\ host' = IF ok THEN "drain" ELSE "exited"
  /\ suspended' \in BOOLEAN
  /\ UNCHANGED <<USER_EXIT, script, task, sleep, cancel_tx, cancel_rx, chanVars, history>>

\* while rt.is_job_pending() && !USER_EXIT
Pending == suspended \/ \E t \in Tasks : task[t] # "none" /\ ~Over(t)
DrainOver_idle == ~Pending                      \* mutant: rt.idle()
DrainOver == ~Pending \/ USER_EXIT

DrainEnds ==
  /\ host = "drain" /\ js = Idle /\ DrainOver
  /\ host' = "exited"
  /\ UNCHANGED <<USER_EXIT, suspended, js, script, task, sleep, cancel_tx, cancel_rx,
                 chanVars, history>>

CtrlC ==
  /\ Alive /\ ~USER_EXIT /\ USER_EXIT' = TRUE
  /\ UNCHANGED <<host, suspended, js, script, task, sleep, cancel_tx, cancel_rx,
                 chanVars, history>>

-----------------------------------------------------------------------------
(* The clock, and the Rust side of the channel.                             *)

Elapses(t) ==
  /\ Alive /\ sleep[t] = "running" /\ task[t] = "waiting"
  /\ sleep' = [sleep EXCEPT ![t] = "elapsed"]
  /\ UNCHANGED <<hostVars, js, script, task, cancel_tx, cancel_rx, chanVars, history>>

Send ==
  /\ Alive /\ senders /\ queue < MaxMsgs
  /\ queue' = queue + 1
  /\ UNCHANGED <<hostVars, js, script, task, sleep, cancel_tx, cancel_rx, slot, guard,
                 senders, history>>

DropSenders ==
  /\ Alive /\ senders /\ senders' = FALSE
  /\ UNCHANGED <<hostVars, js, script, task, sleep, cancel_tx, cancel_rx, slot, guard,
                 queue, history>>

-----------------------------------------------------------------------------
Script(t) == Start(t) \/ Cancel(t) \/ Forget(t)
TimerTask(t) == TimerBegins(t) \/ Fires(t) \/ TimerReturns(t)
ReaderTask(t) ==
  \/ ReaderBegins(t) \/ RecvBegins(t) \/ Takes(t) \/ ChannelClosed(t)
  \/ ReaderReturns(t) \/ ReaderThrows(t)
Select(t) == Cancelled(t) \/ CancelGone(t) \/ CancelRepolled(t) \/ Waits(t) \/ Yields(t)
Program == ScriptWaits \/ ScriptResumes \/ (\E ok \in BOOLEAN : ScriptEnds(ok)) \/ DrainEnds

Next ==
  \/ \E t \in Tasks : Script(t) \/ TimerTask(t) \/ ReaderTask(t) \/ Select(t) \/ Elapses(t)
  \/ Program \/ CtrlC \/ Send \/ DropSenders

Spec == Init /\ [][Next]_vars

(* JavaScript returns, the clock goes on, and the scheduler polls every     *)
(* task that was woken.  select! begins with a random branch, so one that   *)
(* is ready again and again is taken, although a poll without budget takes  *)
(* none.  The budget is finite, so a task gives the thread up however fast  *)
(* its messages come.  Nothing is assumed of the script's calls, of Ctrl-C  *)
(* or of the channel's senders.                                             *)
(*                                                                          *)
(* What happens once, per task or at all, is fair together as it is alone;  *)
(* and so is giving up the thread, since nobody else has it then.           *)
Begins(t) == TimerBegins(t) \/ ReaderBegins(t) \/ RecvBegins(t)
Wakes(t) == Fires(t) \/ Takes(t) \/ ChannelClosed(t)
Returns(t) == TimerReturns(t) \/ ReaderReturns(t) \/ ReaderThrows(t)
Once == DrainEnds \/ \E t \in Tasks : Begins(t) \/ Cancelled(t)
GivesUp == \E t \in Tasks : Waits(t) \/ Yields(t)

Fairness ==
  /\ SF_vars(Once) /\ SF_vars(GivesUp) /\ WF_vars(ScriptWaits)
  /\ \A t \in Tasks :
       /\ SF_vars(Wakes(t)) /\ WF_vars(Elapses(t))
       /\ WF_vars(Returns(t) \/ CancelGone(t) \/ CancelRepolled(t))

FairSpec == Spec /\ Fairness

-----------------------------------------------------------------------------
TypeOK ==
  /\ host \in {"script", "drain", "exited", "panicked", "blocked"}
  /\ {USER_EXIT, suspended, slot, senders, thrown} \subseteq BOOLEAN
  /\ js \in Tasks \cup {Idle, Main} /\ guard \in Tasks \cup {NoTask}
  /\ script \in Scripts
  /\ task \in [Tasks -> {"none", "new", "turn", "waiting", "calling", "ended", "refused"}]
  /\ sleep \in [Tasks -> {"none", "running", "elapsed"}]
  /\ cancel_tx \in [Tasks -> {"none", "held", "spent", "dropped"}]
  /\ cancel_rx \in [Tasks -> {"none", "open", "sent", "closed", "disabled", "completed", "gone"}]
  /\ \A t \in Tasks : Kind(t) = "timeout" /\ task[t] \in {"calling", "ended"} => cancel_rx[t] = "gone"
  /\ queue \in 0 .. MaxMsgs /\ told \in [Tasks -> {"nothing", "ok", "self"}]
  /\ early \subseteq Tasks /\ cut \subseteq Tasks /\ late \in [Tasks -> 0 .. 2]

\* The channel survives its readers: whatever was cancelled, registered again or
\* refused in between, its receiver is in the mutex or with the one task that
\* holds the lock, until the channel is closed or a callback of _cb throws.
ReceiverKept ==
  /\ slot => guard = NoTask
  /\ guard # NoTask => Kind(guard) \in Readers /\ task[guard] \in {"turn", "waiting", "calling"}
  /\ ~slot /\ guard = NoTask => (~senders /\ queue = 0) \/ thrown

\* A task cancelled from inside its own callback is over before anything else
\* runs, so a script that cancels a reader there and registers the next one is
\* not refused because of the old one, unless the budget runs out before the
\* task sees it.  (Cancelled from outside, the old task may still hold the lock
\* when the new one is polled.)
SelfCancelIsFinal ==
  \A t \in Tasks \ cut : told[t] = "self" /\ Alive => js = t \/ task[t] = "ended"

\* Cancelling a timeout succeeds only if it has not run, so the script is never
\* told that a callback was prevented which it has seen.  A cancelled timer runs
\* at most once more, when its sleep was over before it was polled, and an
\* interval not at all when it was cancelled from its own callback.  Only an
\* interval whose budget runs out between the two may run again.
OneLateCall ==
  \A t \in Tasks : Kind(t) \in Timers =>
    /\ told[t] # "nothing" => t \notin early
    /\ Kind(t) = "timeout" \/ t \notin cut =>
         late[t] <= (IF told[t] = "self" THEN 0 ELSE 1)

Stopped == host \in {"exited", "panicked", "blocked"}

\* A timer whose cancel function the script has thrown away still fires (t1.js
\* relies on it).
DroppedStillFires ==
  \A t \in Tasks :
    (Kind(t) \in Timers /\ task[t] = "waiting" /\ cancel_tx[t] = "dropped")
      ~> (task[t] = "calling" \/ Stopped)

\* What was cancelled ends, also a reader whose messages keep coming and an
\* interval whose sleep is always over.
CancelEnds ==
  \A t \in Tasks : (told[t] # "nothing") ~> (Over(t) \/ Stopped)

\* What the comment in mqtt_js.rs:152 promises: Ctrl-C ends the drain loop though
\* tasks are left, unless the thread is blocked.
ExitHeard == (host = "drain" /\ USER_EXIT) ~> Stopped

\* What the comment says (rquickjs_util.rs:97, "Returns future when called"): the
\* channel's function gives the script a promise; it does not stop the program.
NeverBlocked == host # "blocked"
=============================================================================
