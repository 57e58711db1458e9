----------------------------- MODULE MCJsTasks -----------------------------
(* The scripts of the runs of JsTasks: two readers of the channel, in each   *)
(* way of reading it; a timer alone; two tasks that share the thread.        *)
EXTENDS JsTasks

Both == {<<k, k>> : k \in Readers}
Alone == {<<k, "none">> : k \in Timers}
MCScripts == Both \cup Alone \cup {<<"cb", "interval">>}
=============================================================================
