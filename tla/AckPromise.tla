----------------------------- MODULE AckPromise -----------------------------
(***************************************************************************)
(* What a serial session promises about acknowledgements, with no loop, no *)
(* map, no channel and no tick.  A transmission gets an id; the device may *)
(* confirm it; when it has been registered, its sender waits for exactly   *)
(* one outcome.  A confirmation is credited at most once, and only to the  *)
(* newest registered transmission with the id it was given for.            *)
(*                                                                         *)
(* Module SerialPromise maps SerialTask onto this one.                     *)
(***************************************************************************)
EXTENDS Integers

CONSTANTS
  Ids,            (* of messages                                            *)
  Transmissions   (* a set of positive numbers                              *)

NoId == -1
Nobody == 0

VARIABLES
  id,         (* id of each transmission, NoId before it is made            *)
  outcome,    (* what its sender has been told                              *)
  credit,     (* the confirmed transmission credited to it                  *)
  confirmed,  (* transmissions the device has confirmed                     *)
  ended       (* the session is over                                        *)

vars == <<id, outcome, credit, confirmed, ended>>

Init ==
  /\ id = [t \in Transmissions |-> NoId]
  /\ outcome = [t \in Transmissions |-> "none"]
  /\ credit = [t \in Transmissions |-> Nobody]
  /\ confirmed = {}
  /\ ended = FALSE

\* A later transmission with the same id has been registered.
Superseded(t) ==
  \E u \in Transmissions : u > t /\ id[u] = id[t] /\ outcome[u] # "none"

Transmit(t, i) ==
  /\ ~ended /\ id[t] = NoId
  /\ id' = [id EXCEPT ![t] = i]
  /\ UNCHANGED <<outcome, credit, confirmed, ended>>

Confirm(t) ==
  /\ id[t] # NoId /\ t \notin confirmed
  /\ confirmed' = confirmed \cup {t}
  /\ UNCHANGED <<id, outcome, credit, ended>>

Register(t) ==
  /\ ~ended /\ id[t] # NoId /\ outcome[t] = "none"
  /\ outcome' = [outcome EXCEPT ![t] = "waiting"]
  /\ UNCHANGED <<id, credit, confirmed, ended>>

Credit(t, c) ==
  /\ ~ended /\ outcome[t] = "waiting" /\ credit[t] = Nobody /\ ~Superseded(t)
  /\ c \in confirmed /\ id[c] = id[t]
  /\ \A u \in Transmissions : credit[u] # c
  /\ credit' = [credit EXCEPT ![t] = c]
  /\ UNCHANGED <<id, outcome, confirmed, ended>>

Resolve(t, how) ==
  /\ outcome[t] = "waiting"
  /\ outcome' = [outcome EXCEPT ![t] = how]
  /\ UNCHANGED <<id, credit, confirmed, ended>>

Acked(t)     == credit[t] # Nobody /\ Resolve(t, "acked")
TimedOut(t)  == Resolve(t, "timeout")
Abandoned(t) ==
  /\ credit[t] = Nobody /\ (ended \/ Superseded(t))
  /\ Resolve(t, "closed")

End ==
  /\ ended' = TRUE
  /\ UNCHANGED <<id, outcome, credit, confirmed>>

Next ==
  \/ \E t \in Transmissions :
       \/ \E i \in Ids : Transmit(t, i)
       \/ Confirm(t) \/ Register(t)
       \/ \E c \in Transmissions : Credit(t, c)
       \/ Acked(t) \/ TimedOut(t) \/ Abandoned(t)
  \/ End

Spec == Init /\ [][Next]_vars
=============================================================================
