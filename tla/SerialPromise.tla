---------------------------- MODULE SerialPromise ----------------------------
(***************************************************************************)
(* SerialTask implements AckPromise.  An acknowledgement is credited when  *)
(* tx.send succeeds; a waiter whose deadline has passed but whose receiver *)
(* is still alive has not been told anything yet.                          *)
(***************************************************************************)
EXTENDS SerialTask

Promise == INSTANCE AckPromise WITH
  id        <- idOf,
  outcome   <- [t \in Transmissions |->
                  IF waiter[t] = "expired" THEN "waiting" ELSE waiter[t]],
  credit    <- [t \in Transmissions |->
                  IF tx[t] = "sent" THEN reply[t].of ELSE NoTx],
  confirmed <- answered,
  ended     <- (pc = "done")

\* The session keeps its promise about acknowledgements: the select! loop, the
\* map, the waiters and the tick together do nothing that AckPromise forbids.
PromiseKept == Promise!Spec
=============================================================================
