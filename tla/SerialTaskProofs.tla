-------------------------- MODULE SerialTaskProofs --------------------------
(***************************************************************************)
(* Theorems about SerialTask for every number of ids, transmissions,       *)
(* events and damaged frames, and that it implements AckPromise.           *)
(***************************************************************************)
EXTENDS SerialPromise, SequenceTheorems, TLAPS

\* Each transmission used up a command.
Budget ==
  /\ nSent + Len(command_rx) <= nQueued
  /\ pc = "sending" => nSent > 0

\* Transmissions are made in order, each for a command the channel held.
Numbered ==
  /\ \A t \in Transmissions : t <= nSent => idOf[t] \in Ids
  /\ \A t \in Transmissions : t > nSent => tx[t] = "none"
  /\ air \cup answered \subseteq 1 .. nSent
  /\ pc = "sending" => tx[nSent] = "none"

\* The map and the senders: what MapOwnsSenders says, key by key.
MapSound ==
  \A i \in Ids : waiting_ack[i] # NoTx =>
    idOf[waiting_ack[i]] = i /\ tx[waiting_ack[i]] = "held"
MapComplete ==
  \A t \in Transmissions : tx[t] = "held" => waiting_ack[idOf[t]] = t

\* Every transmission is answered at most once, and an answer on the line has
\* not been told to anyone.
Unanswered == air \cap answered = {}
Told == {reply[t].of : t \in {u \in Transmissions : tx[u] = "sent"}}
OnLineFresh ==
  \A k \in 1 .. Len(line) : line[k].kind = "ack" =>
    line[k].of \in answered \ Told
OnLineOnce ==
  \A k, l \in 1 .. Len(line) :
    k # l /\ line[k].kind = "ack" /\ line[l].kind = "ack" => line[k].of # line[l].of

-----------------------------------------------------------------------------
LEMMA TypeInit == Init => TypeOK /\ Budget
<1> SUFFICES ASSUME Init PROVE TypeOK /\ Budget
  OBVIOUS
<1> USE ConstAssumption DEF Init
<1>1. /\ command_rx \in Seq(Ids) /\ event_rx \in Seq(1 .. MaxEvents)
      /\ line \in Seq(Frames) /\ Len(command_rx) = 0
  OBVIOUS
<1>2. /\ idOf \in [Transmissions -> Ids \cup {NoId}]
      /\ waiting_ack \in [Ids -> Transmissions \cup {NoTx}]
      /\ reply \in [Transmissions ->
                      [of : Transmissions \cup {NoTx}, value : BOOLEAN, status : BOOLEAN]]
  BY DEF NoReply
<1>3. /\ MSG_ID \in Ids /\ built \subseteq Ids /\ submitted \subseteq Ids
      /\ nBuilt \in 0 .. MaxBuilt /\ nQueued \in 0 .. MaxSends /\ nSent \in 0 .. MaxSends
      /\ nEvents \in 0 .. MaxEvents /\ nDamaged \in 0 .. MaxDamaged
  BY DEF Ids
<1>4. /\ tx \in [Transmissions -> {"none", "held", "sent", "dropped"}]
      /\ waiter \in [Transmissions ->
                       {"none", "waiting", "expired", "timeout", "acked", "closed"}]
      /\ air \subseteq Transmissions /\ answered \subseteq Transmissions
  OBVIOUS
<1>5. TypeOK
  BY <1>1, <1>2, <1>3, <1>4 DEF TypeOK
<1> QED
  BY <1>1, <1>5 DEF Budget

\* What the frames of the device are made of.
LEMMA FrameFields ==
  /\ \A f \in Frames : f.kind = "ack" => f.of \in Transmissions /\ f.status \in BOOLEAN
  /\ \A f \in Frames : f.kind = "event" => f.n \in 1 .. MaxEvents
  /\ \A f \in Frames : f.kind \in {"ack", "event", "badmsg", "badframe"}
  /\ \A t \in Transmissions, s \in BOOLEAN : AckFrame(t, s) \in Frames
  /\ \A n \in 1 .. MaxEvents : EventFrame(n) \in Frames
  /\ BadMsg \in Frames /\ BadFrame \in Frames
BY DEF Frames, AckFrame, EventFrame, BadMsg, BadFrame

\* The command the loop takes and the number its transmission gets.
LEMMA RecvCommandFacts ==
  ASSUME TypeOK, Budget, NEW reaches, RecvCommand(reaches)
  PROVE  /\ Head(command_rx) \in Ids /\ Tail(command_rx) \in Seq(Ids)
         /\ Len(command_rx) \in Nat /\ Len(Tail(command_rx)) = Len(command_rx) - 1
         /\ nSent + 1 \in Transmissions
<1>1. /\ Head(command_rx) \in Ids /\ Tail(command_rx) \in Seq(Ids)
      /\ Len(command_rx) \in Nat /\ Len(Tail(command_rx)) = Len(command_rx) - 1
      /\ Len(command_rx) > 0
  BY HeadTailProperties, LenProperties, EmptySeq DEF RecvCommand, TypeOK
<1>2. nSent \in Nat /\ nQueued \in 0 .. MaxSends /\ nSent + Len(command_rx) <= nQueued
  BY ConstAssumption DEF TypeOK, Budget
<1> QED
  BY <1>1, <1>2, ConstAssumption DEF Transmissions

LEMMA TypeStep == TypeOK /\ Budget /\ [Next]_vars => TypeOK' /\ Budget'
<1> SUFFICES ASSUME TypeOK, Budget, [Next]_vars
             PROVE  TypeOK' /\ Budget'
  OBVIOUS
<1> USE ConstAssumption DEF Ids, Transmissions, NoTx, Budget
<1>1. CASE next_id
  BY <1>1, SMTT(30) DEF next_id, fetch_add, TypeOK, ackVars, deviceVars
<1>2. ASSUME NEW i \in Ids, command_tx(i) PROVE TypeOK' /\ Budget'
  <2>1. /\ command_rx' \in Seq(Ids) /\ Len(command_rx) \in Nat
        /\ Len(command_rx') = Len(command_rx) + 1
    BY <1>2, AppendProperties, LenProperties DEF command_tx, TypeOK
  <2> QED
    BY <1>2, <2>1, SMTT(30) DEF command_tx, TypeOK, ackVars, deviceVars
<1>3. CASE DropSenders
  BY <1>3 DEF DropSenders, TypeOK, ackVars, deviceVars
<1>4. CASE TakeEvent
  BY <1>4, HeadTailProperties DEF TakeEvent, TypeOK, clientVars, ackVars, deviceVars
<1>5. ASSUME NEW reaches \in BOOLEAN, RecvCommand(reaches) PROVE TypeOK' /\ Budget'
  <2>1. /\ Head(command_rx) \in Ids /\ command_rx' \in Seq(Ids)
        /\ Len(command_rx') = Len(command_rx) - 1 /\ Len(command_rx) \in Nat
        /\ nSent + 1 \in Transmissions
    BY <1>5, RecvCommandFacts DEF RecvCommand
  <2> QED
    <3>1. idOf' \in [Transmissions -> Ids \cup {NoId}]
      BY <1>5, <2>1 DEF RecvCommand, TypeOK
    <3>2. air' \subseteq Transmissions /\ nSent' \in 0 .. MaxSends
      BY <1>5, <2>1, ConstAssumption DEF RecvCommand, TypeOK
    <3>3. Budget'
      BY <1>5, <2>1 DEF RecvCommand, TypeOK, clientVars
    <3> QED
      BY <1>5, <2>1, <3>1, <3>2, <3>3 DEF RecvCommand, TypeOK, clientVars, ackVars
<1>6. CASE SendOk
  <2>1. nSent \in Transmissions
    BY <1>6 DEF SendOk, TypeOK
  <2>2. waiting_ack' \in [Ids -> Transmissions \cup {NoTx}]
    BY <1>6, <2>1 DEF SendOk, TypeOK
  <2>3. tx' \in [Transmissions -> {"none", "held", "sent", "dropped"}]
    BY <1>6, <2>1 DEF SendOk, TypeOK
  <2> QED
    BY <1>6, <2>1, <2>2, <2>3 DEF SendOk, TypeOK, clientVars, deviceVars, TxShown
<1>7. CASE SendErr
  BY <1>7 DEF SendErr, TypeOK, clientVars, ackVars, deviceVars, TxError
<1>8. CASE RecvClosed
  BY <1>8 DEF RecvClosed, End, TypeOK, clientVars, deviceVars
<1>9. CASE RecvAck
  <2>1. /\ Head(line) \in Frames /\ line' \in Seq(Frames)
        /\ Head(line).of \in Transmissions /\ Head(line).status \in BOOLEAN
    BY <1>9, HeadTailProperties, FrameFields DEF RecvAck, Found, Removed, TypeOK
  <2>2. waiting_ack' \in [Ids -> Transmissions \cup {NoTx}]
    BY <1>9 DEF RecvAck, Found, Removed, TypeOK
  <2>3. tx' \in [Transmissions -> {"none", "held", "sent", "dropped"}]
    BY <1>9 DEF RecvAck, Found, Removed, TypeOK
  <2>4. reply' \in [Transmissions ->
                     [of : Transmissions \cup {NoTx}, value : BOOLEAN, status : BOOLEAN]]
    <3> DEFINE R == [of : Transmissions \cup {NoTx}, value : BOOLEAN, status : BOOLEAN]
               new == [of |-> Head(line).of, value |-> TRUE, status |-> Head(line).status]
    <3>1. new \in R
      BY <2>1
    <3>2. reply' = reply \/ \E t : reply' = [reply EXCEPT ![t] = new]
      BY <1>9 DEF RecvAck, Found, Removed, TypeOK
    <3> HIDE DEF new, R
    <3>3. reply \in [Transmissions -> R]
      BY DEF TypeOK, R
    <3>4. reply' \in [Transmissions -> R]
      BY <3>1, <3>2, <3>3
    <3> QED
      BY <3>4 DEF R
  <2> QED
    BY <1>9, <2>1, <2>2, <2>3, <2>4 DEF RecvAck, Found, Removed, TypeOK, clientVars, deviceVars
<1>10. CASE RecvOther
  <2>1. Head(line) \in Frames /\ line' \in Seq(Frames)
    BY <1>10, HeadTailProperties DEF RecvOther, TypeOK
  <2>2. event_rx' \in Seq(1 .. MaxEvents)
    BY <1>10, <2>1, FrameFields, AppendProperties DEF RecvOther, TypeOK
  <2> QED
    BY <1>10, <2>1, <2>2 DEF RecvOther, TypeOK, clientVars, ackVars, deviceVars
<1>11. CASE RecvEof
  BY <1>11 DEF RecvEof, TypeOK, vars, clientVars, ackVars, deviceVars
<1>12. CASE RecvError
  BY <1>12 DEF RecvError, End, TypeOK, clientVars, deviceVars
<1>13. CASE Tick
  BY <1>13 DEF Tick, TypeOK, clientVars, deviceVars
<1>14. ASSUME NEW t \in Transmissions, WaiterRuns(t) PROVE TypeOK' /\ Budget'
  BY <1>14, ZenonT(60) DEF WaiterRuns, WaiterAcked, WaiterClosed, WaiterExpires, WaiterTimeout,
               WaiterStep, TypeOK, clientVars, deviceVars
<1>15. ASSUME NEW t \in Transmissions, NEW s \in Statuses, DeviceAck(t, s)
       PROVE  TypeOK' /\ Budget'
  <2>1. line' \in Seq(Frames)
    BY <1>15, FrameFields, AppendProperties DEF DeviceAck, TypeOK
  <2> QED
    BY <1>15, <2>1 DEF DeviceAck, TypeOK, clientVars, ackVars
<1>16. CASE DeviceEvent
  <2>1. line' \in Seq(Frames)
    BY <1>16, FrameFields, AppendProperties DEF DeviceEvent, TypeOK
  <2>2. nEvents' \in 0 .. MaxEvents
    BY <1>16, ConstAssumption DEF DeviceEvent, TypeOK
  <2>3. UNCHANGED <<clientVars, command_rx, pc, nSent, idOf, ackVars, event_rx, monitor,
                    air, answered, port, nDamaged>>
    BY <1>16 DEF DeviceEvent
  <2> QED
    BY <2>1, <2>2, <2>3 DEF TypeOK, clientVars, ackVars
<1>17. CASE LineDamage
  <2>1. line' \in Seq(Frames)
    <3>1. Tail(line) \in Seq(Frames)
      BY <1>17, HeadTailProperties DEF LineDamage, TypeOK
    <3>2. \A bad \in {BadFrame, BadMsg} : <<bad>> \in Seq(Frames)
      BY FrameFields
    <3>3. \A bad \in {BadFrame, BadMsg} : <<bad>> \o Tail(line) \in Seq(Frames)
      BY <3>1, <3>2, ConcatProperties
    <3> QED
      BY <1>17, <3>1, <3>3 DEF LineDamage
  <2> QED
    BY <1>17, <2>1, SMTT(30) DEF LineDamage, TypeOK, clientVars, ackVars
<1>18. ASSUME NEW how \in {"eof", "error"}, HangUp(how) PROVE TypeOK' /\ Budget'
  BY <1>18 DEF HangUp, TypeOK, clientVars, ackVars
<1>19. CASE Over \/ UNCHANGED vars
  BY <1>19 DEF Over, TypeOK, vars, clientVars, ackVars, deviceVars
<1> QED
  BY <1>1, <1>2, <1>3, <1>4, <1>5, <1>6, <1>7, <1>8, <1>9, <1>10, <1>11, <1>12,
     <1>13, <1>14, <1>15, <1>16, <1>17, <1>18, <1>19
  DEF Next, Client, Loop, Waiter, Device

\* Every variable keeps its type.
THEOREM TypeCorrect == Spec => []TypeOK
<1>1. Spec => [](TypeOK /\ Budget)
  BY TypeInit, TypeStep, PTL DEF Spec
<1> QED
  BY <1>1, PTL
-----------------------------------------------------------------------------
IInv ==
  /\ TypeOK /\ Budget /\ Numbered /\ MapSound /\ MapComplete
  /\ Unanswered /\ OnLineFresh /\ OnLineOnce /\ AckSpentOnce

LEMMA IInvInit == Init => IInv
<1> SUFFICES ASSUME Init PROVE IInv
  OBVIOUS
<1>1. TypeOK /\ Budget
  BY TypeInit
<1>2. Numbered /\ MapSound /\ MapComplete /\ Unanswered /\ OnLineFresh /\ OnLineOnce
  BY DEF Init, Numbered, MapSound, MapComplete, Unanswered, OnLineFresh, OnLineOnce,
         Transmissions, NoTx
<1>3. AckSpentOnce
  BY DEF Init, AckSpentOnce
<1> QED
  BY <1>1, <1>2, <1>3 DEF IInv

\* Most steps leave the map, the senders and the answers alone.
LEMMA OtherSteps ==
  ASSUME [Next]_vars
  PROVE  \/ UNCHANGED <<pc, nSent, idOf, waiting_ack, tx, reply, air, answered, line>>
         \/ \E reaches \in BOOLEAN : RecvCommand(reaches)
         \/ SendOk \/ SendErr \/ RecvClosed \/ RecvAck \/ RecvOther \/ RecvError \/ Tick
         \/ \E t \in Transmissions, s \in Statuses : DeviceAck(t, s)
         \/ DeviceEvent \/ LineDamage
BY DEF Next, Client, Loop, Waiter, Device, next_id, command_tx, DropSenders, TakeEvent,
       RecvEof, WaiterRuns, WaiterAcked, WaiterClosed, WaiterExpires, WaiterTimeout,
       WaiterStep, HangUp, Over, vars, clientVars, ackVars, deviceVars

\* The transmission an ACK on the line answers, and the key it selects.
LEMMA RecvAckFacts ==
  ASSUME IInv, RecvAck
  PROVE  /\ Head(line).of \in answered \ Told
         /\ Head(line).of \in Transmissions
         /\ idOf[Head(line).of] \in Ids
<1>1. Head(line) = line[1] /\ 1 \in 1 .. Len(line) /\ Head(line).kind = "ack"
  <2>1. line \in Seq(Frames) /\ line # <<>> /\ Head(line).kind = "ack"
    BY DEF RecvAck, IInv, TypeOK
  <2> QED
    BY <2>1, HeadTailProperties, LenProperties
<1>2. Head(line).of \in answered \ Told
  BY <1>1 DEF IInv, OnLineFresh
<1>3. Head(line).of \in Transmissions
  BY <1>2 DEF IInv, TypeOK
<1>4. Head(line).of \in 1 .. nSent
  BY <1>2 DEF IInv, Numbered
<1> QED
  BY <1>2, <1>3, <1>4 DEF IInv, Numbered

\* The sender that ACK selects is spent, and no other.
LEMMA RecvAckSender ==
  ASSUME TypeOK, RecvAck, NEW t \in Transmissions \cup {NoTx},
         t = waiting_ack[idOf[Head(line).of]]
  PROVE  /\ \A u \in Transmissions : u # t => tx'[u] = tx[u]
         /\ t # NoTx => tx'[t] \in {"sent", "dropped"}
<1>1. \/ t # NoTx /\ tx' = [tx EXCEPT ![t] = "sent"]
      \/ t # NoTx /\ tx' = [tx EXCEPT ![t] = "dropped"]
      \/ t = NoTx /\ tx' = tx
  BY DEF RecvAck, Found, Removed
<1>2. tx \in [Transmissions -> {"none", "held", "sent", "dropped"}]
  BY DEF TypeOK
<1> QED
  BY <1>1, <1>2

\* The line without its first frame, and with a bad one in its place.
LEMMA LineTail ==
  ASSUME TypeOK, line # <<>>
  PROVE  /\ Len(Tail(line)) = Len(line) - 1 /\ Len(line) \in Nat
         /\ \A k \in 1 .. Len(Tail(line)) : Tail(line)[k] = line[k + 1]
         /\ Head(line) = line[1] /\ 1 \in 1 .. Len(line)
BY HeadTailProperties, LenProperties, EmptySeq DEF TypeOK

LEMMA LineReplaced ==
  ASSUME TypeOK, line # <<>>, NEW bad \in {BadFrame, BadMsg}
  PROVE  LET new == <<bad>> \o Tail(line)
         IN  /\ Len(new) = Len(line) /\ new[1].kind # "ack"
             /\ \A k \in 2 .. Len(new) : new[k] = line[k]
<1>1. Tail(line) \in Seq(Frames) /\ <<bad>> \in Seq(Frames) /\ Len(<<bad>>) = 1
  BY HeadTailProperties, FrameFields DEF TypeOK
<1> DEFINE new == <<bad>> \o Tail(line)
<1>2. /\ Len(new) = 1 + Len(Tail(line))
      /\ \A k \in 1 .. Len(new) : new[k] = IF k <= 1 THEN <<bad>>[k] ELSE Tail(line)[k - 1]
  BY <1>1, ConcatProperties
<1> HIDE DEF new
<1>3. Len(new) = Len(line) /\ Len(line) \in Nat /\ 1 \in 1 .. Len(line)
  BY <1>2, LineTail
<1>4. new[1] = bad
  BY <1>2, <1>3
<1>5. bad.kind # "ack"
  BY DEF BadFrame, BadMsg
<1>6. \A k \in 2 .. Len(new) : new[k] = line[k]
  BY <1>2, <1>3, LineTail
<1> QED
  BY <1>3, <1>4, <1>5, <1>6 DEF new

LEMMA NumberedStep == IInv /\ [Next]_vars => Numbered'
<1> SUFFICES ASSUME IInv, [Next]_vars PROVE Numbered'
  OBVIOUS
<1> USE DEF IInv, TypeOK, Budget, Numbered, Transmissions, NoTx
<1>1. CASE UNCHANGED <<pc, nSent, idOf, tx, air, answered>>
  BY <1>1
<1>2. ASSUME NEW reaches \in BOOLEAN, RecvCommand(reaches) PROVE Numbered'
  <2>1. Head(command_rx) \in Ids /\ nSent + 1 \in Transmissions
    BY <1>2, RecvCommandFacts
  <2>3. idOf' = [idOf EXCEPT ![nSent + 1] = Head(command_rx)]
    BY <1>2 DEF RecvCommand
  <2>4. \A t \in Transmissions : t <= nSent' => idOf'[t] \in Ids
    BY <1>2, <2>1, <2>3 DEF RecvCommand
  <2>5. (air \cup answered)' \subseteq 1 .. nSent'
    BY <1>2 DEF RecvCommand
  <2> QED
    BY <1>2, <2>1, <2>4, <2>5 DEF RecvCommand, ackVars
<1>3. CASE SendOk
  <2>1. /\ \A t \in Transmissions : t > nSent => tx'[t] = "none"
        /\ UNCHANGED <<nSent, idOf, air, answered>> /\ pc' = "select"
    <3>1. UNCHANGED <<nSent, idOf, air, answered>> /\ pc' = "select"
      BY <1>3 DEF SendOk, deviceVars
    <3> DEFINE old == waiting_ack[idOf[nSent]]
    <3>2. nSent \in Nat /\ ~(old \in Transmissions /\ old > nSent)
      <4>1. nSent \in Transmissions
        BY <1>3, ConstAssumption DEF SendOk
      <4>2. idOf[nSent] \in Ids
        BY <4>1
      <4>3. old # NoTx => tx[old] = "held"
        BY <4>2 DEF MapSound
      <4> QED
        BY <4>1, <4>3
    <3>3. ASSUME NEW t \in Transmissions, t > nSent PROVE tx'[t] = "none"
      BY <1>3, <3>2, <3>3 DEF SendOk
    <3> QED
      BY <3>1, <3>3
  <2> QED
    BY <2>1
<1>4. CASE SendErr
  BY <1>4 DEF SendErr, ackVars, deviceVars
<1>5. CASE RecvClosed \/ RecvError
  BY <1>5 DEF RecvClosed, RecvError, End, deviceVars
<1>6. CASE RecvAck
  <2> DEFINE t == waiting_ack[idOf[Head(line).of]]
  <2>1. t # NoTx => t \in Transmissions /\ tx[t] = "held"
    BY <1>6, RecvAckFacts, SMTT(20) DEF MapSound
  <2>2. \A u \in Transmissions : u # t => tx'[u] = tx[u]
    BY <1>6 DEF RecvAck, Found, Removed
  <2>3. t = NoTx => tx' = tx
    BY <1>6 DEF RecvAck, Found, Removed
  <2> HIDE DEF t
  <2>4. \A u \in Transmissions : tx[u] = "none" => tx'[u] = "none"
    BY <2>1, <2>2, <2>3
  <2>5. UNCHANGED <<pc, nSent, idOf, air, answered>>
    BY <1>6 DEF RecvAck, deviceVars
  <2> QED
    BY <2>4, <2>5
<1>7. CASE Tick
  BY <1>7 DEF Tick, deviceVars
<1>8. ASSUME NEW t \in Transmissions, NEW s \in Statuses, DeviceAck(t, s) PROVE Numbered'
  BY <1>8 DEF DeviceAck, ackVars
<1>9. CASE RecvOther \/ DeviceEvent \/ LineDamage
  BY <1>9 DEF RecvOther, DeviceEvent, LineDamage, ackVars, deviceVars
<1> QED
  BY <1>1, <1>2, <1>3, <1>4, <1>5, <1>6, <1>7, <1>8, <1>9, OtherSteps

LEMMA MapStep == IInv /\ [Next]_vars => MapSound' /\ MapComplete'
<1> SUFFICES ASSUME IInv, [Next]_vars PROVE MapSound' /\ MapComplete'
  OBVIOUS
<1> USE DEF IInv, TypeOK, Numbered, MapSound, MapComplete, Transmissions, NoTx
<1>1. CASE UNCHANGED <<idOf, waiting_ack, tx>>
  BY <1>1
<1>2. ASSUME NEW reaches \in BOOLEAN, RecvCommand(reaches) PROVE MapSound' /\ MapComplete'
  BY <1>2 DEF RecvCommand, ackVars
<1>3. CASE SendOk
  BY <1>3 DEF SendOk, Budget
<1>5. CASE RecvClosed \/ RecvError
  <2>1. \A i \in Ids : waiting_ack'[i] = NoTx
    BY <1>5 DEF RecvClosed, RecvError, End
  <2>2. tx' = [t \in Transmissions |-> IF tx[t] = "held" THEN "dropped" ELSE tx[t]]
    BY <1>5 DEF RecvClosed, RecvError, End
  <2>3. \A t \in Transmissions : tx'[t] # "held"
    BY <2>2
  <2> QED
    BY <2>1, <2>3
<1>6. CASE RecvAck
  <2> DEFINE i == idOf[Head(line).of]
             t == waiting_ack[i]
  <2>1. i \in Ids /\ t \in Transmissions \cup {NoTx}
    BY <1>6, RecvAckFacts
  <2>2. waiting_ack' = [waiting_ack EXCEPT ![i] = NoTx] /\ idOf' = idOf
    BY <1>6 DEF RecvAck, Found, Removed
  <2>3. /\ \A u \in Transmissions : u # t => tx'[u] = tx[u]
        /\ t # NoTx => tx'[t] \in {"sent", "dropped"}
    BY <1>6, <2>1, RecvAckSender, ZenonT(60)
  <2> HIDE DEF t, i
  <2>4. t # NoTx => idOf[t] = i
    BY <2>1 DEF t
  <2>5. MapSound'
    <3> SUFFICES ASSUME NEW j \in Ids, waiting_ack'[j] # NoTx
                 PROVE  idOf'[waiting_ack'[j]] = j /\ tx'[waiting_ack'[j]] = "held"
      OBVIOUS
    <3>1. j # i /\ waiting_ack'[j] = waiting_ack[j]
      BY <2>1, <2>2
    <3>2. waiting_ack[j] # t
      BY <2>4, <3>1
    <3> QED
      BY <2>2, <2>3, <3>1, <3>2
  <2>6. MapComplete'
    BY <2>1, <2>2, <2>3, <2>4 DEF t
  <2> QED
    BY <2>5, <2>6
<1>7. CASE Tick
  BY <1>7 DEF Tick
<1>8. CASE SendErr \/ RecvOther \/ DeviceEvent \/ LineDamage
            \/ \E t \in Transmissions, s \in Statuses : DeviceAck(t, s)
  BY <1>8 DEF SendErr, RecvOther, DeviceEvent, LineDamage, DeviceAck, ackVars
<1> QED
  BY <1>1, <1>2, <1>3, <1>5, <1>6, <1>7, <1>8, OtherSteps

\* Every answer is told to one waiter at most, and to one with its id.
LEMMA AckStep ==
  IInv /\ [Next]_vars => Unanswered' /\ OnLineFresh' /\ OnLineOnce' /\ AckSpentOnce'
<1> DEFINE Goal == Unanswered' /\ OnLineFresh' /\ OnLineOnce' /\ AckSpentOnce'
<1> SUFFICES ASSUME IInv, [Next]_vars PROVE Goal
  OBVIOUS
<1> USE DEF Unanswered, OnLineFresh, OnLineOnce, AckSpentOnce, Told
<1>1. CASE UNCHANGED <<idOf, tx, reply, air, answered, line>>
  BY <1>1 DEF IInv
<1>2. ASSUME NEW reaches \in BOOLEAN, RecvCommand(reaches) PROVE Goal
  <2>1. /\ nSent + 1 \in Transmissions
        /\ idOf' = [idOf EXCEPT ![nSent + 1] = Head(command_rx)]
        /\ UNCHANGED <<tx, reply, answered, line>>
        /\ air' \subseteq air \cup {nSent + 1}
    BY <1>2, RecvCommandFacts DEF RecvCommand, ackVars, IInv
  <2>2. nSent + 1 \notin answered /\ tx[nSent + 1] = "none"
    BY <2>1 DEF IInv, Numbered, TypeOK, Transmissions
  <2>3. \A t \in Transmissions : t # nSent + 1 => idOf'[t] = idOf[t]
    BY <2>1 DEF IInv, TypeOK
  <2>4. AckSpentOnce'
    BY <2>1, <2>2, <2>3 DEF IInv, TypeOK
  <2> QED
    BY <2>1, <2>2, <2>4 DEF IInv
<1>3. CASE SendOk \/ RecvClosed \/ RecvError \/ Tick
  <2>1. /\ \A t \in Transmissions : tx'[t] = "sent" => tx[t] = "sent"
        /\ UNCHANGED <<idOf, reply, air, answered, line>>
    BY <1>3 DEF SendOk, RecvClosed, RecvError, End, Tick, deviceVars
  <2> QED
    BY <2>1 DEF IInv
<1>4. CASE RecvAck
  <2> DEFINE ack == Head(line)
             t == waiting_ack[idOf[ack.of]]
  <2>1. ack.of \in answered \ Told /\ ack.of \in Transmissions /\ idOf[ack.of] \in Ids
    BY <1>4, RecvAckFacts
  <2>2. /\ Len(line') = Len(line) - 1 /\ Len(line) \in Nat
        /\ \A k \in 1 .. Len(line') : line'[k] = line[k + 1]
        /\ ack = line[1] /\ 1 \in 1 .. Len(line) /\ line[1].kind = "ack"
    BY <1>4, LineTail DEF RecvAck, Found, Removed, IInv
  <2>3. UNCHANGED <<idOf, air, answered>>
    BY <1>4 DEF RecvAck, Found, Removed, deviceVars
  <2>4. \A k \in 1 .. Len(line') : line'[k].kind = "ack" =>
          line'[k].of \in answered \ Told /\ line'[k].of # ack.of
    BY <2>2 DEF IInv
  <2>5. OnLineOnce'
    BY <2>2, SMTT(30) DEF IInv
  <2>6. CASE \A u \in Transmissions : tx'[u] = "sent" => tx[u] = "sent" /\ reply'[u] = reply[u]
    BY <2>3, <2>4, <2>5, <2>6 DEF IInv
  <2>7. CASE /\ t # NoTx /\ tx' = [tx EXCEPT ![t] = "sent"]
             /\ reply' = [reply EXCEPT
                           ![t] = [of |-> ack.of, value |-> TRUE, status |-> ack.status]]
    <3>1. t \in Transmissions /\ idOf[t] = idOf[ack.of]
      BY <2>1, <2>7 DEF IInv, MapSound, TypeOK
    <3>2. tx'[t] = "sent" /\ reply'[t].of = ack.of
      BY <2>7, <3>1 DEF IInv, TypeOK
    <3>3. \A u \in Transmissions : u # t => tx'[u] = tx[u] /\ reply'[u] = reply[u]
      BY <2>7, <3>1 DEF IInv, TypeOK
    <3> HIDE DEF ack, t
    <3>4. AckSpentOnce'
      BY <2>1, <2>3, <3>1, <3>2, <3>3 DEF IInv
    <3>5. OnLineFresh'
      BY <2>3, <2>4, <3>2, <3>3
    <3> QED
      BY <2>3, <2>5, <3>4, <3>5 DEF IInv
  <2>8. \/ tx' = [tx EXCEPT ![t] = "dropped"] /\ reply' = reply
        \/ UNCHANGED <<tx, reply>>
        \/ /\ t # NoTx /\ tx' = [tx EXCEPT ![t] = "sent"]
           /\ reply' = [reply EXCEPT
                         ![t] = [of |-> ack.of, value |-> TRUE, status |-> ack.status]]
    BY <1>4 DEF RecvAck, Found, Removed
  <2> QED
    BY <2>6, <2>7, <2>8, ZenonT(60) DEF IInv, TypeOK
<1>5. CASE SendErr
  BY <1>5 DEF SendErr, ackVars, deviceVars, IInv
<1>6. CASE RecvOther
  <2>1. /\ Len(line') = Len(line) - 1 /\ Len(line) \in Nat
        /\ \A k \in 1 .. Len(line') : line'[k] = line[k + 1]
    BY <1>6, LineTail DEF RecvOther, IInv
  <2>2. UNCHANGED <<idOf, tx, reply, air, answered>>
    BY <1>6 DEF RecvOther, ackVars, deviceVars
  <2>3. OnLineFresh' /\ OnLineOnce'
    <3>1. \A k \in 1 .. Len(line') : k + 1 \in 1 .. Len(line)
      BY <2>1
    <3>2. OnLineFresh'
      BY <2>1, <2>2, <3>1 DEF IInv
    <3>3. OnLineOnce'
      BY <2>1, <3>1, SMTT(30) DEF IInv
    <3> QED
      BY <3>2, <3>3
  <2> QED
    BY <2>2, <2>3 DEF IInv
<1>7. CASE LineDamage
  <2>1. UNCHANGED <<idOf, tx, reply, air, answered>>
    BY <1>7 DEF LineDamage, ackVars
  <2>2. CASE line' = Tail(line)
    BY <1>7, <2>1, <2>2, LineTail DEF LineDamage, IInv
  <2>3. ASSUME NEW bad \in {BadFrame, BadMsg}, line' = <<bad>> \o Tail(line) PROVE Goal
    <3>1. /\ Len(line') = Len(line) /\ line'[1].kind # "ack"
          /\ \A k \in 2 .. Len(line') : line'[k] = line[k]
      BY <1>7, <2>3, LineReplaced DEF LineDamage, IInv
    <3>2. \A k \in 1 .. Len(line') : line'[k].kind = "ack" =>
            k \in 1 .. Len(line) /\ line'[k] = line[k]
      BY <1>7, <3>1, LenProperties, SMTT(30) DEF LineDamage, IInv, TypeOK
    <3> QED
      BY <2>1, <3>2 DEF IInv
  <2> QED
    BY <1>7, <2>2, <2>3 DEF LineDamage
<1>8. ASSUME NEW t \in Transmissions, NEW s \in Statuses, DeviceAck(t, s) PROVE Goal
  <2>1. /\ Len(line') = Len(line) + 1 /\ Len(line) \in Nat
        /\ \A k \in 1 .. Len(line) : line'[k] = line[k]
        /\ line'[Len(line) + 1].of = t
    BY <1>8, FrameFields, ConstAssumption, LenProperties, AppendProperties
    DEF DeviceAck, AckFrame, IInv, TypeOK
  <2>2. /\ t \in air /\ air' = air \ {t} /\ answered' = answered \cup {t}
        /\ UNCHANGED <<idOf, tx, reply>>
    BY <1>8 DEF DeviceAck, ackVars
  <2>3. t \notin answered /\ t \notin Told
    BY <2>2 DEF IInv
  <2> QED
    BY <2>1, <2>2, <2>3 DEF IInv
<1>9. CASE DeviceEvent
  <2>1. /\ Len(line') = Len(line) + 1 /\ Len(line) \in Nat
        /\ \A k \in 1 .. Len(line) : line'[k] = line[k]
        /\ line'[Len(line) + 1].kind = "event"
    BY <1>9, FrameFields, ConstAssumption, LenProperties, AppendProperties
    DEF DeviceEvent, EventFrame, IInv, TypeOK
  <2>2. UNCHANGED <<idOf, tx, reply, air, answered>>
    BY <1>9 DEF DeviceEvent, ackVars
  <2> QED
    BY <2>1, <2>2 DEF IInv
<1> QED
  BY <1>1, <1>2, <1>3, <1>4, <1>5, <1>6, <1>7, <1>8, <1>9, OtherSteps

LEMMA Invariance == Spec => []IInv
<1>1. IInv /\ [Next]_vars => IInv'
  BY TypeStep, NumberedStep, MapStep, AckStep DEF IInv
<1> QED
  BY IInvInit, <1>1, PTL DEF Spec

\* The map owns exactly the senders that are still to be used.
THEOREM MapOwnsSendersAlways == Spec => []MapOwnsSenders
<1>1. IInv => MapOwnsSenders
  <2> SUFFICES ASSUME IInv, NEW t \in Transmissions
               PROVE  tx[t] = "held" <=> \E i \in Ids : waiting_ack[i] = t /\ idOf[t] = i
    BY DEF MapOwnsSenders
  <2>1. tx[t] = "held" => idOf[t] \in Ids /\ waiting_ack[idOf[t]] = t
    BY DEF IInv, TypeOK, Numbered, MapComplete, Transmissions
  <2>2. t # NoTx
    BY DEF Transmissions, NoTx
  <2>3. ASSUME NEW i \in Ids, waiting_ack[i] = t PROVE tx[t] = "held"
    BY <2>2, <2>3 DEF IInv, MapSound
  <2> QED
    BY <2>1, <2>3
<1> QED
  BY <1>1, Invariance, PTL

\* An ACK is told to one waiter at most, and to one with its id.
THEOREM AckSpentOnceAlways == Spec => []AckSpentOnce
<1>1. IInv => AckSpentOnce
  BY DEF IInv
<1> QED
  BY <1>1, Invariance, PTL

-----------------------------------------------------------------------------
\* AckNotMissed says nothing of the transmission whose framed.send has not returned: its
\* ACK may be on the line already, and the loop cannot read it before its sender is held.
InWait(t) == tx[t] = "held" \/ (pc = "sending" /\ t = nSent)
OnLine(t) == \E k \in 1 .. Len(line) : line[k].kind = "ack" /\ line[k].of = t
NotMissed == nDamaged = 0 => \A t \in answered : InWait(t) => OnLine(t)

\* What is read was at the head; what is put on the line leaves the rest there.
LEMMA LineGrows ==
  ASSUME TypeOK, NEW f \in Frames, line' = Append(line, f)
  PROVE  /\ \A t : OnLine(t) => OnLine(t)'
         /\ f.kind = "ack" => OnLine(f.of)'
<1>1. /\ Len(line') = Len(line) + 1 /\ Len(line) \in Nat /\ line'[Len(line) + 1] = f
      /\ \A k \in 1 .. Len(line) : line'[k] = line[k]
  BY AppendProperties, LenProperties DEF TypeOK
<1> QED
  BY <1>1 DEF OnLine

LEMMA LineShrinks ==
  ASSUME TypeOK, line # <<>>, line' = Tail(line),
         NEW t, OnLine(t), Head(line).kind = "ack" => Head(line).of # t
  PROVE  OnLine(t)'
<1>1. PICK k \in 1 .. Len(line) : line[k].kind = "ack" /\ line[k].of = t
  BY DEF OnLine
<1>2. /\ Len(line') = Len(line) - 1 /\ Len(line) \in Nat /\ Head(line) = line[1]
      /\ \A j \in 1 .. Len(line') : line'[j] = line[j + 1]
  BY LineTail
<1>3. k - 1 \in 1 .. Len(line') /\ line'[k - 1] = line[k]
  BY <1>1, <1>2
<1> QED
  BY <1>1, <1>3 DEF OnLine

LEMMA NotMissedStep == IInv /\ NotMissed /\ [Next]_vars => NotMissed'
<1> SUFFICES ASSUME IInv, NotMissed, [Next]_vars, nDamaged' = 0,
                    NEW t \in answered', InWait(t)'
             PROVE  OnLine(t)'
  BY DEF NotMissed
<1>1. nDamaged \in Nat /\ TypeOK /\ Numbered /\ t \in Transmissions
  BY TypeStep, SMTT(30) DEF IInv, TypeOK
<1>2. nDamaged = 0 /\ ~LineDamage
  BY <1>1 DEF Next, Client, Loop, Waiter, Device, next_id, command_tx, DropSenders, TakeEvent,
     RecvCommand, SendOk, SendErr, RecvClosed, RecvAck, RecvOther, RecvEof, RecvError, Tick,
     WaiterRuns, WaiterAcked, WaiterClosed, WaiterExpires, WaiterTimeout, WaiterStep,
     DeviceAck, DeviceEvent, LineDamage, HangUp, Over, vars, deviceVars
<1>3. t \in answered /\ InWait(t) => OnLine(t)
  BY <1>2 DEF NotMissed
<1>4. CASE UNCHANGED <<pc, nSent, idOf, waiting_ack, tx, reply, air, answered, line>>
  BY <1>3, <1>4 DEF InWait, OnLine
<1>5. ASSUME NEW reaches \in BOOLEAN, RecvCommand(reaches) PROVE OnLine(t)'
  <2>1. /\ nSent' = nSent + 1 /\ pc' = "sending" /\ UNCHANGED <<tx, answered, line>>
    BY <1>5 DEF RecvCommand, ackVars
  <2>2. t # nSent + 1
    BY <1>1, <2>1 DEF Numbered, TypeOK
  <2> QED
    BY <1>3, <2>1, <2>2 DEF InWait, OnLine
<1>6. CASE SendOk
  <2>1. /\ pc = "sending" /\ pc' = "select" /\ UNCHANGED <<answered, line>>
        /\ tx'[t] = "held" => t = nSent \/ tx[t] = "held"
    BY <1>1, <1>6 DEF SendOk, deviceVars
  <2> QED
    BY <1>3, <2>1 DEF InWait, OnLine
<1>7. CASE SendErr
  BY <1>3, <1>7 DEF SendErr, ackVars, deviceVars, InWait, OnLine
<1>8. CASE RecvClosed \/ RecvError \/ Tick
  <2>1. /\ pc' \in {"select", "done"} /\ UNCHANGED <<answered, line>>
        /\ tx'[t] = "held" => tx[t] = "held"
    BY <1>1, <1>8 DEF RecvClosed, RecvError, End, Tick, Selecting, deviceVars
  <2> QED
    BY <1>3, <2>1 DEF InWait, OnLine
<1>9. CASE RecvAck
  <2> DEFINE ack == Head(line)
             u == waiting_ack[idOf[ack.of]]
  <2>1. /\ line # <<>> /\ line' = Tail(line) /\ pc' = "select"
        /\ UNCHANGED <<pc, nSent, answered>>
    BY <1>9 DEF RecvAck, Selecting, deviceVars
  <2>2. ack.of \in Transmissions /\ idOf[ack.of] \in Ids
    BY <1>9, RecvAckFacts
  <2>3. u \in Transmissions \cup {NoTx}
    BY <2>2 DEF IInv, TypeOK
  <2>4. /\ t # u => tx'[t] = tx[t]
        /\ u # NoTx => tx'[u] \in {"sent", "dropped"}
    BY <1>1, <1>9, <2>3, RecvAckSender
  <2>5. tx[t] = "held" /\ t # u
    BY <1>1, <2>1, <2>4 DEF InWait, Transmissions, NoTx
  <2>6. ack.of # t
    BY <1>1, <2>5 DEF IInv, MapComplete
  <2> QED
    BY <1>1, <1>3, <2>1, <2>5, <2>6, LineShrinks DEF InWait
<1>10. CASE RecvOther
  <2>1. /\ line # <<>> /\ line' = Tail(line) /\ Head(line).kind # "ack"
        /\ UNCHANGED <<pc, nSent, tx, answered>>
    BY <1>10 DEF RecvOther, ackVars, deviceVars
  <2> QED
    BY <1>1, <1>3, <2>1, LineShrinks DEF InWait
<1>11. ASSUME NEW c \in Transmissions, NEW s \in Statuses, DeviceAck(c, s) PROVE OnLine(t)'
  <2>1. /\ line' = Append(line, AckFrame(c, s)) /\ answered' = answered \cup {c}
        /\ UNCHANGED <<pc, nSent, tx>>
    BY <1>11 DEF DeviceAck, ackVars
  <2>2. AckFrame(c, s) \in Frames /\ AckFrame(c, s).kind = "ack" /\ AckFrame(c, s).of = c
    BY ConstAssumption, FrameFields DEF AckFrame
  <2>3. (\A v : OnLine(v) => OnLine(v)') /\ OnLine(c)'
    BY <1>1, <2>1, <2>2, LineGrows
  <2> QED
    BY <1>3, <2>1, <2>3 DEF InWait
<1>12. CASE DeviceEvent
  <2>1. /\ line' = Append(line, EventFrame(nEvents + 1)) /\ nEvents + 1 \in 1 .. MaxEvents
        /\ UNCHANGED <<pc, nSent, tx, answered>>
    BY <1>1, <1>12, ConstAssumption DEF DeviceEvent, TypeOK, ackVars
  <2>2. \A v : OnLine(v) => OnLine(v)'
    BY <1>1, <2>1, FrameFields, LineGrows
  <2> QED
    BY <1>3, <2>1, <2>2 DEF InWait
<1> QED
  BY <1>2, <1>4, <1>5, <1>6, <1>7, <1>8, <1>9, <1>10, <1>11, <1>12, OtherSteps

\* While the line is undamaged the answer to a transmission the map waits for is never
\* missed, though the device may answer before framed.send has returned.
THEOREM AckNotMissedAlways == Spec => []AckNotMissed
<1>1. Init => NotMissed
  BY DEF Init, NotMissed
<1>2. NotMissed => AckNotMissed
  BY DEF NotMissed, AckNotMissed, InWait, OnLine
<1> QED
  BY <1>1, <1>2, NotMissedStep, Invariance, PTL DEF Spec

-----------------------------------------------------------------------------
(* SerialTask implements AckPromise.                                        *)

\* Nothing is known of transmissions that are still to be made, and the one
\* being made has no waiter yet.
Unmade ==
  /\ \A t \in Transmissions : t > nSent => idOf[t] = NoId /\ waiter[t] = "none"
  /\ pc = "sending" => waiter[nSent] = "none"

\* The sender in the map belongs to the newest transmission of its id.
HeldNewest ==
  \A t, u \in Transmissions :
    tx[t] = "held" /\ u > t /\ idOf[u] = idOf[t] => waiter[u] = "none"

\* A sender that was dropped before its waiter gave up was so for a reason.
Reason(t) ==
  \/ pc = "done"
  \/ \E u \in Transmissions : u > t /\ idOf[u] = idOf[t] /\ waiter[u] # "none"

DroppedForReason ==
  \A t \in Transmissions :
    /\ tx[t] = "dropped" /\ waiter[t] \in {"waiting", "expired", "closed"} => Reason(t)
    /\ waiter[t] = "closed" => tx[t] = "dropped"

PInv == IInv /\ Unmade /\ HeldNewest /\ DroppedForReason

-----------------------------------------------------------------------------
LEMMA PInvInit == Init => PInv
<1> SUFFICES ASSUME Init PROVE PInv
  OBVIOUS
<1>1. IInv
  BY IInvInit
<1>2. Unmade /\ HeldNewest /\ DroppedForReason
  BY DEF Init, Unmade, HeldNewest, DroppedForReason
<1> QED
  BY <1>1, <1>2 DEF PInv

\* The steps that do not change what PInv adds.
LEMMA QuietSteps ==
  ASSUME [Next]_vars
  PROVE  \/ UNCHANGED <<pc, nSent, idOf, tx, waiter>>
         \/ \E reaches \in BOOLEAN : RecvCommand(reaches)
         \/ SendOk \/ SendErr \/ RecvClosed \/ RecvAck \/ RecvError \/ Tick
         \/ \E t \in Transmissions : WaiterRuns(t)
BY DEF Next, Client, Loop, Waiter, Device, next_id, command_tx, DropSenders, TakeEvent,
       RecvOther, RecvEof, DeviceAck, DeviceEvent, LineDamage, HangUp, Over, vars,
       clientVars, ackVars, deviceVars

\* What a waiter does, and what it does not touch.
LEMMA WaiterFacts ==
  ASSUME TypeOK, NEW t \in Transmissions, WaiterRuns(t)
  PROVE  /\ UNCHANGED <<pc, nSent, idOf, waiting_ack, tx, reply, answered>>
         /\ \A u \in Transmissions : u # t => waiter'[u] = waiter[u]
         /\ \/ waiter[t] = "waiting" /\ waiter'[t] = "acked" /\ tx[t] = "sent"
            \/ waiter[t] = "waiting" /\ waiter'[t] = "closed" /\ tx[t] = "dropped"
            \/ waiter[t] = "waiting" /\ waiter'[t] = "expired" /\ tx[t] = "held"
            \/ waiter[t] = "expired" /\ waiter'[t] = "timeout"
BY DEF WaiterRuns, WaiterAcked, WaiterClosed, WaiterExpires, WaiterTimeout, WaiterStep,
       TypeOK, deviceVars

\* What the end of the loop does to the senders.
LEMMA EndFacts ==
  ASSUME TypeOK, RecvClosed \/ RecvError
  PROVE  /\ UNCHANGED <<nSent, idOf, waiter, reply, answered>> /\ pc' = "done"
         /\ \A t \in Transmissions :
              tx'[t] = tx[t] \/ (tx[t] = "held" /\ tx'[t] = "dropped")
<1>1. /\ UNCHANGED <<nSent, idOf, waiter, reply, answered>> /\ End
  BY DEF RecvClosed, RecvError, deviceVars
<1>2. tx' = [t \in Transmissions |-> IF tx[t] = "held" THEN "dropped" ELSE tx[t]]
  BY <1>1 DEF End
<1>3. pc' = "done"
  BY <1>1 DEF End
<1> QED
  BY <1>1, <1>2, <1>3

\* The tick drops only senders whose waiter has given up.
LEMMA TickFacts ==
  ASSUME TypeOK, Tick
  PROVE  /\ UNCHANGED <<pc, nSent, idOf, waiter, reply, answered>>
         /\ \A t \in Transmissions :
              \/ tx'[t] = tx[t]
              \/ tx[t] = "held" /\ tx'[t] = "dropped" /\ waiter[t] = "timeout"
BY DEF Tick, is_closed, TypeOK, deviceVars

\* An ACK spends the sender it selects: it is delivered if the receiver is
\* there, and dropped if not.
LEMMA AckFacts ==
  ASSUME PInv, RecvAck
  PROVE  /\ UNCHANGED <<pc, nSent, idOf, waiter, answered>>
         /\ pc = "select"
         /\ \/ UNCHANGED <<tx, reply>>
            \/ \E t \in Transmissions :
                 /\ tx[t] = "held" /\ ~RxOpen(t)
                 /\ tx' = [tx EXCEPT ![t] = "dropped"] /\ UNCHANGED reply
            \/ \E t \in Transmissions :
                 /\ tx[t] = "held" /\ RxOpen(t) /\ idOf[t] = idOf[Head(line).of]
                 /\ tx' = [tx EXCEPT ![t] = "sent"]
                 /\ reply' = [reply EXCEPT ![t] = [of |-> Head(line).of, value |-> TRUE,
                                                   status |-> Head(line).status]]
<1> DEFINE t == waiting_ack[idOf[Head(line).of]]
<1>1. t \in Transmissions \cup {NoTx} /\ idOf[Head(line).of] \in Ids
  BY RecvAckFacts DEF PInv, IInv, TypeOK
<1>2. t # NoTx => t \in Transmissions /\ tx[t] = "held" /\ idOf[t] = idOf[Head(line).of]
  BY <1>1 DEF PInv, IInv, MapSound
<1>3. /\ UNCHANGED <<pc, nSent, idOf, waiter, answered>> /\ pc = "select"
      /\ \/ /\ t # NoTx /\ RxOpen(t)
            /\ tx' = [tx EXCEPT ![t] = "sent"]
            /\ reply' = [reply EXCEPT ![t] = [of |-> Head(line).of, value |-> TRUE,
                                              status |-> Head(line).status]]
         \/ t # NoTx /\ ~RxOpen(t) /\ tx' = [tx EXCEPT ![t] = "dropped"] /\ reply' = reply
         \/ UNCHANGED <<tx, reply>>
  BY DEF RecvAck, Found, Selecting, deviceVars
<1> HIDE DEF t
<1> QED
  BY <1>2, <1>3

\* What a send that succeeds does.
LEMMA SendOkFacts ==
  ASSUME PInv, SendOk
  PROVE  /\ nSent \in Transmissions /\ pc = "sending" /\ pc' = "select"
         /\ idOf[nSent] \in Ids /\ waiter[nSent] = "none"
         /\ UNCHANGED <<nSent, idOf, reply, answered>>
         /\ waiter' = [waiter EXCEPT ![nSent] = "waiting"]
         /\ tx[nSent] = "none" /\ tx'[nSent] = "held"
         /\ \A t \in Transmissions \ {nSent} :
              \/ tx'[t] = tx[t] /\ (tx[t] = "held" => idOf[t] # idOf[nSent])
              \/ /\ tx[t] = "held" /\ tx'[t] = "dropped" /\ t < nSent
                 /\ idOf[t] = idOf[nSent]
<1>1. /\ pc = "sending" /\ pc' = "select" /\ waiter' = [waiter EXCEPT ![nSent] = "waiting"]
      /\ UNCHANGED <<nSent, idOf, reply, answered>>
      /\ tx' = [t \in Transmissions |->
                  IF t = nSent THEN "held"
                  ELSE IF t = waiting_ack[idOf[nSent]] THEN "dropped" ELSE tx[t]]
  BY DEF SendOk, deviceVars
<1>2. nSent \in Transmissions
  BY <1>1 DEF PInv, IInv, Budget, TypeOK, Transmissions
<1>3. idOf[nSent] \in Ids /\ waiter[nSent] = "none" /\ tx[nSent] = "none"
  BY <1>1, <1>2 DEF PInv, IInv, Numbered, Unmade, TypeOK, Transmissions
<1>4. \A t \in Transmissions : t > nSent => tx[t] = "none"
  BY DEF PInv, IInv, Numbered
<1>5. ASSUME NEW t \in Transmissions \ {nSent}
      PROVE  \/ tx'[t] = tx[t] /\ (tx[t] = "held" => idOf[t] # idOf[nSent])
             \/ /\ tx[t] = "held" /\ tx'[t] = "dropped" /\ t < nSent
                /\ idOf[t] = idOf[nSent]
  <2>1. CASE t = waiting_ack[idOf[nSent]]
    <3>1. idOf[t] = idOf[nSent] /\ tx[t] = "held"
      BY <1>3, <2>1 DEF PInv, IInv, MapSound, Transmissions, NoTx
    <3>2. t < nSent
      BY <1>2, <1>4, <3>1 DEF Transmissions
    <3> QED
      BY <1>1, <2>1, <3>1, <3>2
  <2>2. CASE t # waiting_ack[idOf[nSent]]
    <3>1. tx[t] = "held" => idOf[t] # idOf[nSent]
      BY <2>2 DEF PInv, IInv, MapComplete
    <3> QED
      BY <1>1, <2>2, <3>1
  <2> QED
    BY <2>1, <2>2
<1> QED
  BY <1>1, <1>2, <1>3, <1>5
-----------------------------------------------------------------------------
LEMMA PInvStep == PInv /\ [Next]_vars => Unmade' /\ HeldNewest' /\ DroppedForReason'
<1> DEFINE Goal == Unmade' /\ HeldNewest' /\ DroppedForReason'
<1> SUFFICES ASSUME PInv, [Next]_vars PROVE Goal
  OBVIOUS
<1>0. TypeOK /\ Numbered
  BY DEF PInv, IInv
<1> USE DEF Unmade, HeldNewest, DroppedForReason, Reason
<1>1. CASE UNCHANGED <<pc, nSent, idOf, tx, waiter>>
  BY <1>1 DEF PInv
<1>2. ASSUME NEW reaches \in BOOLEAN, RecvCommand(reaches) PROVE Goal
  <2>1. /\ pc = "select" /\ pc' = "sending" /\ nSent' = nSent + 1
        /\ idOf' = [idOf EXCEPT ![nSent + 1] = Head(command_rx)]
        /\ UNCHANGED <<tx, waiter>>
    BY <1>2 DEF RecvCommand, Selecting, ackVars
  <2>2. nSent + 1 \in Transmissions /\ nSent \in Nat
    BY <1>2, <1>0, RecvCommandFacts, ConstAssumption DEF PInv, IInv, TypeOK
  <2>3. waiter[nSent + 1] = "none" /\ tx[nSent + 1] = "none"
    BY <1>0, <2>2 DEF PInv, Numbered
  <2>4. \A t \in Transmissions : t # nSent + 1 => idOf'[t] = idOf[t]
    BY <1>0, <2>1 DEF TypeOK
  <2>5. Unmade'
    BY <2>1, <2>2, <2>3, <2>4 DEF PInv, Transmissions
  <2>6. HeldNewest'
    BY <2>1, <2>3, <2>4 DEF PInv
  <2>7. DroppedForReason'
    BY <2>1, <2>3, <2>4 DEF PInv
  <2> QED
    BY <2>5, <2>6, <2>7
<1>3. CASE SendOk
  <2> HIDE DEF Unmade, HeldNewest, DroppedForReason, Reason
  <2>1. /\ nSent \in Transmissions /\ pc = "sending" /\ pc' = "select"
        /\ UNCHANGED <<nSent, idOf>>
        /\ waiter[nSent] = "none" /\ waiter'[nSent] = "waiting"
        /\ \A t \in Transmissions \ {nSent} : waiter'[t] = waiter[t]
        /\ tx'[nSent] = "held"
    BY <1>0, <1>3, SendOkFacts DEF TypeOK
  <2>2. \A t \in Transmissions \ {nSent} :
          \/ tx'[t] = tx[t] /\ (tx[t] = "held" => idOf[t] # idOf[nSent])
          \/ /\ tx[t] = "held" /\ tx'[t] = "dropped" /\ t < nSent
             /\ idOf[t] = idOf[nSent]
    BY <1>3, SendOkFacts
  <2>3. Unmade'
    BY <2>1 DEF PInv, Unmade, Transmissions
  <2>4. HeldNewest'
    <3> SUFFICES ASSUME NEW t \in Transmissions, NEW u \in Transmissions,
                        tx'[t] = "held", u > t, idOf[u] = idOf[t]
                 PROVE  waiter'[u] = "none"
      BY <2>1 DEF HeldNewest
    <3>1. CASE t = nSent
      BY <2>1, <3>1 DEF PInv, Unmade, Transmissions
    <3>2. CASE t # nSent
      <4>1. tx[t] = "held" /\ u # nSent
        BY <2>2, <3>2
      <4> QED
        BY <2>1, <4>1 DEF PInv, HeldNewest
    <3> QED
      BY <3>1, <3>2
  <2>5. DroppedForReason'
    <3> SUFFICES ASSUME NEW t \in Transmissions
                 PROVE  /\ tx'[t] = "dropped" /\ waiter'[t] \in {"waiting", "expired", "closed"}
                             => Reason(t)'
                        /\ waiter'[t] = "closed" => tx'[t] = "dropped"
      BY DEF DroppedForReason
    <3>1. CASE t = nSent
      BY <2>1, <3>1
    <3>2. CASE t # nSent /\ tx'[t] = tx[t]
      <4>1. waiter'[t] = waiter[t]
        BY <2>1, <3>2
      <4>2. waiter[t] = "closed" => tx[t] = "dropped"
        BY DEF PInv, DroppedForReason
      <4>3. Reason(t) => Reason(t)'
        BY <2>1 DEF Reason
      <4>4. tx[t] = "dropped" /\ waiter[t] \in {"waiting", "expired", "closed"} => Reason(t)
        BY DEF PInv, DroppedForReason
      <4> QED
        BY <3>2, <4>1, <4>2, <4>3, <4>4
    <3>3. CASE /\ t # nSent /\ tx[t] = "held" /\ tx'[t] = "dropped" /\ t < nSent
               /\ idOf[t] = idOf[nSent]
      BY <2>1, <3>3 DEF Reason, Transmissions
    <3> QED
      BY <2>2, <3>1, <3>2, <3>3
  <2> QED
    BY <2>3, <2>4, <2>5
<1>4. CASE SendErr
  BY <1>4 DEF SendErr, ackVars, PInv
<1>5. CASE RecvClosed \/ RecvError
  BY <1>0, <1>5, EndFacts DEF PInv
<1>6. CASE RecvAck
  BY <1>0, <1>6, AckFacts DEF PInv, RxOpen, TypeOK
<1>7. CASE Tick
  BY <1>0, <1>7, TickFacts DEF PInv
<1>8. ASSUME NEW t \in Transmissions, WaiterRuns(t) PROVE Goal
  <2>1. /\ UNCHANGED <<pc, nSent, idOf, tx>>
        /\ \A u \in Transmissions : u # t => waiter'[u] = waiter[u]
        /\ waiter[t] # "none" /\ waiter'[t] # "none"
        /\ waiter'[t] = "closed" => waiter[t] = "waiting" /\ tx[t] = "dropped"
        /\ waiter'[t] = "expired" => tx[t] = "held"
        /\ waiter'[t] # "waiting"
    BY <1>0, <1>8, WaiterFacts
  <2>2. \A u \in Transmissions : waiter'[u] = "none" <=> waiter[u] = "none"
    BY <2>1
  <2>3. Unmade' /\ HeldNewest'
    <3>1. pc = "sending" => nSent \in Transmissions
      BY DEF PInv, IInv, Budget, TypeOK, Transmissions
    <3> QED
      BY <2>1, <2>2, <3>1 DEF PInv
  <2>4. \A u \in Transmissions : Reason(u) => Reason(u)'
    BY <2>1, <2>2
  <2>5. DroppedForReason'
    <3> HIDE DEF Reason
    <3> QED
      BY <2>1, <2>4 DEF PInv
  <2> QED
    BY <2>3, <2>5
<1> QED
  BY <1>1, <1>2, <1>3, <1>4, <1>5, <1>6, <1>7, <1>8, QuietSteps

LEMMA PInvAlways == Spec => []PInv
<1>1. PInv /\ [Next]_vars => PInv'
  <2>1. IInv /\ [Next]_vars => IInv'
    BY TypeStep, NumberedStep, MapStep, AckStep DEF IInv
  <2> QED
    BY <2>1, PInvStep DEF PInv
<1> QED
  BY PInvInit, <1>1, PTL DEF Spec

\* A waiter loses its sender only to a later message with its id or to the end
\* of the loop, never to the tick.
THEOREM ClosedOnlyIfSupersededAlways == Spec => []ClosedOnlyIfSuperseded
<1>1. PInv => ClosedOnlyIfSuperseded
  <2> SUFFICES ASSUME PInv, NEW t \in Transmissions, waiter[t] = "closed", pc # "done"
               PROVE  \E u \in t + 1 .. nSent : idOf[u] = idOf[t] /\ waiter[u] # "none"
    BY DEF ClosedOnlyIfSuperseded
  <2>1. PICK u \in Transmissions : u > t /\ idOf[u] = idOf[t] /\ waiter[u] # "none"
    BY DEF PInv, DroppedForReason, Reason
  <2>2. u <= nSent
    BY <2>1 DEF PInv, IInv, TypeOK, Unmade, Transmissions
  <2>3. u \in t + 1 .. nSent
    BY <2>1, <2>2 DEF PInv, IInv, TypeOK, Transmissions
  <2> QED
    BY <2>1, <2>3
<1> QED
  BY <1>1, PInvAlways, PTL
-----------------------------------------------------------------------------
(* The refinement: what each step of SerialTask is in AckPromise.           *)
OutcomeBar == [t \in Transmissions |-> IF waiter[t] = "expired" THEN "waiting" ELSE waiter[t]]
CreditBar  == [t \in Transmissions |-> IF tx[t] = "sent" THEN reply[t].of ELSE NoTx]

LEMMA InitMaps == Init => Promise!Init
<1> SUFFICES ASSUME Init PROVE Promise!Init
  OBVIOUS
<1>1. /\ \A t \in Transmissions : OutcomeBar[t] = "none" /\ CreditBar[t] = 0
      /\ idOf = [t \in Transmissions |-> -1] /\ answered = {} /\ (pc = "done") = FALSE
  BY DEF Init, OutcomeBar, CreditBar, NoTx, NoId
<1>2. /\ OutcomeBar = [t \in Transmissions |-> "none"]
      /\ CreditBar = [t \in Transmissions |-> 0]
  BY <1>1 DEF OutcomeBar, CreditBar
<1> QED
  BY <1>1, <1>2 DEF Promise!Init, Promise!NoId, Promise!Nobody, OutcomeBar, CreditBar

\* A step that changes neither ids, outcomes, credits, answers nor the end.
LEMMA Stutters ==
  ASSUME UNCHANGED <<idOf, answered>>, pc' = "done" <=> pc = "done",
         OutcomeBar' = OutcomeBar, CreditBar' = CreditBar
  PROVE  UNCHANGED Promise!vars
<1>1. (pc' = "done") = (pc = "done")
  OBVIOUS
<1> QED
  BY <1>1 DEF Promise!vars, OutcomeBar, CreditBar

\* A command the loop takes is transmitted with the id of its message.
LEMMA TransmitMaps ==
  ASSUME PInv, NEW reaches \in BOOLEAN, RecvCommand(reaches)
  PROVE  Promise!Next
<1>1. /\ Head(command_rx) \in Ids /\ nSent + 1 \in Transmissions
      /\ pc = "select" /\ pc' = "sending"
      /\ idOf' = [idOf EXCEPT ![nSent + 1] = Head(command_rx)]
      /\ UNCHANGED <<waiter, tx, reply, answered>>
  BY RecvCommandFacts DEF PInv, IInv, RecvCommand, Selecting, ackVars
<1>2. idOf[nSent + 1] = -1
  BY <1>1 DEF PInv, IInv, TypeOK, Unmade, NoId
<1>3. (pc' = "done") = (pc = "done") /\ pc # "done"
  BY <1>1
<1>4. PICK t \in Transmissions, i \in Ids : t = nSent + 1 /\ i = Head(command_rx)
  BY <1>1
<1>5. Promise!Transmit(t, i)
  BY <1>1, <1>2, <1>3, <1>4 DEF Promise!Transmit, Promise!NoId
<1> QED
  BY <1>5 DEF Promise!Next

\* A transmission is registered when framed.send has succeeded.
LEMMA RegisterMaps ==
  ASSUME PInv, SendOk
  PROVE  Promise!Next
<1>1. /\ nSent \in Transmissions /\ pc # "done" /\ (pc' = "done") = (pc = "done")
      /\ idOf[nSent] # -1 /\ waiter[nSent] = "none"
      /\ UNCHANGED <<idOf, answered>>
  BY SendOkFacts DEF Ids
<1>2. OutcomeBar' = [OutcomeBar EXCEPT ![nSent] = "waiting"]
  <2>1. waiter' = [waiter EXCEPT ![nSent] = "waiting"]
    BY SendOkFacts
  <2> QED
    BY <1>1, <2>1 DEF OutcomeBar, PInv, IInv, TypeOK
<1>3. CreditBar' = CreditBar
  <2>1. \A t \in Transmissions : tx'[t] = "sent" <=> tx[t] = "sent"
    BY SendOkFacts
  <2>2. reply' = reply
    BY SendOkFacts
  <2> QED
    BY <2>1, <2>2 DEF CreditBar
<1>4. PICK t \in Transmissions : t = nSent
  BY <1>1
<1>5. Promise!Register(t)
  BY <1>1, <1>2, <1>3, <1>4 DEF Promise!Register, Promise!NoId, OutcomeBar, CreditBar
<1> QED
  BY <1>5 DEF Promise!Next

\* The session ends when the loop does.
LEMMA EndMaps ==
  ASSUME PInv, RecvClosed \/ RecvError
  PROVE  Promise!Next
<1>1. /\ UNCHANGED <<idOf, waiter, reply, answered>> /\ (pc' = "done") = TRUE
      /\ \A t \in Transmissions : tx'[t] = "sent" <=> tx[t] = "sent"
  BY EndFacts DEF PInv, IInv
<1>2. OutcomeBar' = OutcomeBar /\ CreditBar' = CreditBar
  BY <1>1 DEF OutcomeBar, CreditBar
<1>3. Promise!End
  BY <1>1, <1>2 DEF Promise!End, OutcomeBar, CreditBar
<1> QED
  BY <1>3 DEF Promise!Next

\* An ACK is credited to the waiter it reaches, and to nobody otherwise.
LEMMA CreditMaps ==
  ASSUME PInv, RecvAck
  PROVE  Promise!Next \/ UNCHANGED Promise!vars
<1> DEFINE c == Head(line).of
<1>1. c \in answered \ Told /\ c \in Transmissions
  BY RecvAckFacts DEF PInv
<1>2. UNCHANGED <<idOf, waiter, answered>> /\ pc # "done" /\ (pc' = "done") = (pc = "done")
  BY AckFacts
<1>3. OutcomeBar' = OutcomeBar
  BY <1>2 DEF OutcomeBar
<1>4. CASE UNCHANGED <<tx, reply>>
  <2>1. CreditBar' = CreditBar
    BY <1>4 DEF CreditBar
  <2> QED
    BY <1>2, <1>3, <2>1, Stutters
<1>5. ASSUME NEW t \in Transmissions, tx[t] = "held",
             tx' = [tx EXCEPT ![t] = "dropped"], UNCHANGED reply
      PROVE  UNCHANGED Promise!vars
  <2>1. \A u \in Transmissions : tx'[u] = "sent" <=> tx[u] = "sent"
    BY <1>5 DEF PInv, IInv, TypeOK
  <2>2. CreditBar' = CreditBar
    BY <1>5, <2>1 DEF CreditBar
  <2> QED
    BY <1>2, <1>3, <2>2, Stutters
<1>6. ASSUME NEW t \in Transmissions, tx[t] = "held", RxOpen(t), idOf[t] = idOf[c],
             tx' = [tx EXCEPT ![t] = "sent"],
             reply' = [reply EXCEPT ![t] = [of |-> c, value |-> TRUE,
                                            status |-> Head(line).status]]
      PROVE  Promise!Next
  <2>1. OutcomeBar[t] = "waiting" /\ CreditBar[t] = 0
    BY <1>6 DEF OutcomeBar, CreditBar, RxOpen, NoTx
  <2>2. \A u \in Transmissions : u > t /\ idOf[u] = idOf[t] => OutcomeBar[u] = "none"
    BY <1>6 DEF PInv, HeldNewest, OutcomeBar
  <2>3. \A u \in Transmissions : CreditBar[u] # c
    BY <1>1 DEF CreditBar, Told, Transmissions, NoTx
  <2>4. CreditBar' = [CreditBar EXCEPT ![t] = c]
    <3>1. tx'[t] = "sent" /\ reply'[t].of = c
      BY <1>6 DEF PInv, IInv, TypeOK
    <3>2. \A u \in Transmissions : u # t => tx'[u] = tx[u] /\ reply'[u] = reply[u]
      BY <1>6 DEF PInv, IInv, TypeOK
    <3> HIDE DEF c
    <3> QED
      BY <3>1, <3>2 DEF CreditBar
  <2> HIDE DEF c
  <2>5. PICK d \in Transmissions : d = c
    BY <1>1
  <2>6. Promise!Credit(t, d)
    BY <1>1, <1>2, <1>3, <1>6, <2>1, <2>2, <2>3, <2>4, <2>5
    DEF Promise!Credit, Promise!Superseded, Promise!Nobody, OutcomeBar, CreditBar
  <2> QED
    BY <2>6 DEF Promise!Next
<1> QED
  BY <1>4, <1>5, <1>6, AckFacts

\* A waiter tells its sender what became of the message, once.
LEMMA ResolveMaps ==
  ASSUME PInv, NEW t \in Transmissions, WaiterRuns(t)
  PROVE  Promise!Next \/ UNCHANGED Promise!vars
<1>1. /\ UNCHANGED <<idOf, tx, reply, answered>> /\ (pc' = "done") = (pc = "done")
      /\ \A u \in Transmissions : u # t => waiter'[u] = waiter[u]
  BY WaiterFacts DEF PInv, IInv
<1>2. CreditBar' = CreditBar
  BY <1>1 DEF CreditBar
<1>3. ASSUME NEW how, waiter[t] \in {"waiting", "expired"}, waiter'[t] = how,
             how # "expired"
      PROVE  Promise!Resolve(t, how)
  <2>1. OutcomeBar' = [OutcomeBar EXCEPT ![t] = how] /\ OutcomeBar[t] = "waiting"
    BY <1>1, <1>3 DEF OutcomeBar
  <2> QED
    BY <1>1, <1>2, <2>1 DEF Promise!Resolve, OutcomeBar, CreditBar
<1>4. CASE waiter[t] = "waiting" /\ waiter'[t] = "acked" /\ tx[t] = "sent"
  <2>1. CreditBar[t] # 0
    BY <1>4 DEF PInv, IInv, TypeOK, AckSpentOnce, CreditBar, Transmissions
  <2>2. Promise!Acked(t)
    BY <1>3, <1>4, <2>1 DEF Promise!Acked, Promise!Nobody, CreditBar
  <2> QED
    BY <2>2 DEF Promise!Next
<1>5. CASE waiter[t] = "waiting" /\ waiter'[t] = "closed" /\ tx[t] = "dropped"
  <2>1. CreditBar[t] = 0
    BY <1>5 DEF CreditBar, NoTx
  <2>2. \/ pc = "done"
        \/ \E u \in Transmissions : u > t /\ idOf[u] = idOf[t] /\ OutcomeBar[u] # "none"
    BY <1>5 DEF PInv, DroppedForReason, Reason, OutcomeBar
  <2>3. Promise!Abandoned(t)
    BY <1>3, <1>5, <2>1, <2>2
    DEF Promise!Abandoned, Promise!Superseded, Promise!Nobody, OutcomeBar, CreditBar
  <2> QED
    BY <2>3 DEF Promise!Next
<1>6. CASE waiter[t] = "waiting" /\ waiter'[t] = "expired"
  <2>1. OutcomeBar' = OutcomeBar
    BY <1>1, <1>6 DEF OutcomeBar
  <2> QED
    BY <1>1, <1>2, <2>1, Stutters
<1>7. CASE waiter[t] = "expired" /\ waiter'[t] = "timeout"
  <2>1. Promise!TimedOut(t)
    BY <1>3, <1>7 DEF Promise!TimedOut
  <2> QED
    BY <2>1 DEF Promise!Next
<1> QED
  BY <1>4, <1>5, <1>6, <1>7, WaiterFacts DEF PInv, IInv

\* The device's answer is a confirmation.
LEMMA ConfirmMaps ==
  ASSUME PInv, NEW t \in Transmissions, NEW s \in Statuses, DeviceAck(t, s)
  PROVE  Promise!Next
<1>1. /\ t \in air /\ answered' = answered \cup {t}
      /\ UNCHANGED <<idOf, waiter, tx, reply, pc>>
  BY DEF DeviceAck, ackVars
<1>2. t \notin answered /\ idOf[t] # -1
  BY <1>1 DEF PInv, IInv, Unanswered, Numbered, Ids, Transmissions
<1>3. OutcomeBar' = OutcomeBar /\ CreditBar' = CreditBar /\ (pc' = "done") = (pc = "done")
  BY <1>1 DEF OutcomeBar, CreditBar
<1>4. Promise!Confirm(t)
  BY <1>1, <1>2, <1>3 DEF Promise!Confirm, Promise!NoId, OutcomeBar, CreditBar
<1> QED
  BY <1>4 DEF Promise!Next

LEMMA StepMaps == PInv /\ [Next]_vars => Promise!Next \/ UNCHANGED Promise!vars
<1> SUFFICES ASSUME PInv, [Next]_vars
             PROVE  Promise!Next \/ UNCHANGED Promise!vars
  OBVIOUS
<1>1. CASE UNCHANGED <<pc, idOf, tx, waiter, reply, answered>>
  <2>1. OutcomeBar' = OutcomeBar /\ CreditBar' = CreditBar
    BY <1>1 DEF OutcomeBar, CreditBar
  <2> QED
    BY <1>1, <2>1, Stutters
<1>2. CASE SendErr
  <2>1. UNCHANGED <<idOf, tx, waiter, reply, answered>> /\ pc # "done" /\ pc' # "done"
    BY <1>2 DEF SendErr, ackVars, deviceVars
  <2>2. OutcomeBar' = OutcomeBar /\ CreditBar' = CreditBar
    BY <2>1 DEF OutcomeBar, CreditBar
  <2> QED
    BY <2>1, <2>2, Stutters
<1>3. CASE Tick
  <2>1. /\ UNCHANGED <<pc, idOf, waiter, reply, answered>>
        /\ \A t \in Transmissions : tx'[t] = "sent" <=> tx[t] = "sent"
    BY <1>3, TickFacts DEF PInv, IInv
  <2>2. OutcomeBar' = OutcomeBar /\ CreditBar' = CreditBar
    BY <2>1 DEF OutcomeBar, CreditBar
  <2> QED
    BY <2>1, <2>2, Stutters
<1>4. \/ UNCHANGED <<pc, idOf, tx, waiter, reply, answered>>
      \/ \E reaches \in BOOLEAN : RecvCommand(reaches)
      \/ SendOk \/ SendErr \/ RecvClosed \/ RecvAck \/ RecvError \/ Tick
      \/ \E t \in Transmissions : WaiterRuns(t)
      \/ \E t \in Transmissions, s \in Statuses : DeviceAck(t, s)
  BY DEF Next, Client, Loop, Waiter, Device, next_id, command_tx, DropSenders, TakeEvent,
         RecvOther, RecvEof, DeviceEvent, LineDamage, HangUp, Over, vars,
         clientVars, ackVars, deviceVars
<1> QED
  BY <1>1, <1>2, <1>3, <1>4, TransmitMaps, RegisterMaps, EndMaps, CreditMaps,
     ResolveMaps, ConfirmMaps

\* SerialTask implements AckPromise: whatever the loop, the map, the waiters
\* and the tick do together, every answer is credited once, to the newest
\* registered message with its id, and no waiter is told anything else.
THEOREM PromiseKeptAlways == Spec => PromiseKept
<1>1. PInv /\ [Next]_vars => [Promise!Next]_(Promise!vars)
  BY StepMaps
<1> QED
  BY InitMaps, <1>1, PInvAlways, PTL DEF Spec, PromiseKept, Promise!Spec
=============================================================================
