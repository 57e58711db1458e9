---------------------------- MODULE MqttTaskProofs ----------------------------
(***************************************************************************)
(* Theorems of MqttTask, for any number of requests, messages and dropped  *)
(* links and any capacity of the client.                                   *)
(***************************************************************************)
EXTENDS MqttTask, SequenceTheorems, FiniteSetTheorems, TLAPS

\* The way of a request: command_rx, requests, writing, unsent, received.  Numbers rise
\* along each of them (a Disconnect command has none), and what is further on its way has
\* the lower number.
Rising(s) == \A i, j \in DOMAIN s : i < j /\ s[j].n # Nobody => s[i].n < s[j].n
Below(A, B) == \A a \in A, b \in B : a < b

Received == NumbersIn(received)
Unsent   == NumbersIn(unsent)
InHand   == NumbersIn(writing)
Queued   == NumbersIn(requests)
Waiting  == NumbersIn(command_rx) \ {Nobody}

RisingQueues ==
  Rising(received) /\ Rising(unsent) /\ Rising(writing) /\ Rising(requests) /\ Rising(command_rx)

BelowQueues ==
  /\ Below(Received, Unsent) /\ Below(Received, InHand) /\ Below(Received, Queued)
  /\ Below(Received, Waiting)
  /\ Below(Unsent, InHand) /\ Below(Unsent, Queued) /\ Below(Unsent, Waiting)
  /\ Below(InHand, Queued) /\ Below(InHand, Waiting)
  /\ Below(Queued, Waiting)
  /\ \A m \in Received \cup Unsent \cup InHand \cup Queued \cup Waiting : m <= nRequests

Ordered == RisingQueues /\ BelowQueues

\* A client without a link holds nothing, and its user has been told, if there is one
\* that still listens.  poll has at most one request in hand.
Idle ==
  /\ link \in {"none", "dialing"} =>
       requests = <<>> /\ writing = <<>> /\ unsent = <<>> /\ ~connected
  /\ link \in {"none", "dialing"} /\ pc # "stopped" => accepted = {}
  /\ told = "Connected" /\ pc # "stopped" => link \in {"up", "broken"}
  /\ Len(writing) <= 1

IInv == TypeOK /\ Ordered /\ Idle /\ NoSilentLoss

-----------------------------------------------------------------------------
(* Sequences of commands and the numbers in them.                           *)

All == Requests \cup {Disconnect}

LEMMA AllNumbers ==
  /\ \A r \in Requests : r.n \in Numbers /\ r.n \in Nat /\ r.n # Nobody
  /\ \A r \in All : r.n \in Nat
  /\ \A r \in All : r # Disconnect => r \in Requests
  /\ Requests \subseteq All
BY ConstAssumption DEF All, Requests, Numbers, Disconnect, Nobody

LEMMA NumbersTyped ==
  ASSUME NEW S \in SUBSET All, NEW s \in Seq(S)
  PROVE  /\ NumbersIn(s) \subseteq Nat
         /\ S \subseteq Requests => NumbersIn(s) \subseteq Numbers /\ Nobody \notin NumbersIn(s)
         /\ s \in Seq(All)
<1>1. \A i \in DOMAIN s : s[i] \in S
  BY LenProperties
<1>2. s \in Seq(All)
  BY SeqDef
<1> QED
  BY <1>1, <1>2, AllNumbers DEF NumbersIn

LEMMA NumbersEmpty == NumbersIn(<<>>) = {} /\ Rising(<<>>)
BY DEF NumbersIn, Rising

LEMMA NumbersAppend ==
  ASSUME NEW s \in Seq(All), NEW e \in All
  PROVE  /\ NumbersIn(Append(s, e)) = NumbersIn(s) \cup {e.n}
         /\ Rising(s) /\ (e.n = Nobody \/ Below(NumbersIn(s), {e.n})) => Rising(Append(s, e))
<1>1. /\ Len(s) \in Nat /\ DOMAIN s = 1 .. Len(s) /\ DOMAIN Append(s, e) = 1 .. Len(s) + 1
      /\ Append(s, e)[Len(s) + 1] = e /\ \A k \in 1 .. Len(s) : Append(s, e)[k] = s[k]
  BY LenProperties, AppendProperties
<1> DEFINE t == Append(s, e)
<1>2. /\ \A k \in DOMAIN s : k \in DOMAIN t /\ t[k] = s[k]
      /\ Len(s) + 1 \in DOMAIN t /\ t[Len(s) + 1] = e
      /\ \A k \in DOMAIN t : k \in DOMAIN s \/ k = Len(s) + 1
      /\ \A j, k \in DOMAIN t : j < k => j \in DOMAIN s
  BY <1>1
<1> HIDE DEF t
<1>3. NumbersIn(t) = NumbersIn(s) \cup {e.n}
  BY <1>2 DEF NumbersIn
<1>4. ASSUME Rising(s), e.n = Nobody \/ Below(NumbersIn(s), {e.n}),
             NEW j \in DOMAIN t, NEW k \in DOMAIN t, j < k, t[k].n # Nobody
      PROVE  t[j].n < t[k].n
  <2>1. j \in DOMAIN s /\ t[j] = s[j]
    BY <1>2, <1>4
  <2>2. CASE k \in DOMAIN s
    BY <1>2, <1>4, <2>1, <2>2 DEF Rising
  <2>3. CASE k = Len(s) + 1
    BY <1>2, <1>4, <2>1, <2>3 DEF Below, NumbersIn
  <2> QED
    BY <1>2, <2>2, <2>3
<1>5. Rising(s) /\ (e.n = Nobody \/ Below(NumbersIn(s), {e.n})) => Rising(t)
  BY <1>4 DEF Rising
<1> QED
  BY <1>3, <1>5 DEF t

LEMMA NumbersTail ==
  ASSUME NEW S \in SUBSET All, NEW s \in Seq(S), s # <<>>
  PROVE  /\ Head(s) \in S /\ Tail(s) \in Seq(S)
         /\ NumbersIn(s) = {Head(s).n} \cup NumbersIn(Tail(s))
         /\ Rising(s) => Rising(Tail(s)) /\ Below({Head(s).n}, NumbersIn(Tail(s)) \ {Nobody})
<1>1. /\ Len(s) \in Nat \ {0} /\ DOMAIN s = 1 .. Len(s) /\ Head(s) = s[1] /\ Head(s) \in S
      /\ Tail(s) \in Seq(S) /\ DOMAIN Tail(s) = 1 .. Len(s) - 1
      /\ \A k \in 1 .. Len(s) - 1 : Tail(s)[k] = s[k + 1]
  BY LenProperties, EmptySeq, HeadTailProperties
<1> DEFINE t == Tail(s)
           h == Head(s)
<1>2. /\ 1 \in DOMAIN s /\ s[1] = h
      /\ \A k \in DOMAIN t : k + 1 \in DOMAIN s /\ 1 < k + 1 /\ t[k] = s[k + 1]
      /\ \A k \in DOMAIN s : k = 1 \/ (k - 1 \in DOMAIN t /\ t[k - 1] = s[k])
      /\ \A j, k \in DOMAIN t : j < k => j + 1 < k + 1
  BY <1>1
<1> HIDE DEF t, h
<1>3. NumbersIn(s) = {h.n} \cup NumbersIn(t)
  BY <1>2 DEF NumbersIn
<1>4. Rising(s) => Rising(t)
  BY <1>2 DEF Rising
<1>5. Rising(s) => Below({h.n}, NumbersIn(t) \ {Nobody})
  BY <1>2 DEF Rising, Below, NumbersIn
<1> QED
  BY <1>1, <1>3, <1>4, <1>5 DEF t, h

LEMMA NumbersOne ==
  ASSUME NEW e \in All
  PROVE  NumbersIn(<<e>>) = {e.n} /\ Rising(<<e>>)
<1>1. DOMAIN <<e>> = {1} /\ <<e>>[1] = e
  OBVIOUS
<1> QED
  BY <1>1 DEF NumbersIn, Rising

LEMMA OneAtMost ==
  ASSUME NEW s, NEW e, s = <<e>> \/ s = <<>>
  PROVE  Len(s) <= 1
<1>1. Len(<<e>>) = 1 /\ Len(<<>>) = 0
  OBVIOUS
<1>2. Len(s) = 1 \/ Len(s) = 0
  BY <1>1, Zenon
<1>3. \A k : k = 1 \/ k = 0 => k <= 1
  OBVIOUS
<1> QED
  BY <1>2, <1>3, Zenon

LEMMA BelowFacts ==
  ASSUME NEW A, NEW B
  PROVE  /\ Below({}, A) /\ Below(A, {})
         /\ \A C \in SUBSET A, D \in SUBSET B : Below(A, B) => Below(C, D)
BY DEF Below

\* The types of the queues and the bound of their numbers, as the steps below need them.
LEMMA QueuesTyped ==
  ASSUME TypeOK
  PROVE  /\ command_rx \in Seq(All) /\ requests \in Seq(Requests) /\ writing \in Seq(Requests)
         /\ unsent \in Seq(Requests) /\ received \in Seq(Requests)
         /\ requests \in Seq(All) /\ writing \in Seq(All) /\ unsent \in Seq(All)
         /\ received \in Seq(All) /\ nRequests \in Nat
         /\ NumbersIn(command_rx) \subseteq Nat /\ Queued \subseteq Numbers /\ InHand \subseteq Numbers
         /\ Unsent \subseteq Numbers /\ Received \subseteq Numbers /\ Numbers \subseteq Nat
<1>1. /\ command_rx \in Seq(All) /\ requests \in Seq(Requests) /\ writing \in Seq(Requests)
      /\ unsent \in Seq(Requests) /\ received \in Seq(Requests) /\ nRequests \in Nat
      /\ Numbers \subseteq Nat
  BY ConstAssumption DEF TypeOK, All, Numbers
<1> QED
  BY <1>1, AllNumbers, NumbersTyped DEF Queued, InHand, Unsent, Received

-----------------------------------------------------------------------------
LEMMA InflightFinite ==
  ASSUME NEW S \in SUBSET Numbers
  PROVE  IsFiniteSet(S) /\ Cardinality(S) \in Nat
<1>1. IsFiniteSet(Numbers)
  BY ConstAssumption, FS_Interval DEF Numbers
<1> QED
  BY <1>1, FS_Subset, FS_CardinalityType

\* poll takes a confirmed request only while there is room among those in flight, and an
\* acknowledgement makes room.
LEMMA InflightBounded ==
  ASSUME NEW S \in SUBSET Numbers, NEW m \in Numbers, Cardinality(S) <= MaxInflight
  PROVE  /\ Cardinality(S) < MaxInflight => Cardinality(S \cup {m}) <= MaxInflight
         /\ Cardinality(S \ {m}) <= MaxInflight
<1>1. IsFiniteSet(S) /\ Cardinality(S) \in Nat
  BY InflightFinite
<1>2. /\ Cardinality(S \cup {m}) = IF m \in S THEN Cardinality(S) ELSE Cardinality(S) + 1
  BY <1>1, FS_AddElement
<1>3. Cardinality(S \ {m}) = IF m \in S THEN Cardinality(S) - 1 ELSE Cardinality(S)
  BY <1>1, FS_RemoveElement
<1> QED
  BY <1>1, <1>2, <1>3, ConstAssumption

LEMMA IInvInit == Init => IInv
<1> SUFFICES ASSUME Init PROVE IInv
  OBVIOUS
<1> USE ConstAssumption DEF Init
<1>1. TypeOK
  <2>1. /\ senders \in BOOLEAN /\ connected \in BOOLEAN /\ broker \in BOOLEAN
        /\ pc = "select" /\ link = "none" /\ event = "none" /\ told = "nothing"
    OBVIOUS
  <2>2. /\ nRequests \in 0 .. MaxRequests /\ Len(requests) <= Capacity
        /\ nMessages \in 0 .. MaxMessages /\ nDrops \in 0 .. MaxDrops
    OBVIOUS
  <2>3. /\ command_rx \in Seq(Requests \cup {Disconnect}) /\ requests \in Seq(Requests)
        /\ writing \in Seq(Requests) /\ unsent \in Seq(Requests)
        /\ received \in Seq(Requests) /\ incoming \in Seq(Packets)
        /\ accepted \subseteq Numbers /\ cut \subseteq Numbers
    BY EmptySeq
  <2>4. inflight \subseteq Numbers /\ Cardinality(inflight) <= MaxInflight
    BY FS_EmptySet
  <2> QED
    BY <2>1, <2>2, <2>3, <2>4 DEF TypeOK
<1>2. Ordered
  BY NumbersEmpty, BelowFacts DEF Ordered, RisingQueues, BelowQueues, Received, Unsent, InHand, Queued, Waiting
<1>3. Idle /\ NoSilentLoss
  BY DEF Idle, NoSilentLoss
<1> QED
  BY <1>1, <1>2, <1>3 DEF IInv

\* Every step keeps the types.
LEMMA TypeNext == IInv /\ [Next]_vars => TypeOK'
<1> SUFFICES ASSUME IInv, [Next]_vars PROVE TypeOK'
  OBVIOUS
<1>0. TypeOK /\ Len(writing) <= 1
  BY DEF IInv, Idle
<1> USE ConstAssumption DEF vars, chanVars, clientVars, histVars, userVars, brokerVars
<1>1. ASSUME NEW c \in BOOLEAN, Submit(c) PROVE TypeOK'
  <2>1. nRequests + 1 \in Numbers /\ nRequests' \in 0 .. MaxRequests
    BY <1>0, <1>1 DEF Submit, TypeOK, Numbers
  <2>2. Request(nRequests + 1, c) \in Requests
    BY <2>1 DEF Request, Requests
  <2>3. command_rx' \in Seq(Requests \cup {Disconnect})
    BY <1>0, <1>1, <2>2, AppendProperties DEF Submit, TypeOK
  <2> QED
    BY <1>0, <1>1, <2>1, <2>3 DEF Submit, TypeOK
<1>2. CASE SubmitDisconnect
  <2>1. command_rx' \in Seq(Requests \cup {Disconnect})
    BY <1>0, <1>2, AppendProperties DEF SubmitDisconnect, TypeOK
  <2> QED
    BY <1>0, <1>2, <2>1 DEF SubmitDisconnect, TypeOK
<1>3. CASE DropSenders
  BY <1>0, <1>3 DEF DropSenders, TypeOK
<1>4. CASE RecvRequest
  <2> DEFINE cmd == Head(command_rx)
  <2>1. /\ command_rx # <<>> /\ cmd # Disconnect /\ command_rx' = Tail(command_rx) /\ pc = "select"
        /\ link' = Undialed /\ writing' = <<>> /\ cut' = cut \cup NumbersIn(writing)
        /\ AwaitRoom(cmd) \/ HandOver(cmd) \/ Refuse(cmd)
        /\ UNCHANGED <<senders, connected, unsent, inflight, brokerVars>>
    BY <1>4 DEF RecvRequest
  <2>2. /\ command_rx' \in Seq(Requests \cup {Disconnect}) /\ cmd \in Requests /\ cmd.n \in Numbers
        /\ cmd.n \in Nat /\ cmd.n > 0
    <3>1. command_rx \in Seq(All) /\ cmd \in All /\ command_rx' \in Seq(All)
      BY <1>0, <2>1, QueuesTyped, HeadTailProperties
    <3>2. cmd \in Requests
      BY <2>1, <3>1, AllNumbers
    <3> QED
      BY <3>1, <3>2, AllNumbers DEF All, Numbers
  <2> HIDE DEF cmd
  <2>3. cut' \subseteq Numbers /\ writing' \in Seq(Requests)
    BY <1>0, <2>1, QueuesTyped, EmptySeq DEF TypeOK, InHand
  <2>4. link' \in {"none", "dialing", "up", "broken"}
    BY <1>0, <2>1 DEF Undialed, TypeOK
  <2>5. CASE AwaitRoom(cmd)
    BY <1>0, <2>1, <2>2, <2>3, <2>4, <2>5 DEF AwaitRoom, TypeOK
  <2>6. CASE HandOver(cmd)
    <3>1. requests' \in Seq(Requests) /\ Len(requests') = Len(requests) + 1 /\ Len(requests) \in Nat
      BY <1>0, <2>2, <2>6, AppendProperties, LenProperties DEF HandOver, TypeOK
    <3>2. Len(requests') <= Capacity
      BY <1>0, <2>6, <3>1 DEF HandOver, HasRoom, TypeOK
    <3>3. accepted' \subseteq Numbers
      BY <1>0, <2>2, <2>6 DEF HandOver, TypeOK
    <3> QED
      BY <1>0, <2>1, <2>2, <2>3, <2>4, <2>6, <3>1, <3>2, <3>3 DEF HandOver, TypeOK
  <2>7. CASE Refuse(cmd)
    <3>1. nRequests' \in 0 .. MaxRequests
      BY <1>0, <2>2, <2>7 DEF Refuse, TypeOK
    <3>2. event' \in Events \cup {"none"}
      BY <2>7 DEF Refuse, Events
    <3> QED
      BY <1>0, <2>1, <2>2, <2>3, <2>4, <2>7, <3>1, <3>2 DEF Refuse, TypeOK
  <2> QED
    BY <2>1, <2>5, <2>6, <2>7
<1>5. CASE RecvDisconnect \/ RecvClosed
  <2>1. /\ command_rx' = <<>> /\ requests' = <<>> /\ writing' = <<>> /\ unsent' = <<>>
        /\ incoming' = <<>> /\ inflight' = {}
        /\ pc' = "stopped" /\ link' = "none" /\ connected' = FALSE
        /\ UNCHANGED <<senders, nRequests, userVars, histVars, broker, received, nMessages, nDrops>>
    BY <1>5 DEF RecvDisconnect, RecvClosed, Leave
  <2>2. /\ requests' \in Seq(Requests) /\ Len(requests') <= Capacity
        /\ writing' \in Seq(Requests) /\ unsent' \in Seq(Requests)
        /\ incoming' \in Seq(Packets) /\ command_rx' \in Seq(Requests \cup {Disconnect})
    BY <2>1, EmptySeq
  <2>3. inflight' \subseteq Numbers /\ Cardinality(inflight') <= MaxInflight
    BY <2>1, FS_EmptySet
  <2> QED
    BY <1>0, <2>1, <2>2, <2>3 DEF TypeOK
<1>6. CASE PollDial \/ PollConnAck
  BY <1>0, <1>6 DEF PollDial, PollConnAck, TypeOK, Events
<1>7. CASE PollIncoming
  <2>1. incoming \in Seq(Packets) /\ incoming # <<>> /\ incoming' = Tail(incoming)
    BY <1>0, <1>7 DEF PollIncoming, TypeOK
  <2>2. incoming' \in Seq(Packets) /\ Head(incoming) \in Packets
    BY <2>1, HeadTailProperties
  <2>3. inflight' \subseteq Numbers /\ Cardinality(inflight') <= MaxInflight
    <3>1. Head(incoming).type = "PubAck" => Head(incoming).n \in Numbers
      BY <2>2 DEF Packets
    <3> QED
      BY <1>0, <1>7, <3>1, InflightBounded DEF PollIncoming, TypeOK
  <2>4. /\ connected' \in BOOLEAN /\ event' \in Events \cup {"none"}
        /\ told' \in {"nothing", "Connected", "Disconnected", "Error"}
        /\ UNCHANGED <<chanVars, pc, link, requests, writing, unsent, histVars, broker, received, nMessages, nDrops>>
    BY <1>0, <1>7 DEF PollIncoming, Events, TypeOK
  <2> QED
    BY <1>0, <2>2, <2>3, <2>4 DEF TypeOK
<1>8. CASE PollTake
  <2>1. Head(requests) \in Requests /\ requests' \in Seq(Requests) /\ Len(requests') <= Capacity
    BY <1>0, <1>8, HeadTailProperties, LenProperties DEF PollTake, Untaken, TypeOK
  <2>2. writing' \in Seq(Requests)
    BY <1>8, <2>1 DEF PollTake
  <2>3. inflight' \subseteq Numbers /\ Cardinality(inflight') <= MaxInflight
    BY <1>0, <1>8, <2>1, InflightBounded, AllNumbers DEF PollTake, MayTake, TypeOK
  <2>4. UNCHANGED <<chanVars, pc, connected, link, unsent, userVars, histVars, brokerVars>>
    BY <1>8 DEF PollTake
  <2> QED
    BY <1>0, <2>1, <2>2, <2>3, <2>4 DEF TypeOK
<1>9. CASE PollWrite
  <2>1. writing' \in Seq(Requests) /\ unsent' \in Seq(Requests)
    BY <1>0, <1>9, HeadTailProperties, AppendProperties, EmptySeq DEF PollWrite, TypeOK
  <2> QED
    BY <1>0, <1>9, <2>1 DEF PollWrite, TypeOK
<1>10. CASE PollFlush
  <2>1. unsent' \in Seq(Requests) /\ received' \in Seq(Requests)
    BY <1>0, <1>10, HeadTailProperties, AppendProperties DEF PollFlush, TypeOK
  <2> QED
    BY <1>0, <1>10, <2>1 DEF PollFlush, TypeOK
<1>11. CASE PollErr
  <2>1. /\ requests' = <<>> /\ writing' = <<>> /\ unsent' = <<>> /\ incoming' = <<>> /\ inflight' = {}
        /\ accepted' = {} /\ cut' = {}
        /\ pc' = "delay" /\ link' = "none" /\ connected' = FALSE /\ event' = "Error"
        /\ told' \in {told, "Error"}
        /\ UNCHANGED <<chanVars, broker, received, nMessages>>
    BY <1>11 DEF PollErr, PollFails, Leave
  <2>2. nDrops' \in 0 .. MaxDrops
    BY <1>0, <1>11 DEF PollErr, PollFails, TypeOK
  <2>3. /\ requests' \in Seq(Requests) /\ Len(requests') <= Capacity
        /\ writing' \in Seq(Requests) /\ unsent' \in Seq(Requests)
        /\ incoming' \in Seq(Packets) /\ accepted' \subseteq Numbers /\ cut' \subseteq Numbers
    BY <2>1, EmptySeq
  <2>4. inflight' \subseteq Numbers /\ Cardinality(inflight') <= MaxInflight
    BY <2>1, FS_EmptySet
  <2> QED
    BY <1>0, <2>1, <2>2, <2>3, <2>4 DEF TypeOK, Events
<1>12. CASE Reconnect
  BY <1>0, <1>12 DEF Reconnect, TypeOK
<1>13. CASE BrokerSends
  <2>1. Packet("Publish", Nobody) \in Packets
    BY DEF Packet, Packets
  <2>2. incoming' \in Seq(Packets)
    BY <1>0, <1>13, <2>1, AppendProperties DEF BrokerSends, TypeOK
  <2> QED
    BY <1>0, <1>13, <2>2 DEF BrokerSends, TypeOK
<1>14. ASSUME NEW n \in Numbers, BrokerAcks(n) PROVE TypeOK'
  <2>1. Packet("PubAck", n) \in Packets
    BY DEF Packet, Packets
  <2>2. incoming' \in Seq(Packets)
    BY <1>0, <1>14, <2>1, AppendProperties DEF BrokerAcks, TypeOK
  <2> QED
    BY <1>0, <1>14, <2>2 DEF BrokerAcks, TypeOK
<1>15. ASSUME NEW p \in BOOLEAN, BrokerDrops(p) PROVE TypeOK'
  <2>1. Packet("Disconnect", Nobody) \in Packets
    BY DEF Packet, Packets
  <2>2. incoming' \in Seq(Packets)
    BY <1>0, <1>15, <2>1, AppendProperties DEF BrokerDrops, TypeOK
  <2>3. nDrops' \in 0 .. MaxDrops
    BY <1>0, <1>15 DEF BrokerDrops, TypeOK
  <2> QED
    BY <1>0, <1>15, <2>2, <2>3 DEF BrokerDrops, TypeOK
<1>16. CASE BrokerReturns
  BY <1>0, <1>16 DEF BrokerReturns, TypeOK
<1>17. CASE UNCHANGED vars
  BY <1>0, <1>17 DEF TypeOK
<1> QED
  BY <1>1, <1>2, <1>3, <1>4, <1>5, <1>6, <1>7, <1>8, <1>9, <1>10, <1>11, <1>12, <1>13, <1>14, <1>15, <1>16, <1>17
     DEF Next, Users, Commands, Poll, Broker

\* A client without a link holds nothing, and poll has one request in hand at most, after
\* every step too.
LEMMA IdleNext == IInv /\ [Next]_vars => Idle'
<1> SUFFICES ASSUME IInv, [Next]_vars PROVE Idle'
  OBVIOUS
<1>0. Len(<<>>) = 0
  OBVIOUS
<1> USE <1>0 DEF IInv, Idle, vars, chanVars, clientVars, histVars, userVars, brokerVars
<1>1. CASE Users
  BY <1>1 DEF Users, Submit, SubmitDisconnect, DropSenders
<1>2. CASE RecvRequest
  BY <1>2 DEF RecvRequest, AwaitRoom, HandOver, Refuse, Undialed
<1>3. CASE RecvDisconnect \/ RecvClosed
  BY <1>3 DEF RecvDisconnect, RecvClosed, Leave
<1>4. CASE PollDial \/ PollConnAck
  BY <1>4 DEF PollDial, PollConnAck
<1>5. CASE PollIncoming \/ PollFlush
  BY <1>5 DEF PollIncoming, PollFlush, Reading
<1>6. CASE PollTake \/ PollWrite
  <2>1. link \in {"up", "broken"}
    BY <1>6 DEF PollTake, PollWrite, Reading, TypeOK
  <2>2. UNCHANGED <<link, pc, accepted, told, connected>>
    BY <1>6 DEF PollTake, PollWrite
  <2>3. writing' = <<Head(requests)>> \/ writing' = <<>>
    BY <1>6 DEF PollTake, PollWrite
  <2>5. Len(writing') <= 1
    BY <2>3, OneAtMost
  <2> QED
    BY <2>1, <2>2, <2>5
<1>7. CASE PollErr
  BY <1>7 DEF PollErr, PollFails, Leave
<1>8. CASE Reconnect
  BY <1>8 DEF Reconnect
<1>9. CASE Broker
  BY <1>9 DEF Broker, BrokerSends, BrokerAcks, BrokerDrops, BrokerReturns
<1>10. CASE UNCHANGED vars
  BY <1>10
<1> QED
  BY <1>1, <1>2, <1>3, <1>4, <1>5, <1>6, <1>7, <1>8, <1>9, <1>10 DEF Next, Commands, Poll

\* Submit, RecvRequest and the steps of poll apart, a step leaves a queue as it is or
\* empties it.
LEMMA QueuesUntouched ==
  ASSUME IInv, [Next]_vars, ~RecvRequest, ~(\E c \in BOOLEAN : Submit(c)), ~SubmitDisconnect,
         ~PollTake, ~PollWrite, ~PollFlush
  PROVE  /\ nRequests' = nRequests /\ received' = received
         /\ requests' \in {requests, <<>>} /\ command_rx' \in {command_rx, <<>>}
         /\ writing' \in {writing, <<>>} /\ unsent' \in {unsent, <<>>}
BY DEF Next, Users, Commands, Poll, Broker, DropSenders, RecvDisconnect, RecvClosed, Leave, PollDial,
   PollConnAck, PollIncoming, PollErr, PollFails, Reconnect, BrokerSends, BrokerAcks, BrokerDrops,
   BrokerReturns, vars, chanVars, clientVars, histVars, userVars, brokerVars

\* Every step keeps the numbers rising along the way of a request: it appends the highest
\* number of all, moves the first of one queue to the end of the next one, or empties
\* queues.
LEMMA OrderedNext == IInv /\ [Next]_vars => Ordered'
<1> SUFFICES ASSUME IInv, [Next]_vars PROVE Ordered'
  OBVIOUS
<1>0. TypeOK /\ RisingQueues /\ BelowQueues
  BY DEF IInv, Ordered
<1> DEFINE W == NumbersIn(command_rx)
<1>1. /\ command_rx \in Seq(All) /\ requests \in Seq(Requests) /\ writing \in Seq(Requests)
      /\ unsent \in Seq(Requests) /\ received \in Seq(Requests)
      /\ requests \in Seq(All) /\ writing \in Seq(All) /\ unsent \in Seq(All)
      /\ received \in Seq(All) /\ nRequests \in Nat
      /\ W \subseteq Nat /\ Queued \subseteq Nat /\ InHand \subseteq Nat
      /\ Unsent \subseteq Nat /\ Received \subseteq Nat
      /\ Requests \subseteq All /\ Requests \in SUBSET All /\ All \in SUBSET All
      /\ Nobody = 0
  BY <1>0, QueuesTyped, AllNumbers DEF Nobody
<1>2. ASSUME NEW c \in BOOLEAN, Submit(c) PROVE Ordered'
  <2> DEFINE r == Request(nRequests + 1, c)
  <2>1. nRequests + 1 \in Numbers
    BY <1>0, <1>2, ConstAssumption DEF Submit, Numbers, TypeOK
  <2>2. r \in Requests /\ r.n = nRequests + 1
    BY <1>2, <2>1 DEF Request, Requests
  <2>3. /\ nRequests' = nRequests + 1 /\ command_rx' = Append(command_rx, r)
        /\ UNCHANGED <<requests, writing, unsent, received>>
    BY <1>2 DEF Submit, clientVars, brokerVars
  <2> HIDE DEF r
  <2>4. Below(W, {r.n})
    BY <1>0, <1>1, <2>2 DEF BelowQueues, Waiting, Below
  <2>5. Rising(command_rx') /\ W' = W \cup {nRequests + 1}
    BY <1>0, <1>1, <2>2, <2>3, <2>4, NumbersAppend DEF RisingQueues
  <2>6. RisingQueues'
    BY <1>0, <2>3, <2>5 DEF RisingQueues
  <2>7. /\ Queued' = Queued /\ InHand' = InHand /\ Unsent' = Unsent /\ Received' = Received
        /\ Waiting' = Waiting \cup {nRequests + 1}
    BY <1>1, <2>3, <2>5 DEF Queued, InHand, Unsent, Received, Waiting
  <2>8. BelowQueues'
    <3> HIDE DEF W
    <3> QED
      BY <1>0, <1>1, <2>3, <2>7 DEF BelowQueues, Below
  <2> QED
    BY <2>6, <2>8 DEF Ordered
<1>3. CASE SubmitDisconnect
  <2>1. command_rx' = Append(command_rx, Disconnect)
        /\ UNCHANGED <<nRequests, requests, writing, unsent, received>>
    BY <1>3 DEF SubmitDisconnect, clientVars, brokerVars
  <2>2. Disconnect \in All /\ Disconnect.n = Nobody
    BY DEF All, Disconnect
  <2>3. Rising(command_rx') /\ W' = W \cup {Nobody}
    BY <1>0, <1>1, <2>1, <2>2, NumbersAppend DEF RisingQueues
  <2>4. RisingQueues'
    BY <1>0, <2>1, <2>3 DEF RisingQueues
  <2>5. /\ Queued' = Queued /\ InHand' = InHand /\ Unsent' = Unsent /\ Received' = Received
        /\ Waiting' = Waiting
    BY <2>1, <2>3 DEF Queued, InHand, Unsent, Received, Waiting
  <2>6. BelowQueues'
    BY <1>0, <2>1, <2>5 DEF BelowQueues
  <2> QED
    BY <2>4, <2>6 DEF Ordered
<1>4. CASE RecvRequest
  <2> DEFINE cmd == Head(command_rx)
             T == NumbersIn(Tail(command_rx))
  <2>1. /\ command_rx # <<>> /\ cmd # Disconnect /\ command_rx' = Tail(command_rx)
        /\ writing' = <<>> /\ UNCHANGED <<unsent, received>>
        /\ \/ requests' = requests /\ nRequests' = nRequests
           \/ requests' = Append(requests, cmd) /\ nRequests' = nRequests
           \/ requests' = requests /\ cmd.n = nRequests /\ nRequests' = nRequests - 1
    BY <1>4 DEF RecvRequest, AwaitRoom, HandOver, Refuse, brokerVars
  <2>2. /\ cmd \in All /\ W = {cmd.n} \cup T
        /\ Rising(Tail(command_rx)) /\ Below({cmd.n}, T \ {Nobody})
    BY <1>0, <1>1, <2>1, NumbersTail DEF RisingQueues
  <2> HIDE DEF cmd, T
  <2>3. cmd \in Requests /\ cmd.n \in Nat /\ cmd.n # Nobody
    BY <2>1, <2>2, AllNumbers
  <2>4. /\ InHand' = {} /\ Rising(writing') /\ Unsent' = Unsent /\ Received' = Received
        /\ Waiting' = T \ {Nobody} /\ Waiting = {cmd.n} \cup Waiting'
    BY <2>1, <2>2, <2>3, NumbersEmpty DEF InHand, Unsent, Received, Waiting, T
  <2>5. /\ NumbersIn(Append(requests, cmd)) = Queued \cup {cmd.n}
        /\ Rising(Append(requests, cmd))
    <3>1. Below(Queued, {cmd.n})
      BY <1>0, <2>4 DEF BelowQueues, Below
    <3> QED
      BY <1>0, <1>1, <2>3, <3>1, NumbersAppend DEF RisingQueues, Queued
  <2>6. Rising(requests') /\ Queued' \subseteq Queued \cup {cmd.n}
    BY <1>0, <2>1, <2>5 DEF RisingQueues, Queued
  <2>7. RisingQueues'
    BY <1>0, <2>1, <2>2, <2>4, <2>6 DEF RisingQueues
  <2>8. /\ Waiting \subseteq Nat /\ Below({cmd.n}, Waiting')
        /\ \A m \in Waiting' : m \in Nat /\ cmd.n < m /\ m <= nRequests
        /\ cmd.n <= nRequests
    BY <1>0, <1>1, <2>2, <2>4 DEF Waiting, BelowQueues, Below
  <2>9. /\ Below(Received', Unsent') /\ Below(Received', Queued') /\ Below(Received', Waiting')
        /\ Below(Unsent', Queued') /\ Below(Unsent', Waiting') /\ Below(Queued', Waiting')
        /\ Below(Received', InHand') /\ Below(Unsent', InHand') /\ Below(InHand', Queued')
        /\ Below(InHand', Waiting')
    BY <1>0, <2>4, <2>6, <2>8 DEF BelowQueues, Below
  <2>10. CASE nRequests' = nRequests
    <3>1. \A m \in Received' \cup Unsent' \cup InHand' \cup Queued' \cup Waiting' : m <= nRequests'
      BY <1>0, <2>4, <2>6, <2>8, <2>10 DEF BelowQueues
    <3> QED
      BY <2>7, <2>9, <3>1 DEF BelowQueues, Ordered
  <2>11. CASE requests' = requests /\ cmd.n = nRequests /\ nRequests' = nRequests - 1
    <3>1. Queued' = Queued
      BY <2>11 DEF Queued
    <3>2. \A m \in Waiting' : FALSE
      BY <1>1, <2>3, <2>8, <2>11
    <3>3. \A m \in Received \cup Unsent \cup Queued : m \in Nat /\ m < cmd.n
      BY <1>0, <1>1, <2>4 DEF BelowQueues, Below
    <3>4. \A m \in Received \cup Unsent \cup Queued : m <= nRequests'
      BY <1>1, <2>11, <3>3
    <3>5. \A m \in Received' \cup Unsent' \cup InHand' \cup Queued' \cup Waiting' : m <= nRequests'
      BY <2>4, <3>1, <3>2, <3>4
    <3> QED
      BY <2>7, <2>9, <3>5 DEF BelowQueues, Ordered
  <2>12. nRequests' = nRequests \/ (requests' = requests /\ cmd.n = nRequests /\ nRequests' = nRequests - 1)
    BY <2>1
  <2> QED
    BY <2>7, <2>10, <2>11, <2>12 DEF Ordered
<1>5. CASE PollTake
  <2> DEFINE r == Head(requests)
             T == NumbersIn(Tail(requests))
  <2>1. /\ requests # <<>> /\ requests' = Tail(requests) /\ writing = <<>> /\ writing' = <<r>>
        /\ UNCHANGED <<nRequests, command_rx, unsent, received>>
    BY <1>5 DEF PollTake, Reading, Untaken, chanVars, brokerVars
  <2>2. r \in Requests /\ Queued = {r.n} \cup T /\ Rising(Tail(requests)) /\ Below({r.n}, T \ {Nobody})
    BY <1>0, <1>1, <2>1, NumbersTail DEF RisingQueues, Queued
  <2>3. Tail(requests) \in Seq(Requests) /\ Nobody \notin T
    BY <1>1, <2>1, NumbersTail, NumbersTyped
  <2> HIDE DEF r, T
  <2>4. InHand' = {r.n} /\ Rising(writing')
    BY <1>1, <2>1, <2>2, NumbersOne DEF InHand
  <2>5. /\ Queued' = T /\ Unsent' = Unsent /\ Received' = Received /\ Waiting' = Waiting
        /\ Below({r.n}, T)
    BY <2>1, <2>2, <2>3 DEF Queued, Unsent, Received, Waiting, T, Below
  <2>6. RisingQueues'
    BY <1>0, <2>1, <2>2, <2>4 DEF RisingQueues
  <2>7. BelowQueues'
    BY <1>0, <2>1, <2>2, <2>4, <2>5 DEF BelowQueues, Below
  <2> QED
    BY <2>6, <2>7 DEF Ordered
<1>6. CASE PollWrite
  <2> DEFINE r == Head(writing)
  <2>1. /\ writing # <<>> /\ writing' = <<>> /\ unsent' = Append(unsent, r)
        /\ UNCHANGED <<nRequests, command_rx, requests, received>>
    BY <1>6 DEF PollWrite, chanVars, brokerVars
  <2>2. r \in Requests /\ r.n \in InHand
    <3>1. r \in Requests /\ NumbersIn(writing) = {r.n} \cup NumbersIn(Tail(writing))
      BY <1>1, <2>1, NumbersTail
    <3> QED
      BY <3>1 DEF InHand
  <2> HIDE DEF r
  <2>3. Below(Unsent, {r.n})
    BY <1>0, <2>2 DEF BelowQueues, Below
  <2>4. Rising(unsent') /\ Unsent' = Unsent \cup {r.n}
    BY <1>0, <1>1, <2>1, <2>2, <2>3, NumbersAppend DEF RisingQueues, Unsent
  <2>5. /\ InHand' = {} /\ Rising(writing')
        /\ Queued' = Queued /\ Received' = Received /\ Waiting' = Waiting
    BY <2>1, NumbersEmpty DEF InHand, Queued, Received, Waiting
  <2>6. RisingQueues'
    BY <1>0, <2>1, <2>4, <2>5 DEF RisingQueues
  <2>7. BelowQueues'
    BY <1>0, <2>1, <2>2, <2>4, <2>5 DEF BelowQueues, Below
  <2> QED
    BY <2>6, <2>7 DEF Ordered
<1>7. CASE PollFlush
  <2> DEFINE r == Head(unsent)
             T == NumbersIn(Tail(unsent))
  <2>1. /\ unsent # <<>> /\ unsent' = Tail(unsent)
        /\ received' = received \/ received' = Append(received, r)
        /\ UNCHANGED <<nRequests, command_rx, requests, writing>>
    BY <1>7 DEF PollFlush, chanVars
  <2>2. r \in Requests /\ Unsent = {r.n} \cup T /\ Rising(Tail(unsent)) /\ Below({r.n}, T \ {Nobody})
    BY <1>0, <1>1, <2>1, NumbersTail DEF RisingQueues, Unsent
  <2>3. Tail(unsent) \in Seq(Requests) /\ Nobody \notin T
    BY <1>1, <2>1, NumbersTail, NumbersTyped
  <2> HIDE DEF r, T
  <2>4. Below(Received, {r.n})
    BY <1>0, <2>2 DEF BelowQueues, Below
  <2>5. NumbersIn(Append(received, r)) = Received \cup {r.n} /\ Rising(Append(received, r))
    BY <1>0, <1>1, <2>2, <2>4, NumbersAppend DEF RisingQueues, Received
  <2>6. Rising(received') /\ Received' \subseteq Received \cup {r.n}
    BY <1>0, <2>1, <2>5 DEF RisingQueues, Received
  <2>7. /\ Unsent' = T /\ InHand' = InHand /\ Queued' = Queued /\ Waiting' = Waiting
        /\ Below({r.n}, T)
    BY <2>1, <2>2, <2>3 DEF Unsent, InHand, Queued, Waiting, T, Below
  <2>8. RisingQueues'
    BY <1>0, <2>1, <2>2, <2>6 DEF RisingQueues
  <2>9. BelowQueues'
    BY <1>0, <2>1, <2>2, <2>6, <2>7 DEF BelowQueues, Below
  <2> QED
    BY <2>8, <2>9 DEF Ordered
<1>8. CASE /\ ~RecvRequest /\ ~(\E c \in BOOLEAN : Submit(c)) /\ ~SubmitDisconnect
           /\ ~PollTake /\ ~PollWrite /\ ~PollFlush
  <2>1. /\ nRequests' = nRequests /\ received' = received
        /\ requests' \in {requests, <<>>} /\ command_rx' \in {command_rx, <<>>}
        /\ writing' \in {writing, <<>>} /\ unsent' \in {unsent, <<>>}
    BY <1>8, QueuesUntouched
  <2>2. RisingQueues'
    BY <1>0, <2>1, NumbersEmpty DEF RisingQueues
  <2>3. /\ Received' = Received /\ Queued' \subseteq Queued /\ Waiting' \subseteq Waiting
        /\ InHand' \subseteq InHand /\ Unsent' \subseteq Unsent
    BY <2>1, NumbersEmpty DEF Received, Queued, Waiting, InHand, Unsent
  <2>4. BelowQueues'
    BY <1>0, <2>1, <2>3 DEF BelowQueues, Below
  <2> QED
    BY <2>2, <2>4 DEF Ordered
<1> QED
  BY <1>2, <1>3, <1>4, <1>5, <1>6, <1>7, <1>8

\* What a client has taken moves from its channel through poll's hand and the buffer to
\* the broker, unless a command cuts it or the link is broken; a connection is left with
\* an error or for good.
LEMMA NoSilentLossNext == IInv /\ [Next]_vars => NoSilentLoss'
<1> SUFFICES ASSUME IInv, [Next]_vars, pc' # "stopped", link' # "broken", NEW n \in accepted'
             PROVE  n \in Queued' \cup InHand' \cup Unsent' \cup Received' \cup cut'
  BY DEF NoSilentLoss, Queued, InHand, Unsent, Received
<1>1. /\ command_rx \in Seq(All) /\ requests \in Seq(Requests) /\ writing \in Seq(Requests)
      /\ unsent \in Seq(Requests) /\ received \in Seq(Requests)
      /\ requests \in Seq(All) /\ writing \in Seq(All) /\ unsent \in Seq(All)
      /\ received \in Seq(All) /\ Requests \in SUBSET All /\ All \in SUBSET All
      /\ Len(writing) <= 1 /\ Idle
      /\ pc # "stopped" /\ link # "broken" =>
           accepted \subseteq Queued \cup InHand \cup Unsent \cup Received \cup cut
  BY QueuesTyped, AllNumbers DEF IInv, Idle, NoSilentLoss, Queued, InHand, Unsent, Received
<1>2. CASE RecvRequest
  <2> DEFINE cmd == Head(command_rx)
  <2>1. /\ pc = "select" /\ link # "broken" /\ command_rx # <<>>
        /\ cut' = cut \cup InHand /\ UNCHANGED <<unsent, received>>
        /\ \/ requests' = requests /\ accepted' = accepted
           \/ requests' = Append(requests, cmd) /\ accepted' = accepted \cup {cmd.n}
    BY <1>2 DEF RecvRequest, AwaitRoom, HandOver, Refuse, Undialed, brokerVars, InHand
  <2>2. cmd \in All
    BY <1>1, <2>1, HeadTailProperties
  <2> HIDE DEF cmd
  <2>3. NumbersIn(Append(requests, cmd)) = Queued \cup {cmd.n}
    BY <1>1, <2>2, NumbersAppend DEF Queued
  <2> QED
    BY <1>1, <2>1, <2>3 DEF Queued, Unsent, Received
<1>3. CASE PollTake
  <2>1. /\ pc = "select" /\ link # "broken" /\ requests # <<>> /\ writing = <<>>
        /\ requests' = Tail(requests) /\ writing' = <<Head(requests)>>
        /\ UNCHANGED <<unsent, received, accepted, cut>>
    BY <1>3 DEF PollTake, Reading, Untaken, histVars, brokerVars
  <2>2. Head(requests) \in All /\ Queued = {Head(requests).n} \cup Queued'
    BY <1>1, <2>1, NumbersTail DEF Queued
  <2>3. InHand' = {Head(requests).n} /\ InHand = {}
    BY <2>1, <2>2, NumbersOne, NumbersEmpty DEF InHand
  <2> QED
    BY <1>1, <2>1, <2>2, <2>3 DEF Unsent, Received
<1>4. CASE PollWrite
  <2>1. /\ pc = "select" /\ link # "broken" /\ writing # <<>> /\ unsent' = Append(unsent, Head(writing))
        /\ UNCHANGED <<requests, received, accepted, cut>>
    BY <1>4 DEF PollWrite, histVars, brokerVars
  <2>2. InHand = {Head(writing).n} /\ Head(writing) \in All
    <3>0. Len(writing) \in Nat /\ Len(writing) # 0 /\ DOMAIN writing = 1 .. Len(writing)
      BY <1>1, <2>1, LenProperties, EmptySeq
    <3>1. /\ Len(writing) = 1 /\ DOMAIN writing = 1 .. Len(writing) /\ Head(writing) = writing[1]
          /\ Head(writing) \in Requests
      BY <1>1, <2>1, <3>0, HeadTailProperties
    <3>2. DOMAIN writing = {1}
      BY <3>1
    <3> QED
      BY <1>1, <3>1, <3>2 DEF InHand, NumbersIn
  <2>3. Unsent' = Unsent \cup InHand
    BY <1>1, <2>1, <2>2, NumbersAppend DEF Unsent
  <2> QED
    BY <1>1, <2>1, <2>3 DEF Queued, Received
<1>5. CASE PollFlush
  <2>1. /\ pc = "select" /\ link = "up" /\ unsent # <<>> /\ unsent' = Tail(unsent)
        /\ received' = Append(received, Head(unsent))
        /\ UNCHANGED <<requests, writing, accepted, cut>>
    BY <1>5 DEF PollFlush, Reading, histVars
  <2>2. Head(unsent) \in All /\ Unsent = {Head(unsent).n} \cup Unsent'
    BY <1>1, <2>1, NumbersTail DEF Unsent
  <2>3. Received' = Received \cup {Head(unsent).n}
    BY <1>1, <2>1, <2>2, NumbersAppend DEF Received
  <2> QED
    BY <1>1, <2>1, <2>2, <2>3 DEF Queued, InHand
<1>6. CASE ~RecvRequest /\ ~PollTake /\ ~PollWrite /\ ~PollFlush
  <2>1. CASE PollErr
    BY <2>1 DEF PollErr
  <2>2. CASE ~PollErr
    <3>1. /\ UNCHANGED <<accepted, cut, requests, writing, unsent, received>>
          /\ pc # "stopped" /\ link # "broken"
      BY <1>6, <2>2 DEF Next, Users, Commands, Poll, Broker, Submit, SubmitDisconnect, DropSenders,
         RecvDisconnect, RecvClosed, Leave, PollDial, PollConnAck, PollIncoming, Reading, Reconnect, BrokerSends,
         BrokerAcks, BrokerDrops, BrokerReturns, vars, chanVars, clientVars, histVars, userVars, brokerVars
    <3> QED
      BY <1>1, <3>1 DEF Queued, InHand, Unsent, Received
  <2> QED
    BY <2>1, <2>2
<1> QED
  BY <1>2, <1>3, <1>4, <1>5, <1>6

LEMMA IInvAlways == Spec => []IInv
<1>1. IInv /\ [Next]_vars => IInv'
  BY TypeNext, OrderedNext, IdleNext, NoSilentLossNext DEF IInv
<1> QED
  BY IInvInit, <1>1, PTL DEF Spec

-----------------------------------------------------------------------------
\* The variables have their types: the request channel never holds more than its capacity,
\* and no more confirmed requests are in flight than rumqttc allows.
THEOREM TaskTyped == Spec => []TypeOK
BY IInvAlways, PTL DEF IInv

\* The broker receives requests at most once and in the order they were submitted,
\* however often the task reconnects.
THEOREM ReceivedInOrder == Spec => []AtMostOnceInOrder
<1>1. IInv => AtMostOnceInOrder
  <2> SUFFICES ASSUME IInv, NEW i \in DOMAIN received, NEW j \in DOMAIN received, i < j
               PROVE  received[i].n < received[j].n
    BY DEF AtMostOnceInOrder
  <2>1. received[j].n \in Received /\ Received \subseteq Numbers /\ Rising(received)
    BY QueuesTyped DEF IInv, Ordered, RisingQueues, Received, NumbersIn
  <2>2. received[j].n # Nobody
    BY <2>1, ConstAssumption DEF Numbers, Nobody
  <2> QED
    BY <2>1, <2>2 DEF Rising
<1> QED
  BY <1>1, IInvAlways, PTL

\* A request is handed only to a client whose link the broker has accepted.
THEOREM NothingQueuedEarly == Spec => []NothingQueuedBeforeConnAck
<1>1. IInv => NothingQueuedBeforeConnAck
  BY DEF IInv, Idle, NothingQueuedBeforeConnAck
<1> QED
  BY <1>1, IInvAlways, PTL

\* No request handed to the client is lost in silence, whenever poll is dropped and
\* however the link ends: it is held or received, or an error tells of it, but for the
\* one that a command cut in poll's hand.
THEOREM LossIsNeverSilent == Spec => []NoSilentLoss
BY IInvAlways, PTL DEF IInv

\* The link is announced once: before it comes up again the user has been told of an
\* error or that it was gone.
THEOREM LinkAnnouncedOnce == Spec => ConnectedOnce
<1>1. IInv /\ [Next]_vars => [link # "up" /\ link' = "up" => told # "Connected"]_vars
  <2> SUFFICES ASSUME IInv, [Next]_vars, link # "up", link' = "up"
               PROVE  told # "Connected"
    OBVIOUS
  <2>1. pc = "select" /\ link = "dialing"
    BY DEF Next, Users, Commands, Poll, Broker, Submit, SubmitDisconnect, DropSenders, RecvRequest,
       Undialed, RecvDisconnect, RecvClosed, Leave, PollDial, PollConnAck, PollIncoming, PollTake,
       PollWrite, PollFlush, PollErr, PollFails, Reconnect, BrokerSends, BrokerAcks, BrokerDrops,
       BrokerReturns, vars, chanVars, clientVars, histVars, userVars, brokerVars
  <2> QED
    BY <2>1 DEF IInv, Idle
<1> QED
  BY <1>1, IInvAlways, PTL DEF Spec, ConnectedOnce
=============================================================================
