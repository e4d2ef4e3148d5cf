------------------------ MODULE RabbitConsumerProofs ------------------------
(***************************************************************************)
(* Proofs about RabbitConsumer, for every number of connections, failures  *)
(* and handlers.                                                           *)
(***************************************************************************)
EXTENDS RabbitConsumer, TLAPS

USE DEF Conn, NoConn, Ref, Handler, Stage

(* Before start() there is nothing for stop() to wait for, so that it is   *)
(* over at once, and no start() comes between its steps.                   *)
BeforeStart ==
    Unstarted => /\ ~connected /\ channel = NoConn /\ inFlight = {}
                 /\ stopPhase \in {"none", "done"}

StopIsUnderWay == stopPhase \in {"cancelling", "draining"} => stopped

(* What the safety of the connected flag and of the timer rests on. *)
ConsumerInv ==
    /\ TypeOK
    /\ ConnectedIsOpen
    /\ NoReconnectAfterStop
    /\ BeforeStart
    /\ StopIsUnderWay

(* connect() numbers its calls from 1, and NoConn is none of them. *)
LEMMA FirstConn == 1 \in Conn /\ NoConn \notin Conn
  BY BoundsAssumption

LEMMA ConsumerInit == Init => ConsumerInv /\ DrainInv
<1> SUFFICES ASSUME Init PROVE ConsumerInv /\ DrainInv
  OBVIOUS
<1>1. ConsumerInv
  BY DEF Init, ConsumerInv, TypeOK, ConnectedIsOpen, NoReconnectAfterStop, BeforeStart,
         StopIsUnderWay
<1>2. DrainInv
  BY FirstConn DEF Init, DrainInv
<1> QED BY <1>1, <1>2

(* Once stopped with no timer set, scheduleReconnect() sets none. *)
LEMMA SchedulePart ==
    ASSUME TypeOK, ScheduleReconnect
    PROVE  timer' \in BOOLEAN /\ (stopped /\ ~timer => ~timer')
<1>1. timer \in BOOLEAN /\ stopped \in BOOLEAN /\ timer' = (timer \/ ~stopped)
  BY DEF TypeOK, ScheduleReconnect
<1>2. (timer \/ ~stopped) \in BOOLEAN
  BY <1>1, Zenon
<1>3. timer' \in BOOLEAN
  BY <1>1, <1>2, Zenon
<1>4. stopped /\ ~timer => ~timer'
  BY <1>1, Zenon
<1> QED BY <1>3, <1>4

(* A connect() call that got anywhere means that start() was called. *)
LEMMA StagePart ==
    ASSUME NEW c \in Conn, NEW s \in Stage \ {"unused"}, TypeOK, SetStage(c, s)
    PROVE  stage' \in [Conn -> Stage] /\ ~Unstarted'
<1>1. stage' \in [Conn -> Stage] /\ stage'[c] = s
  BY DEF SetStage, TypeOK
<1> QED BY <1>1 DEF Unstarted

-----------------------------------------------------------------------------
(* What the parts of stop() do                                             *)

(* Closing keeps the types; the connected flag can only be lowered.        *)
LEMMA ClosePart ==
    ASSUME NEW c, NEW up \in BOOLEAN, NEW reached,
           reached \in [Conn -> Stage],
           TypeOK, CloseConnection(c, reached, up)
    PROVE  /\ stage' \in [Conn -> Stage]
           /\ open' \subseteq Conn
           /\ channel' = NoConn
           /\ connected' \in BOOLEAN /\ (connected' => up)
           /\ awaited' \subseteq Handler
           /\ stopPhase' = "done"
           /\ Unstarted' => \A d \in Conn : reached[d] = "unused"
<1>1. Unstarted' => \A d \in Conn : reached[d] = "unused"
  BY DEF CloseConnection, Unstarted
<1> QED BY <1>1 DEF CloseConnection, TypeOK

LEMMA DrainPart ==
    ASSUME NEW c, NEW up \in BOOLEAN, NEW reached,
           reached \in [Conn -> Stage],
           TypeOK, Drain(c, reached, up)
    PROVE  /\ stage' \in [Conn -> Stage]
           /\ open' \subseteq Conn
           /\ channel' \in {channel, NoConn}
           /\ connected' \in BOOLEAN /\ (connected' => up)
           /\ awaited' \subseteq Handler
           /\ stopPhase' \in {"draining", "done"}
           /\ inFlight = {} => stopPhase' = "done"
           /\ Unstarted' => \A d \in Conn : reached[d] = "unused"
<1>1. CASE inFlight # {} /\ stopPhase' = "draining" /\ awaited' = inFlight /\ stage' = reached
             /\ connected' = up /\ UNCHANGED <<open, channel>>
  BY <1>1 DEF TypeOK, Unstarted
<1>2. CASE inFlight = {} /\ CloseConnection(c, reached, up)
  BY <1>2, ClosePart
<1> QED BY <1>1, <1>2 DEF Drain

-----------------------------------------------------------------------------
(* Every step keeps the types, lets connected mean an open channel, and    *)
(* schedules no reconnect after stop().                                    *)
LEMMA ConsumerStep == ConsumerInv /\ [Next]_vars => ConsumerInv'
<1> SUFFICES ASSUME ConsumerInv, [Next]_vars PROVE ConsumerInv'
  OBVIOUS
<1>0. TypeOK /\ ConnectedIsOpen /\ NoReconnectAfterStop /\ BeforeStart /\ StopIsUnderWay
  BY DEF ConsumerInv
<1> USE DEF ConsumerInv, ConnectedIsOpen, NoReconnectAfterStop, BeforeStart, StopIsUnderWay
<1>a. ASSUME Start PROVE ConsumerInv'
  <2>1. /\ Unstarted /\ SetStage(1, "connecting") /\ ~stopped'
        /\ UNCHANGED <<open, watched, channel, connected, consumerTag, timer, inFlight, stopVars,
                       failures>>
    BY <1>a DEF Start
  <2>2. stopped' \in BOOLEAN
    BY <1>a DEF Start
  <2>3. stage' \in [Conn -> Stage] /\ ~Unstarted'
    BY <1>0, <2>1, FirstConn, StagePart
  <2> QED BY <1>0, <2>1, <2>2, <2>3 DEF TypeOK, stopVars
<1>b. ASSUME NEW c \in Conn, CancelledByBroker(c) PROVE ConsumerInv'
  <2>1. stage' \in [Conn -> Stage] /\ ~Unstarted'
    BY <1>0, <1>b, StagePart DEF CancelledByBroker
  <2>2. failures' \in Nat
    BY <1>0, <1>b DEF CancelledByBroker, Failure, TypeOK
  <2>3. UNCHANGED <<open, watched, channel, connected, consumerTag, stopped, timer, inFlight, stopVars>>
    BY <1>b DEF CancelledByBroker
  <2> QED BY <1>0, <2>1, <2>2, <2>3 DEF TypeOK, stopVars
<1>1. ASSUME NEW c \in Conn, Open(c) PROVE ConsumerInv'
  <2>1. stage' \in [Conn -> Stage] /\ ~Unstarted'
    BY <1>0, <1>1, StagePart DEF Open
  <2> QED BY <1>0, <1>1, <2>1 DEF Open, TypeOK, stopVars
<1>2. ASSUME NEW c \in Conn, UseChannel(c) PROVE ConsumerInv'
  <2>1. stage' \in [Conn -> Stage] /\ ~Unstarted'
    BY <1>0, <1>2, StagePart DEF UseChannel
  <2> QED BY <1>0, <1>2, <2>1 DEF UseChannel, TypeOK, stopVars
<1>3. ASSUME NEW c \in Conn, Consume(c) PROVE ConsumerInv'
  <2>1. stage' \in [Conn -> Stage] /\ ~Unstarted'
    BY <1>0, <1>3, StagePart DEF Consume
  <2> QED BY <1>0, <1>3, <2>1 DEF Consume, TypeOK, stopVars
<1>4. ASSUME NEW c \in Conn, ConnectFails(c) PROVE ConsumerInv'
  <2>1. timer' \in BOOLEAN /\ (stopped /\ ~timer => ~timer')
    BY <1>0, <1>4, SchedulePart DEF ConnectFails
  <2>2. timer' \in BOOLEAN
    BY <2>1
  <2>0. stage' \in [Conn -> Stage] /\ ~Unstarted'
    BY <1>0, <1>4, StagePart DEF ConnectFails
  <2>3. TypeOK'
    <3>1. stage' \in [Conn -> Stage]
      BY <2>0
    <3>2. failures' \in Nat
      BY <1>0, <1>4 DEF ConnectFails, Failure, TypeOK
    <3>3. open' \subseteq Conn /\ channel' \in watched \union {NoConn} /\ connected' \in BOOLEAN
      BY <1>0, <1>4 DEF ConnectFails, TypeOK
    <3>4. UNCHANGED <<watched, consumerTag, stopped, inFlight, stopVars>>
      BY <1>4 DEF ConnectFails
    <3> QED BY <1>0, <2>2, <3>1, <3>2, <3>3, <3>4 DEF TypeOK, stopVars
  <2>4. ~connected'
    BY <1>0, <1>4, <2>1 DEF ConnectFails
  <2>5. NoReconnectAfterStop'
    <3>1. stopped' = stopped
      BY <1>0, <1>4, <2>1 DEF ConnectFails
    <3> QED BY <1>0, <2>1, <3>1, Zenon DEF NoReconnectAfterStop
  <2>6. BeforeStart' /\ StopIsUnderWay'
    BY <1>0, <1>4, <2>0 DEF ConnectFails, stopVars
  <2> QED BY <2>3, <2>4, <2>5, <2>6
<1>5. ASSUME NEW c \in Conn, Drop(c) PROVE ConsumerInv'
  <2>0. stage' \in [Conn -> Stage] /\ ~Unstarted'
    BY <1>0, <1>5, StagePart DEF Drop
  <2>1. CASE c \in watched /\ OnClose
    <3>1. timer' \in BOOLEAN /\ (stopped /\ ~timer => ~timer')
      BY <1>0, <2>1, SchedulePart DEF OnClose
    <3>2. timer' \in BOOLEAN
      BY <3>1
    <3>3. TypeOK'
      <4>1. stage' \in [Conn -> Stage]
        BY <2>0
      <4>2. failures' \in Nat
        BY <1>0, <1>5, <2>1 DEF Drop, OnClose, Failure, TypeOK
      <4>3. open' \subseteq Conn /\ channel' \in watched \union {NoConn} /\ connected' \in BOOLEAN
        BY <1>0, <1>5, <2>1 DEF Drop, OnClose, TypeOK
      <4>4. UNCHANGED <<watched, consumerTag, stopped, inFlight, stopVars>>
        BY <1>5, <2>1 DEF Drop, OnClose
      <4> QED BY <1>0, <3>2, <4>1, <4>2, <4>3, <4>4 DEF TypeOK, stopVars
    <3>4. ~connected'
      BY <1>0, <1>5, <2>1, <3>1 DEF Drop, OnClose
    <3>5. NoReconnectAfterStop'
      <4>1. stopped' = stopped
        BY <1>0, <1>5, <2>1, <3>1 DEF Drop, OnClose
      <4> QED BY <1>0, <3>1, <4>1, Zenon DEF NoReconnectAfterStop
    <3>6. BeforeStart' /\ StopIsUnderWay'
      BY <1>0, <1>5, <2>0 DEF Drop, stopVars
    <3> QED BY <3>3, <3>4, <3>5, <3>6
  <2>2. CASE c \notin watched /\ connected' = FALSE /\ ScheduleReconnect /\ UNCHANGED channel
    <3>1. timer' \in BOOLEAN /\ (stopped /\ ~timer => ~timer')
      BY <1>0, <2>2, SchedulePart
    <3>2. timer' \in BOOLEAN
      BY <3>1
    <3>3. TypeOK'
      <4>1. stage' \in [Conn -> Stage]
        BY <2>0
      <4>2. failures' \in Nat
        BY <1>0, <1>5, <2>2 DEF Drop, Failure, TypeOK
      <4>3. open' \subseteq Conn /\ channel' \in watched \union {NoConn} /\ connected' \in BOOLEAN
        BY <1>0, <1>5, <2>2 DEF Drop, TypeOK
      <4>4. UNCHANGED <<watched, consumerTag, stopped, inFlight, stopVars>>
        BY <1>5, <2>2 DEF Drop
      <4> QED BY <1>0, <3>2, <4>1, <4>2, <4>3, <4>4 DEF TypeOK, stopVars
    <3>4. ~connected'
      BY <1>0, <1>5, <2>2, <3>1 DEF Drop
    <3>5. NoReconnectAfterStop'
      <4>1. stopped' = stopped
        BY <1>0, <1>5, <2>2, <3>1 DEF Drop
      <4> QED BY <1>0, <3>1, <4>1, Zenon DEF NoReconnectAfterStop
    <3>6. BeforeStart' /\ StopIsUnderWay'
      BY <1>0, <1>5, <2>0 DEF Drop, stopVars
    <3> QED BY <3>3, <3>4, <3>5, <3>6
  <2> QED BY <1>5, <2>1, <2>2 DEF Drop
<1>6. ASSUME Reconnect PROVE ConsumerInv'
  <2>1. stage' \in [Conn -> Stage] /\ ~Unstarted'
    BY <1>0, <1>6, StagePart DEF Reconnect
  <2> QED BY <1>0, <1>6, <2>1 DEF Reconnect, TypeOK, stopVars
<1>7. ASSUME NEW h \in Handler, Deliver(h) PROVE ConsumerInv'
  <2>1. ~Unstarted' /\ UNCHANGED stage
    BY <1>0, <1>7 DEF Deliver, TypeOK, Unstarted
  <2> QED BY <1>0, <1>7, <2>1 DEF Deliver, TypeOK, stopVars
<1>8. ASSUME NEW h \in Handler, Finish(h) PROVE ConsumerInv'
  BY <1>0, <1>8 DEF Finish, TypeOK, Unstarted, stopVars
<1>9. ASSUME Stop PROVE ConsumerInv'
  <2>1. stopped' /\ timer' = FALSE /\ stopping' = channel
    BY <1>9 DEF Stop
  <2>2. UNCHANGED <<watched, consumerTag, inFlight, failures>>
    BY <1>9 DEF Stop
  <2>3. CASE channel # NoConn /\ stopTag' = consumerTag /\ stopPhase' = "cancelling"
               /\ connected' = FALSE /\ UNCHANGED <<stage, open, channel, awaited>>
    BY <1>0, <2>1, <2>2, <2>3 DEF TypeOK, Unstarted
  <2>4. CASE Drain(channel, stage, FALSE) /\ UNCHANGED stopTag
    <3>1. stage \in [Conn -> Stage]
      BY <1>0 DEF TypeOK
    <3>2. /\ stage' \in [Conn -> Stage]
          /\ open' \subseteq Conn /\ channel' \in {channel, NoConn} /\ connected' \in BOOLEAN
          /\ awaited' \subseteq Handler /\ stopPhase' \in {"draining", "done"}
          /\ ~connected' /\ (inFlight = {} => stopPhase' = "done")
          /\ Unstarted' => Unstarted
      BY <1>0, <2>4, <3>1, DrainPart DEF Unstarted
    <3>3. BeforeStart'
      BY <1>0, <2>2, <3>2
    <3> QED BY <1>0, <2>1, <2>2, <2>4, <3>2, <3>3 DEF TypeOK
  <2> QED BY <1>9, <2>3, <2>4 DEF Stop
<1>10. ASSUME Cancelled PROVE ConsumerInv'
  <2> DEFINE reached == [c \in Conn |->
        IF c = stopTag /\ c = stopping /\ stage[c] = "consuming" THEN "cancelled" ELSE stage[c]]
  <2>1. reached \in [Conn -> Stage]
    BY <1>0 DEF TypeOK
  <2>2. /\ stopPhase = "cancelling" /\ consumerTag' = NoConn
        /\ Drain(stopping, reached, connected)
        /\ UNCHANGED <<watched, stopped, timer, inFlight, stopping, stopTag, failures>>
    BY <1>10 DEF Cancelled
  <2>3. connected \in BOOLEAN
    BY <1>0 DEF TypeOK
  <2> HIDE DEF reached
  <2>4. /\ stage' \in [Conn -> Stage]
        /\ open' \subseteq Conn /\ channel' \in {channel, NoConn} /\ connected' \in BOOLEAN
        /\ awaited' \subseteq Handler /\ stopPhase' \in {"draining", "done"}
        /\ Unstarted' => \A c \in Conn : reached[c] = "unused"
    BY <1>0, <2>1, <2>2, <2>3, DrainPart
  <2>5. ~Unstarted'
    <3>1. ~Unstarted
      BY <1>0, <2>2
    <3>2. (\A c \in Conn : reached[c] = "unused") => Unstarted
      BY DEF reached, Unstarted
    <3> QED BY <2>4, <3>1, <3>2
  <2> QED BY <1>0, <2>2, <2>4, <2>5 DEF TypeOK
<1>11. ASSUME Close PROVE ConsumerInv'
  <2>1. /\ stopPhase = "draining"
        /\ CloseConnection(stopping, stage, connected)
        /\ UNCHANGED <<watched, consumerTag, stopped, timer, inFlight, stopping, stopTag, failures>>
    BY <1>11 DEF Close
  <2>2. connected \in BOOLEAN
    BY <1>0 DEF TypeOK
  <2>3. stage \in [Conn -> Stage]
    BY <1>0 DEF TypeOK
  <2>4. /\ stage' \in [Conn -> Stage]
        /\ open' \subseteq Conn /\ channel' = NoConn /\ connected' \in BOOLEAN
        /\ awaited' \subseteq Handler /\ stopPhase' = "done"
        /\ Unstarted' => \A d \in Conn : stage[d] = "unused"
    BY <2>1, <2>2, <2>3, <1>0, ClosePart
  <2>5. Unstarted' => Unstarted
    BY <2>4 DEF Unstarted
  <2> QED BY <1>0, <2>1, <2>4, <2>5 DEF TypeOK
<1>12. CASE UNCHANGED vars
  BY <1>0, <1>12 DEF vars, stopVars, TypeOK, Unstarted
<1> QED
  BY <1>a, <1>b, <1>1, <1>2, <1>3, <1>4, <1>5, <1>6, <1>7, <1>8, <1>9, <1>10, <1>11, <1>12
  DEF Next, Progress, Faults

(* Every step keeps DrainInv; a step that fails is past its premise. *)
LEMMA DrainStep == ConsumerInv /\ DrainInv /\ [Next]_vars => DrainInv'
<1> SUFFICES ASSUME ConsumerInv, DrainInv, [Next]_vars, failures' = 0 PROVE DrainInv'
  BY DEF DrainInv
<1>0. TypeOK
  BY DEF ConsumerInv
<1>1. ASSUME UNCHANGED failures PROVE failures = 0
  BY <1>1
<1> USE FirstConn, <1>0, <1>1 DEF DrainInv
<1>a. ASSUME Start PROVE DrainInv'
  <2>1. Unstarted /\ stage' = [stage EXCEPT ![1] = "connecting"]
        /\ UNCHANGED <<channel, consumerTag, timer, inFlight, stopVars>>
    BY <1>a DEF Start, SetStage
  <2>2. BeforeStart
    BY DEF ConsumerInv
  <2> QED BY <1>a, <2>1, <2>2 DEF Start, TypeOK, stopVars, BeforeStart, Unstarted
<1>2. ASSUME NEW c \in Conn, Open(c) PROVE DrainInv'
  BY <1>2 DEF Open, SetStage, TypeOK, stopVars
<1>3. ASSUME NEW c \in Conn, UseChannel(c) PROVE DrainInv'
  BY <1>3 DEF UseChannel, SetStage, TypeOK, stopVars
<1>4. ASSUME NEW c \in Conn, Consume(c) PROVE DrainInv'
  BY <1>4 DEF Consume, SetStage, TypeOK, stopVars
<1>5. ASSUME NEW c \in Conn, Faults(c) PROVE FALSE
  BY <1>5 DEF Faults, ConnectFails, Drop, CancelledByBroker, Failure, TypeOK
<1>6. ASSUME Reconnect PROVE FALSE
  BY <1>6 DEF Reconnect
<1>7. ASSUME NEW h \in Handler, Deliver(h) PROVE DrainInv'
  <2>1. h[1] = 1
    BY <1>7 DEF Deliver
  <2> QED BY <1>7, <2>1 DEF Deliver, TypeOK, stopVars
<1>8. ASSUME NEW h \in Handler, Finish(h) PROVE DrainInv'
  BY <1>8 DEF Finish, TypeOK, stopVars
<1>9. ASSUME Stop PROVE DrainInv'
  <2>1. /\ stopPhase = "none" /\ timer' = FALSE /\ stopping' = channel
        /\ UNCHANGED <<watched, consumerTag, inFlight, failures>>
    BY <1>9 DEF Stop
  <2>2. CASE /\ channel # NoConn /\ consumerTag # NoConn
             /\ stopTag' = consumerTag /\ stopPhase' = "cancelling"
             /\ UNCHANGED <<stage, open, channel, awaited>>
    BY <2>1, <2>2
  <2>3. CASE /\ channel = NoConn \/ consumerTag = NoConn
             /\ Drain(channel, stage, FALSE)
    <3>1. inFlight = {} /\ stage[1] # "consuming"
      BY <2>1, <2>3
    <3>2. CloseConnection(channel, stage, FALSE)
      BY <2>3, <3>1 DEF Drain
    <3>3. \A c \in Conn \ {1} : channel # c
      BY <2>1
    <3> QED BY <2>1, <3>2, <3>3 DEF CloseConnection
  <2> QED BY <1>9, <2>2, <2>3 DEF Stop
<1>10. ASSUME Cancelled PROVE DrainInv'
  <2> DEFINE reached == [c \in Conn |->
        IF c = stopTag /\ c = stopping /\ stage[c] = "consuming" THEN "cancelled" ELSE stage[c]]
  <2>1. /\ stopPhase = "cancelling"
        /\ Drain(stopping, reached, connected)
        /\ UNCHANGED <<watched, stopped, timer, inFlight, stopping, stopTag, failures>>
    BY <1>10 DEF Cancelled
  <2>2. stopping = 1 /\ stopTag = 1 /\ stage[1] = "consuming" /\ ~timer
    BY <2>1
  <2>3. reached[1] = "cancelled" /\ \A c \in Conn \ {1} : reached[c] = "unused"
    BY <2>1, <2>2
  <2> HIDE DEF reached
  <2>4. CASE inFlight # {} /\ stopPhase' = "draining" /\ awaited' = inFlight /\ stage' = reached
    BY <2>1, <2>2, <2>3, <2>4
  <2>5. CASE CloseConnection(stopping, reached, connected)
    BY <2>1, <2>2, <2>3, <2>5 DEF CloseConnection
  <2> QED BY <2>1, <2>4, <2>5 DEF Drain
<1>11. ASSUME Close PROVE DrainInv'
  <2>1. stopPhase = "draining" /\ CloseConnection(stopping, stage, connected) /\ UNCHANGED timer
        /\ UNCHANGED failures
    BY <1>11 DEF Close
  <2> QED BY <2>1 DEF CloseConnection
<1>12. CASE UNCHANGED vars
  BY <1>12 DEF vars, stopVars
<1> QED
  BY <1>a, <1>2, <1>3, <1>4, <1>5, <1>6, <1>7, <1>8, <1>9, <1>10, <1>11, <1>12
  DEF Next, Progress

(* A step that completes stop() finds no handler running, if nothing failed. *)
LEMMA CompletionStep ==
    ASSUME ConsumerInv, DrainInv, Next,
           stopPhase # "done", stopPhase' = "done", failures = 0
    PROVE  inFlight = {}
<1>0. TypeOK
  BY DEF ConsumerInv
<1>1. CASE Stop
  <2>1. CASE Drain(channel, stage, FALSE)
    BY <2>1 DEF Drain
  <2> QED BY <1>1, <2>1 DEF Stop
<1>2. CASE Cancelled
  BY <1>2 DEF Cancelled, Drain
<1>3. CASE Close
  <2>1. stopPhase = "draining" /\ awaited = {}
    BY <1>3 DEF Close
  <2> QED BY <2>1 DEF DrainInv
<1>4. ASSUME ~Stop, ~Cancelled, ~Close PROVE FALSE
  <2>1. stopPhase' = stopPhase
    BY <1>4 DEF Next, Progress, Faults, Start, Open, UseChannel, Consume, ConnectFails, Drop,
                CancelledByBroker, Reconnect, Deliver, Finish, stopVars
  <2> QED BY <2>1
<1> QED BY <1>1, <1>2, <1>3, <1>4

-----------------------------------------------------------------------------
(* Theorems                                                                *)

(* In every behaviour the variables of the consumer have their types, and  *)
(* this.channel is a connection whose close handler is registered.         *)
THEOREM TypeCorrect == Spec => []TypeOK
<1>1. Init => ConsumerInv
  BY ConsumerInit
<1>2. ConsumerInv /\ [Next]_vars => ConsumerInv'
  BY ConsumerStep
<1>3. ConsumerInv => TypeOK
  BY DEF ConsumerInv
<1> QED BY <1>1, <1>2, <1>3, PTL DEF Spec

(* However many connections are opened and lost, connected never outlives  *)
(* the channel it stands for.                                              *)
THEOREM ConnectedIsTruthful == Spec => []ConnectedIsOpen
<1>1. Init => ConsumerInv
  BY ConsumerInit
<1>2. ConsumerInv /\ [Next]_vars => ConsumerInv'
  BY ConsumerStep
<1>3. ConsumerInv => ConnectedIsOpen
  BY DEF ConsumerInv
<1> QED BY <1>1, <1>2, <1>3, PTL DEF Spec

(* After stop() was called no reconnect is ever scheduled, whichever       *)
(* connects fail and connections close afterwards, unless start() comes    *)
(* only then.                                                              *)
THEOREM StoppedStaysStopped == Spec => []NoReconnectAfterStop
<1>1. Init => ConsumerInv
  BY ConsumerInit
<1>2. ConsumerInv /\ [Next]_vars => ConsumerInv'
  BY ConsumerStep
<1>3. ConsumerInv => NoReconnectAfterStop
  BY DEF ConsumerInv
<1> QED BY <1>1, <1>2, <1>3, PTL DEF Spec

(* If no connection was ever lost, stop() closes the channel under no      *)
(* running handler, for any number of handlers.                            *)
THEOREM StopDrainsHandlers == Spec => StopDrains
<1>1. Init => ConsumerInv /\ DrainInv
  BY ConsumerInit
<1>2. ConsumerInv /\ DrainInv /\ [Next]_vars => (ConsumerInv /\ DrainInv)'
  BY ConsumerStep, DrainStep
<1>3. ConsumerInv /\ DrainInv /\ [Next]_vars
        => [stopPhase # "done" /\ stopPhase' = "done" /\ failures = 0 =>
              \A h \in inFlight : h[1] # stopping']_vars
  BY CompletionStep
<1> QED BY <1>1, <1>2, <1>3, PTL DEF Spec, StopDrains

=============================================================================
