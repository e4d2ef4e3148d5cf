----------------------- MODULE ServiceLifecycleProofs -----------------------
(***************************************************************************)
(* Proofs about ServiceLifecycle: the consumer keeps, inside the process,  *)
(* everything that RabbitConsumerProofs shows of it, and a shutdown that   *)
(* was requested at a quiet moment frees nothing too early and leaves      *)
(* nothing behind, for any number of connections, failures and requests.   *)
(***************************************************************************)
EXTENDS ServiceLifecycle, RabbitConsumerProofs

USE DEF Conn, NoConn, Ref, Handler, Stage

(* Every step of the process is one of the consumer or none. *)
LEMMA ConsumerPart == [ServiceNext]_serviceVars => [Next]_vars
<1> SUFFICES ASSUME [ServiceNext]_serviceVars PROVE [Next]_vars
  OBVIOUS
<1>1. ASSUME StartUp \/ ListenFails \/ ConnectRejects \/ RequestShutdown \/ RedisLost
      PROVE  [Next]_vars
  BY <1>1 DEF StartUp, ListenFails, ConnectRejects, RequestShutdown, RedisLost, SharedShutdown,
              BeginShutdown, Next
<1>2. ASSUME ConsumerStopped \/ ServerClosed \/ RedisQuit \/ PoolClosed PROVE [Next]_vars
  BY <1>2 DEF ConsumerStopped, ServerClosed, RedisQuit, PoolClosed
<1>3. ASSUME RequestArrives \/ RequestEnds PROVE [Next]_vars
  BY <1>3 DEF RequestArrives, RequestEnds
<1>4. ASSUME ConsumerRuns PROVE [Next]_vars
  BY <1>4 DEF ConsumerRuns, Next
<1>5. ASSUME UNCHANGED serviceVars PROVE [Next]_vars
  BY <1>5 DEF serviceVars
<1> QED BY <1>1, <1>2, <1>3, <1>4, <1>5 DEF ServiceNext

-----------------------------------------------------------------------------
(* Connections                                                             *)

(* The channel in use is open, as a watched one that closes is forgotten;  *)
(* while it consumes, the tag that is kept is that of an open consumer.    *)
ConnectionInv ==
    /\ channel \in open \union {NoConn}
    /\ consumerTag \in watched \union {NoConn}
    /\ \A c \in Conn : stage[c] \in {"configuring", "consuming", "cancelled"} => c \in watched
    /\ stopPhase = "none" /\ channel # NoConn /\ stage[channel] = "consuming"
         => consumerTag \in open

LEMMA ConnectionStep ==
    ASSUME TypeOK, ConnectionInv, [Next]_vars
    PROVE  ConnectionInv'
<1>1. ASSUME NEW c \in Conn, Open(c) \/ UseChannel(c) \/ Consume(c) PROVE ConnectionInv'
  BY <1>1, FirstConn DEF Open, UseChannel, Consume, SetStage, stopVars, TypeOK, ConnectionInv
<1>2. ASSUME NEW c \in Conn, ConnectFails(c) \/ CancelledByBroker(c) PROVE ConnectionInv'
  BY <1>2, FirstConn DEF ConnectFails, CancelledByBroker, SetStage, stopVars, TypeOK, ConnectionInv
<1>3. ASSUME NEW c \in Conn, Drop(c) PROVE ConnectionInv'
  BY <1>3, FirstConn DEF Drop, OnClose, SetStage, stopVars, TypeOK, ConnectionInv
<1>4. CASE Start \/ Reconnect
  <2>1. PICK c \in Conn : stage[c] = "unused" /\ stage' = [stage EXCEPT ![c] = "connecting"]
    <3>1. CASE Start
      BY <3>1, FirstConn DEF Start, Unstarted, SetStage
    <3>2. CASE Reconnect
      BY <3>2 DEF Reconnect, SetStage
    <3> QED BY <1>4, <3>1, <3>2
  <2>2. UNCHANGED <<open, watched, channel, consumerTag, stopPhase>>
    BY <1>4 DEF Start, Reconnect, stopVars
  <2>3. stage \in [Conn -> Stage] /\ open \subseteq Conn
    BY DEF TypeOK
  <2>4. \A d \in Conn : stage'[d] = IF d = c THEN "connecting" ELSE stage[d]
    BY <2>1, <2>3
  <2>5. \A d \in Conn : stage'[d] \in {"configuring", "consuming", "cancelled"} => d \in watched
    BY <2>4 DEF ConnectionInv
  <2>6. stopPhase = "none" /\ channel # NoConn /\ stage'[channel] = "consuming"
          => consumerTag \in open
    BY <2>3, <2>4 DEF ConnectionInv
  <2> QED BY <2>2, <2>5, <2>6 DEF ConnectionInv
<1>5. ASSUME NEW h \in Handler, Deliver(h) \/ Finish(h) PROVE ConnectionInv'
  BY <1>5 DEF Deliver, Finish, stopVars, ConnectionInv
<1>6. CASE Stop \/ Close
  BY <1>6 DEF Stop, Close, Drain, CloseConnection, TypeOK, ConnectionInv
<1>7. CASE Cancelled
  BY <1>7 DEF Cancelled, Drain, CloseConnection, TypeOK, ConnectionInv
<1>8. CASE UNCHANGED vars
  BY <1>8 DEF vars, stopVars, ConnectionInv
<1> QED
  BY <1>1, <1>2, <1>3, <1>4, <1>5, <1>6, <1>7, <1>8 DEF Next, Progress, Faults

Live(c) == stage[c] \notin {"unused", "over"}

(* One connection at a time: a reconnect is scheduled by the end of the    *)
(* one before and called off by stop().  Until stop() takes it, the        *)
(* channel is that of the connection that was set up.                      *)
OneConnection ==
    /\ \A c, d \in Conn : Live(c) /\ Live(d) => c = d
    /\ timer => ~Unstarted /\ \A c \in Conn : ~Live(c)
    /\ \A c \in open : Live(c) /\ stage[c] # "connecting"
    /\ stopPhase = "none" =>
         \A c \in Conn : stage[c] \in {"configuring", "consuming", "cancelled"} => channel = c

(* A call that goes on is the only one still. *)
LEMMA SameConnection ==
    ASSUME NEW c \in Conn, NEW s \in Stage, TypeOK, OneConnection, SetStage(c, s),
           Live(c) \/ \A d \in Conn : ~Live(d)
    PROVE  \A d \in Conn : stage'[d] = (IF d = c THEN s ELSE stage[d]) /\ (d # c => ~Live(d))
  BY DEF SetStage, TypeOK, OneConnection

LEMMA OneConnectionStep ==
    ASSUME TypeOK, NoReconnectAfterStop, OneConnection, [Next]_vars
    PROVE  OneConnection'
<1> USE DEF Live, Unstarted
<1>0. open \subseteq Conn
  BY DEF TypeOK
<1>1. ASSUME NEW c \in Conn, Open(c) PROVE OneConnection'
  <2>1. \A d \in Conn : stage'[d] = (IF d = c THEN "opened" ELSE stage[d]) /\ (d # c => ~Live(d))
    BY <1>1, SameConnection DEF Open
  <2> QED BY <1>0, <1>1, <2>1 DEF Open, stopVars, OneConnection
<1>2. ASSUME NEW c \in Conn, UseChannel(c) PROVE OneConnection'
  <2>1. \A d \in Conn : stage'[d] = (IF d = c THEN "configuring" ELSE stage[d]) /\ (d # c => ~Live(d))
    BY <1>2, SameConnection DEF UseChannel
  <2> QED BY <1>0, <1>2, <2>1 DEF UseChannel, stopVars, OneConnection
<1>3. ASSUME NEW c \in Conn, Consume(c) PROVE OneConnection'
  <2>1. \A d \in Conn : stage'[d] = (IF d = c THEN "consuming" ELSE stage[d]) /\ (d # c => ~Live(d))
    BY <1>3, SameConnection DEF Consume
  <2> QED BY <1>0, <1>3, <2>1 DEF Consume, stopVars, OneConnection
<1>4. ASSUME NEW c \in Conn, CancelledByBroker(c) PROVE OneConnection'
  <2>1. \A d \in Conn : stage'[d] = (IF d = c THEN "cancelled" ELSE stage[d]) /\ (d # c => ~Live(d))
    BY <1>4, SameConnection DEF CancelledByBroker
  <2> QED BY <1>0, <1>4, <2>1 DEF CancelledByBroker, stopVars, OneConnection
<1>5. ASSUME NEW c \in Conn, ConnectFails(c) \/ Drop(c) PROVE OneConnection'
  <2>1. Live(c) /\ SetStage(c, "over") /\ open' \subseteq open /\ c \notin open'
    <3>1. CASE ConnectFails(c)
      BY <3>1 DEF ConnectFails, OneConnection
    <3>2. CASE Drop(c)
      BY <3>2 DEF Drop, OneConnection
    <3> QED BY <1>5, <3>1, <3>2
  <2>3. UNCHANGED stopPhase
    BY <1>5 DEF ConnectFails, Drop, stopVars
  <2>2. \A d \in Conn : stage'[d] = (IF d = c THEN "over" ELSE stage[d]) /\ (d # c => ~Live(d))
    BY <2>1, SameConnection
  <2> QED BY <1>0, <2>1, <2>2, <2>3 DEF OneConnection
<1>6. ASSUME Start \/ Reconnect PROVE OneConnection'
  <2>1. PICK c \in Conn : stage[c] = "unused" /\ SetStage(c, "connecting")
    BY <1>6, FirstConn DEF Start, Unstarted, Reconnect
  <2>2. \A d \in Conn : ~Live(d)
    BY <1>6 DEF Start, Unstarted, Reconnect, OneConnection
  <2>3. \A d \in Conn : stage'[d] = (IF d = c THEN "connecting" ELSE stage[d]) /\ (d # c => ~Live(d))
    BY <2>1, <2>2, SameConnection
  <2>4. ~timer' /\ UNCHANGED <<open, channel, stopPhase>>
    BY <1>6 DEF Start, Reconnect, stopVars, OneConnection
  <2> QED BY <1>0, <2>2, <2>3, <2>4 DEF OneConnection
<1>7. ASSUME NEW h \in Handler, Deliver(h) \/ Finish(h) PROVE OneConnection'
  BY <1>7 DEF Deliver, Finish, stopVars, OneConnection
<1>8. ASSUME Stop \/ Cancelled \/ Close PROVE OneConnection'
  <2>1. /\ stopPhase' # "none" /\ (timer' => timer) /\ open' \subseteq open
        /\ \A d \in Conn : /\ stage'[d] \in {stage[d], "over", "cancelled"}
                           /\ Live(d)' => Live(d)
                           /\ d \in open' /\ Live(d) => Live(d)'
        /\ Unstarted' => Unstarted
    <3>1. CASE Stop
      BY <3>1 DEF Stop, Drain, CloseConnection, TypeOK
    <3>2. CASE Cancelled
      BY <3>2 DEF Cancelled, Drain, CloseConnection, TypeOK
    <3>3. CASE Close
      BY <3>3 DEF Close, CloseConnection, TypeOK
    <3> QED BY <1>8, <3>1, <3>2, <3>3
  <2> QED BY <2>1 DEF OneConnection, TypeOK
<1>9. CASE UNCHANGED vars
  BY <1>9 DEF vars, stopVars, OneConnection
<1> QED
  BY <1>1, <1>2, <1>3, <1>4, <1>5, <1>6, <1>7, <1>8, <1>9 DEF Next, Progress, Faults

-----------------------------------------------------------------------------
(* The consumer after a quiet request                                      *)

(* Only the channel that stop() found is open, its consumer is the one     *)
(* that stop() cancels, and then no handler starts that is not awaited.    *)
QuietInv ==
    clean =>
        /\ startup # "redis" /\ stopped /\ stopPhase # "none"
        /\ \A c \in Conn : stage[c] \notin {"connecting", "opened", "configuring"}
        /\ stopPhase = "cancelling" =>
             \A c \in open : c = stopping /\ (stage[c] = "consuming" => stopTag = c)
        /\ stopPhase = "draining" =>
             /\ \A c \in open : c = stopping /\ stage[c] # "consuming"
             /\ inFlight \subseteq awaited
        /\ stopPhase = "done" => open = {} /\ inFlight = {}

LEMMA QuietBegin ==
    ASSUME NEW s, TypeOK, ConnectionInv, OneConnection, BeginShutdown(s), startup' = s
    PROVE  QuietInv'
<1> SUFFICES ASSUME Quiet(s) PROVE QuietInv'
  BY DEF BeginShutdown, QuietInv
<1>1. \A c \in open : c = channel /\ c # NoConn /\ (stage[c] = "consuming" => consumerTag = c)
  BY FirstConn DEF Quiet, ConnectionInv, OneConnection, Live, BeginShutdown, Stop, TypeOK
<1>2. CASE stopPhase' = "cancelling"
  BY <1>1, <1>2 DEF BeginShutdown, Quiet, Stop, Drain, CloseConnection, QuietInv, TypeOK
<1>3. CASE stopPhase' = "draining"
  BY <1>1, <1>3 DEF BeginShutdown, Quiet, Stop, Drain, CloseConnection, QuietInv, TypeOK
<1>4. CASE stopPhase' = "done"
  BY <1>1, <1>4 DEF BeginShutdown, Quiet, Stop, Drain, CloseConnection, QuietInv, TypeOK
<1> QED BY <1>2, <1>3, <1>4 DEF BeginShutdown, Stop, Drain, CloseConnection

LEMMA QuietRuns ==
    ASSUME TypeOK, NoReconnectAfterStop, QuietInv, ConsumerRuns
    PROVE  QuietInv'
<1> SUFFICES ASSUME clean PROVE QuietInv'
  BY DEF ConsumerRuns, processVars, QuietInv
<1>0. UNCHANGED <<clean, startup>>
  BY DEF ConsumerRuns, processVars
<1>1. ASSUME NEW c \in Conn, Progress(c) \/ Faults(c) PROVE QuietInv'
  <2>1. Drop(c) \/ CancelledByBroker(c)
    BY <1>1 DEF Progress, Faults, Open, UseChannel, Consume, ConnectFails, QuietInv
  <2>2. /\ stage' = [stage EXCEPT ![c] = "over"] \/ stage' = [stage EXCEPT ![c] = "cancelled"]
        /\ open' \subseteq open /\ UNCHANGED <<stopped, stopVars, inFlight>>
    BY <2>1 DEF Drop, CancelledByBroker, SetStage
  <2>3. \A d \in Conn : stage'[d] = stage[d] \/ stage'[d] \in {"over", "cancelled"}
    BY <2>2 DEF TypeOK
  <2> QED BY <1>0, <2>2, <2>3 DEF QuietInv, stopVars, TypeOK
<1>2. ~Reconnect
  BY DEF Reconnect, NoReconnectAfterStop, QuietInv
<1>3. ASSUME NEW h \in Handler, Deliver(h) PROVE QuietInv'
  <2>1. stopPhase = "cancelling"
    BY <1>3 DEF Deliver, QuietInv, TypeOK
  <2> QED BY <1>0, <1>3, <2>1 DEF Deliver, QuietInv, stopVars
<1>4. ASSUME NEW h \in Handler, Finish(h) PROVE QuietInv'
  BY <1>0, <1>4 DEF Finish, QuietInv
<1>5. CASE Cancelled
  BY <1>0, <1>5 DEF Cancelled, Drain, CloseConnection, QuietInv, TypeOK
<1>6. CASE Close
  BY <1>0, <1>6 DEF Close, CloseConnection, QuietInv, TypeOK
<1> QED BY <1>1, <1>2, <1>3, <1>4, <1>5, <1>6 DEF ConsumerRuns

-----------------------------------------------------------------------------
(* The steps of the shutdown                                               *)

(* What a step of the shutdown closed stays closed, but for a server that  *)
(* start() opens late, which a quiet request excludes.                     *)
StepInv ==
    /\ http \in {"idle", "closed"} => requests = 0
    /\ redis \in {"quitting", "closed"} => step \in {Redis, Pool, Over}
    /\ step \in {Server, Redis, Pool, Over} => stopPhase = "done"
    /\ clean /\ step = Server => http # "listening"
    /\ clean /\ step \in {Redis, Pool, Over} => http \in {"idle", "closed"}
    /\ step \in {Pool, Over} => redis = "closed"
    /\ step = Over => pool # "open" /\ ~monitor

(* The inductive invariant of the process. *)
ServiceInv ==
    /\ ServiceTypeOK
    /\ ConsumerInv
    /\ ConnectionInv
    /\ OneConnection
    /\ QuietInv
    /\ StepInv

USE DEF Consumer, Server, Redis, Pool, Over, Steps

LEMMA ServiceInitial == ServiceInit => ServiceInv
<1> SUFFICES ASSUME ServiceInit PROVE ServiceInv
  OBVIOUS
<1>1. ConsumerInv
  BY ConsumerInit DEF ServiceInit
<1>2. ServiceTypeOK
  <2>1. requests \in 0 .. MaxRequests /\ step \in Steps /\ stopPhase = "none"
    BY RequestsAssumption DEF ServiceInit, Init
  <2>2. lost = FALSE /\ monitor = TRUE /\ clean = FALSE
    BY DEF ServiceInit
  <2>3. /\ startup = "redis" /\ http = "idle" /\ redis = "connecting" /\ pool = "open"
    BY DEF ServiceInit
  <2> QED BY <1>1, <2>1, <2>2, <2>3, Zenon DEF ServiceTypeOK, ConsumerInv
<1>3. ConnectionInv /\ OneConnection /\ QuietInv /\ StepInv
  BY DEF ServiceInit, Init, ConnectionInv, OneConnection, Live, QuietInv, StepInv
<1> QED BY <1>1, <1>2, <1>3 DEF ServiceInv

(* The consumer's own steps do not begin stop(), and do not undo its end. *)
LEMMA StopPhaseStep ==
    ASSUME ConsumerRuns
    PROVE  /\ stopPhase = "none" => stopPhase' = "none"
           /\ stopPhase = "done" => stopPhase' = "done"
<1>1. ASSUME NEW c \in Conn, Progress(c) \/ Faults(c) PROVE stopPhase' = stopPhase
  BY <1>1 DEF Progress, Faults, Open, UseChannel, Consume, ConnectFails, Drop, CancelledByBroker, stopVars
<1>2. ASSUME NEW h \in Handler, Deliver(h) \/ Finish(h) PROVE stopPhase' = stopPhase
  BY <1>2 DEF Deliver, Finish, stopVars
<1>3. CASE Reconnect
  BY <1>3 DEF Reconnect, stopVars
<1>4. CASE Cancelled \/ Close
  BY <1>4 DEF Cancelled, Close
<1> QED BY <1>1, <1>2, <1>3, <1>4 DEF ConsumerRuns

(* The switches of the process. *)
LEMMA SwitchStep ==
    ASSUME ServiceTypeOK, [ServiceNext]_serviceVars
    PROVE  lost' \in BOOLEAN /\ monitor' \in BOOLEAN /\ clean' \in BOOLEAN
<1>1. lost' \in BOOLEAN
  <2>1. lost' = lost \/ lost' = TRUE
    BY ZenonT(60) DEF ServiceNext, StartUp, ListenFails, ConnectRejects, RequestShutdown, ConsumerStopped,
       ServerClosed, RedisQuit, PoolClosed, RedisLost, RequestArrives, RequestEnds, ConsumerRuns,
       serviceVars, processVars
  <2> QED BY <2>1 DEF ServiceTypeOK
<1>2. monitor' \in BOOLEAN
  <2>1. monitor' = monitor \/ monitor' = FALSE
    BY ZenonT(60) DEF ServiceNext, StartUp, ListenFails, ConnectRejects, RequestShutdown, ConsumerStopped,
       ServerClosed, RedisQuit, PoolClosed, RedisLost, RequestArrives, RequestEnds, ConsumerRuns,
       serviceVars, processVars
  <2> QED BY <2>1 DEF ServiceTypeOK
<1>3. clean' \in BOOLEAN
  <2>1. clean' = clean \/ (\E s : clean' = Quiet(s))
    BY ZenonT(60) DEF ServiceNext, StartUp, ListenFails, ConnectRejects, RequestShutdown, SharedShutdown,
       BeginShutdown, ConsumerStopped, ServerClosed, RedisQuit, PoolClosed, RedisLost,
       RequestArrives, RequestEnds, ConsumerRuns, serviceVars, processVars
  <2> QED BY <2>1 DEF ServiceTypeOK, Quiet
<1> QED BY <1>1, <1>2, <1>3

(* The rest of its state. *)
PhaseOK ==
    /\ startup \in {"redis", "started", "failed"}
    /\ step \in Steps
    /\ http \in {"idle", "listening", "closing", "closed"}
    /\ requests \in 0 .. MaxRequests
    /\ redis \in {"connecting", "open", "quitting", "closed"}
    /\ pool \in {"open", "ended", "failed"}
    /\ step = 0 => stopPhase = "none"

LEMMA PhaseStep ==
    ASSUME PhaseOK, [ServiceNext]_serviceVars
    PROVE  PhaseOK'
<1> USE RequestsAssumption DEF PhaseOK
<1>1. CASE StartUp
  BY <1>1 DEF StartUp, Connected, Start, stopVars
<1>2. CASE RequestShutdown
  BY <1>2 DEF RequestShutdown, BeginShutdown
<1>3. CASE ListenFails \/ ConnectRejects \/ RedisLost
  <2>1. step' \in Steps /\ step' # 0
    BY <1>3 DEF ListenFails, ConnectRejects, RedisLost, SharedShutdown, BeginShutdown
  <2>2. /\ startup' \in {startup, "failed"} /\ redis' \in {redis, "open"}
        /\ UNCHANGED <<http, requests, pool>>
    BY <1>3 DEF ListenFails, Connected, ConnectRejects, RedisLost
  <2> QED BY <2>1, <2>2
<1>4. CASE ConsumerStopped \/ ServerClosed \/ RedisQuit \/ PoolClosed
  BY <1>4 DEF ConsumerStopped, ServerClosed, RedisQuit, PoolClosed
<1>6. CASE RequestArrives \/ RequestEnds
  BY <1>6 DEF RequestArrives, RequestEnds, vars, stopVars
<1>7. CASE ConsumerRuns
  BY <1>7, StopPhaseStep DEF ConsumerRuns, processVars
<1>8. CASE UNCHANGED serviceVars
  BY <1>8 DEF serviceVars, processVars, vars, stopVars
<1> QED BY <1>1, <1>2, <1>3, <1>4, <1>6, <1>7, <1>8 DEF ServiceNext

(* Without a request there is no verdict on its moment. *)
LEMMA UnrequestedStep ==
    ASSUME ServiceTypeOK, [ServiceNext]_serviceVars, step' = 0
    PROVE  ~clean'
<1>1. step = 0 /\ clean' = clean
  <2>1. CASE StartUp \/ RequestShutdown
    BY <2>1 DEF StartUp, RequestShutdown, BeginShutdown
  <2>5. CASE ListenFails \/ ConnectRejects \/ RedisLost
    BY <2>5 DEF ListenFails, ConnectRejects, RedisLost, SharedShutdown, BeginShutdown
  <2>2. CASE ConsumerStopped \/ ServerClosed \/ RedisQuit \/ PoolClosed
    BY <2>2 DEF ConsumerStopped, ServerClosed, RedisQuit, PoolClosed
  <2>3. CASE RequestArrives \/ RequestEnds \/ ConsumerRuns
    BY <2>3 DEF RequestArrives, RequestEnds, ConsumerRuns, processVars
  <2>4. CASE UNCHANGED serviceVars
    BY <2>4 DEF serviceVars, processVars
  <2> QED BY <2>1, <2>2, <2>3, <2>4, <2>5 DEF ServiceNext
<1> QED BY <1>1 DEF ServiceTypeOK

LEMMA ServiceTypeStep ==
    ASSUME ServiceInv, TypeOK', [ServiceNext]_serviceVars
    PROVE  ServiceTypeOK'
<1>1. PhaseOK
  BY DEF ServiceInv, ServiceTypeOK, PhaseOK
<1>2. PhaseOK'
  BY <1>1, PhaseStep
<1>3. lost' \in BOOLEAN /\ monitor' \in BOOLEAN /\ clean' \in BOOLEAN
  BY SwitchStep DEF ServiceInv
<1>4. step' = 0 => ~clean'
  BY UnrequestedStep DEF ServiceInv
<1> QED BY <1>2, <1>3, <1>4, Zenon DEF ServiceTypeOK, PhaseOK

LEMMA QuietStep ==
    ASSUME ServiceInv, [ServiceNext]_serviceVars
    PROVE  QuietInv'
<1> USE DEF ServiceInv, ServiceTypeOK
<1>1. CASE RequestShutdown
  BY <1>1, QuietBegin DEF RequestShutdown
<1>2. CASE (ListenFails \/ ConnectRejects) /\ BeginShutdown("failed")
  BY <1>2, QuietBegin DEF ListenFails, ConnectRejects
<1>6. CASE RedisLost /\ BeginShutdown(startup)
  BY <1>6, QuietBegin DEF RedisLost
<1>3. CASE StartUp \/ ((ListenFails \/ ConnectRejects) /\ UNCHANGED clean)
  BY <1>3 DEF StartUp, ListenFails, ConnectRejects, Connected, QuietInv
<1>4. CASE ConsumerRuns
  BY <1>4, QuietRuns DEF ConsumerInv
<1>5. CASE UNCHANGED <<vars, startup, clean>>
  BY <1>5 DEF vars, stopVars, QuietInv
<1> QED BY <1>1, <1>2, <1>3, <1>4, <1>5, <1>6
        DEF ServiceNext, ListenFails, ConnectRejects, RedisLost, SharedShutdown, ConsumerStopped,
            ServerClosed, RedisQuit, PoolClosed, RequestArrives, RequestEnds, serviceVars, processVars

LEMMA StepsStep ==
    ASSUME ServiceInv, [ServiceNext]_serviceVars
    PROVE  StepInv'
<1> USE DEF ServiceInv, ServiceTypeOK
<1>1. CASE StartUp \/ ListenFails
  BY <1>1 DEF StartUp, ListenFails, Connected, SharedShutdown, BeginShutdown, Start, vars, stopVars,
              QuietInv, StepInv
<1>2. CASE RequestShutdown
  BY <1>2 DEF RequestShutdown, BeginShutdown, StepInv
<1>3. CASE ConsumerStopped \/ ServerClosed
  BY <1>3 DEF ConsumerStopped, ServerClosed, vars, stopVars, StepInv
<1>4. CASE RedisQuit \/ PoolClosed
  BY <1>4 DEF RedisQuit, PoolClosed, vars, stopVars, StepInv
<1>5. CASE ConnectRejects \/ RedisLost
  BY <1>5 DEF ConnectRejects, RedisLost, SharedShutdown, BeginShutdown, vars, stopVars, StepInv
<1>6. CASE RequestArrives \/ RequestEnds
  BY <1>6 DEF RequestArrives, RequestEnds, vars, stopVars, StepInv
<1>7. CASE ConsumerRuns
  BY <1>7, StopPhaseStep DEF ConsumerRuns, processVars, StepInv
<1>8. CASE UNCHANGED serviceVars
  BY <1>8 DEF serviceVars, processVars, vars, stopVars, StepInv
<1> QED BY <1>1, <1>2, <1>3, <1>4, <1>5, <1>6, <1>7, <1>8 DEF ServiceNext

LEMMA ServiceStep == ServiceInv /\ [ServiceNext]_serviceVars => ServiceInv'
<1> SUFFICES ASSUME ServiceInv, [ServiceNext]_serviceVars PROVE ServiceInv'
  OBVIOUS
<1>1. [Next]_vars
  BY ConsumerPart
<1>2. ConsumerInv'
  BY <1>1, ConsumerStep DEF ServiceInv
<1>3. ConnectionInv'
  BY <1>1, ConnectionStep DEF ServiceInv, ConsumerInv
<1>5. OneConnection'
  BY <1>1, OneConnectionStep DEF ServiceInv, ConsumerInv
<1>4. ServiceTypeOK'
  BY <1>2, ServiceTypeStep DEF ConsumerInv
<1> QED BY <1>2, <1>3, <1>4, <1>5, QuietStep, StepsStep DEF ServiceInv

-----------------------------------------------------------------------------
(* Theorems                                                                *)

(* The consumer inside the process is a consumer: whatever start(), the    *)
(* shutdown and Redis do, its steps are those of RabbitConsumer.           *)
THEOREM ProcessRunsConsumer == ServiceSpec => Spec
<1>1. ServiceInit => Init
  BY DEF ServiceInit
<1>2. [ServiceNext]_serviceVars => [Next]_vars
  BY ConsumerPart
<1> QED BY <1>1, <1>2, PTL DEF ServiceSpec, Spec

(* In every behaviour the variables of the process have their types.       *)
THEOREM ServiceTypeCorrect == ServiceSpec => []ServiceTypeOK
<1>1. ServiceInv => ServiceTypeOK
  BY DEF ServiceInv
<1> QED BY <1>1, ServiceInitial, ServiceStep, PTL DEF ServiceSpec

(* If the shutdown was requested at a quiet moment, Redis is told to quit  *)
(* only when no handler and no request is left that may need it, however   *)
(* many there were and whatever connections closed meanwhile.              *)
THEOREM RedisIsClosedLast == ServiceSpec => []RedisOutlivesItsUsers
<1>1. ServiceInv => RedisOutlivesItsUsers
  BY DEF ServiceInv, StepInv, QuietInv, RedisOutlivesItsUsers
<1> QED BY <1>1, ServiceInitial, ServiceStep, PTL DEF ServiceSpec

(* When such a shutdown is over, nothing keeps the process alive. *)
THEOREM ShutdownLeavesNothing == ServiceSpec => []NothingLeft
<1>1. ServiceInv => NothingLeft
  BY DEF ServiceInv, StepInv, QuietInv, ConsumerInv, NoReconnectAfterStop, NothingLeft
<1> QED BY <1>1, ServiceInitial, ServiceStep, PTL DEF ServiceSpec

=============================================================================
