-------------------------- MODULE ServiceLifecycle --------------------------
(***************************************************************************)
(* One process from start() to the end of its shutdown: the consumer of    *)
(* RabbitConsumer, the Redis clients, the HTTP server with its requests,   *)
(* and the ordered shutdown that a signal, a fatal error or a failed start *)
(* requests.  start() is not told of a shutdown and the shutdown does not  *)
(* wait for start(), so each may come first.                               *)
(***************************************************************************)
EXTENDS RabbitConsumer

CONSTANT MaxRequests    \* bound on HTTP requests handled at a time

ASSUME RequestsAssumption == MaxRequests \in Nat

VARIABLES
    startup,    \* where start() is: connecting to "redis", "started" or "failed"
    step,       \* the shutdown step that runs: see Steps; 0 before the request
    http,       \* the HTTP server
    requests,   \* HTTP requests being handled
    redis,      \* the Redis clients, which connect and quit together
    lost,       \* has a Redis client died? No command of it is answered any more
    pool,       \* the PostgreSQL pool
    monitor,    \* does the event-loop monitor run?
    clean       \* was the shutdown requested at a quiet moment? (history)

processVars == <<startup, step, http, requests, redis, lost, pool, monitor, clean>>
serviceVars == <<vars, processVars>>

(* The steps of the coordinator.  The monitor and the workers need no wait *)
(* when no request is open, so they end with the pool.                     *)
Consumer == 1
Server == 2
Redis == 3
Pool == 4
Over == 5
Steps == 0 .. Over

ServiceTypeOK ==
    /\ TypeOK
    /\ startup \in {"redis", "started", "failed"}
    /\ step \in Steps
    /\ http \in {"idle", "listening", "closing", "closed"}
    /\ requests \in 0 .. MaxRequests
    /\ redis \in {"connecting", "open", "quitting", "closed"}
    /\ pool \in {"open", "ended", "failed"}
    /\ lost \in BOOLEAN /\ monitor \in BOOLEAN /\ clean \in BOOLEAN
    /\ step = 0 => stopPhase = "none" /\ ~clean

(* start() has started the monitor and the Redis clients are connecting. *)
ServiceInit ==
    /\ Init
    /\ startup = "redis" /\ step = 0
    /\ http = "idle" /\ requests = 0
    /\ redis = "connecting" /\ lost = FALSE
    /\ pool = "open" /\ monitor = TRUE
    /\ clean = FALSE

-----------------------------------------------------------------------------
(* start()                                                                 *)

(* The request finds start() settled and no connect() under way. *)
Quiet(s) ==
    /\ s # "redis"
    /\ \A c \in Conn : stage[c] \notin {"connecting", "opened", "configuring"}

(* The coordinator begins with the consumer, in the turn of the request;   *)
(* s is where start() stands.                                              *)
BeginShutdown(s) ==
    /\ step = 0
    /\ step' = Consumer
    /\ clean' = Quiet(s)
    /\ Stop

(* The first request begins the shutdown; later ones share it.             *)
SharedShutdown(s) ==
    \/ BeginShutdown(s)
    \/ step # 0 /\ UNCHANGED <<vars, step, clean>>

(* A client that was told to quit still connects first, to send QUIT; one  *)
(* that was lost once it had connected delays nothing.                     *)
Connected ==
    /\ startup = "redis"
    /\ redis' = (IF redis = "connecting" THEN "open" ELSE redis)

(* All clients are connected: the server listens, and the consumer starts, *)
(* in one turn, whether or not a shutdown began or is over.                *)
StartUp ==
    /\ Connected
    /\ startup' = "started"
    /\ http' = "listening"
    /\ Start
    /\ UNCHANGED <<step, requests, lost, pool, monitor, clean>>

(* The port is taken: start() cleans up by the one shutdown there is. *)
ListenFails ==
    /\ Connected
    /\ startup' = "failed"
    /\ SharedShutdown("failed")
    /\ UNCHANGED <<http, requests, lost, pool, monitor>>

(* Redis refuses a client.  Nothing listens to the client's 'error', which *)
(* is thrown inside its connect(): instead of trying again it rejects, and *)
(* start() fails.                                                          *)
ConnectRejects ==
    /\ startup = "redis"
    /\ startup' = "failed"
    /\ lost' = TRUE
    /\ SharedShutdown("failed")
    /\ UNCHANGED <<http, requests, redis, pool, monitor>>

-----------------------------------------------------------------------------
(* The shutdown                                                            *)

(* A signal or a fatal error; later ones share the first one's shutdown. *)
RequestShutdown ==
    /\ BeginShutdown(startup)
    /\ UNCHANGED <<startup, http, requests, redis, lost, pool, monitor>>

(* consumer.stop() has settled: Socket.IO and the HTTP server close. *)
ConsumerStopped ==
    /\ step = Consumer
    /\ stopPhase = "done"
    /\ step' = Server
    /\ http' = (IF http = "listening" THEN "closing" ELSE http)
    /\ UNCHANGED <<vars, startup, requests, redis, lost, pool, monitor, clean>>

(* A mistake: the close of the server is not awaited. *)
ServerClosedUnawaited ==
    /\ step = Server
    /\ step' = Redis
    /\ http' = (IF http = "closing" THEN "closed" ELSE http)
    /\ redis' = "quitting"
    /\ UNCHANGED <<vars, startup, requests, lost, pool, monitor, clean>>

(* A mistake: a server that never listened is waited for. *)
ServerClosedIfListening ==
    /\ step = Server
    /\ http = "closing"
    /\ requests = 0
    /\ step' = Redis
    /\ http' = "closed"
    /\ redis' = "quitting"
    /\ UNCHANGED <<vars, startup, requests, lost, pool, monitor, clean>>

(* io.close() calls back when the open requests have ended, or at once     *)
(* when the server does not listen: the Redis clients are told to quit.    *)
ServerClosed ==
    /\ step = Server
    /\ http = "closing" => requests = 0
    /\ step' = Redis
    /\ http' = (IF http = "closing" THEN "closed" ELSE http)
    /\ redis' = "quitting"
    /\ UNCHANGED <<vars, startup, requests, lost, pool, monitor, clean>>

(* QUIT is answered, which takes a connection. *)
RedisQuit ==
    /\ step = Redis
    /\ ~lost
    /\ startup # "redis"
    /\ step' = Pool
    /\ redis' = "closed"
    /\ UNCHANGED <<vars, startup, http, requests, lost, pool, monitor, clean>>

(* A mistake: a step that fails ends the shutdown. *)
PoolClosedOrAborted ==
    /\ step = Pool
    /\ step' = Over
    /\ \/ pool' = "ended" /\ monitor' = FALSE
       \/ pool' = "failed" /\ UNCHANGED monitor
    /\ UNCHANGED <<vars, startup, http, requests, redis, lost, clean>>

(* The pool ends, or fails to, which is reported; the rest is closed all   *)
(* the same.                                                               *)
PoolClosed ==
    /\ step = Pool
    /\ step' = Over
    /\ pool' \in {"ended", "failed"}
    /\ monitor' = FALSE
    /\ UNCHANGED <<vars, startup, http, requests, redis, lost, clean>>

-----------------------------------------------------------------------------
(* The environment                                                         *)

(* A Redis client loses its connection.  Nothing listens to its 'error',   *)
(* which is thrown before the client connects again or rejects what was    *)
(* pending: a fatal error, that requests the shutdown.                     *)
RedisLost ==
    /\ ~lost
    /\ redis # "closed"
    /\ lost' = TRUE
    /\ SharedShutdown(startup)
    /\ UNCHANGED <<startup, http, requests, redis, pool, monitor>>

RequestArrives ==
    /\ http = "listening"
    /\ requests < MaxRequests
    /\ requests' = requests + 1
    /\ UNCHANGED <<vars, startup, step, http, redis, lost, pool, monitor, clean>>

RequestEnds ==
    /\ requests > 0
    /\ requests' = requests - 1
    /\ UNCHANGED <<vars, startup, step, http, redis, lost, pool, monitor, clean>>

(* The consumer's own steps. *)
ConsumerRuns ==
    /\ \/ \E c \in Conn : Progress(c) \/ Faults(c)
       \/ Reconnect
       \/ \E h \in Handler : Deliver(h) \/ Finish(h)
       \/ Cancelled \/ Close
    /\ UNCHANGED processVars

-----------------------------------------------------------------------------
ServiceNext ==
    \/ StartUp \/ ListenFails \/ ConnectRejects
    \/ RequestShutdown
    \/ ConsumerStopped \/ ServerClosed \/ RedisQuit \/ PoolClosed
    \/ RedisLost
    \/ RequestArrives \/ RequestEnds
    \/ ConsumerRuns

ServiceSpec == ServiceInit /\ [][ServiceNext]_serviceVars

(* The broker answers, the timer fires, a Redis client connects or is      *)
(* refused and PostgreSQL answers.  Handlers and requests end while Redis  *)
(* answers their commands, as every route has a time limit or a single     *)
(* query.  Signals, faults and new work are never required.                *)
ServiceFairness ==
    /\ \A c \in Conn : WF_serviceVars(Progress(c) /\ UNCHANGED processVars)
    /\ \A h \in Handler : WF_serviceVars(Finish(h) /\ ~lost /\ UNCHANGED processVars)
    /\ WF_serviceVars(Reconnect /\ UNCHANGED processVars)
    /\ WF_serviceVars((Cancelled \/ Close) /\ UNCHANGED processVars)
    /\ WF_serviceVars(StartUp \/ ListenFails \/ ConnectRejects)
    /\ WF_serviceVars(ConsumerStopped \/ ServerClosed \/ RedisQuit \/ PoolClosed)
    /\ WF_serviceVars(~lost /\ RequestEnds)

ServiceFairSpec == ServiceSpec /\ ServiceFairness

-----------------------------------------------------------------------------
(* Properties                                                              *)

(* If the shutdown was requested at a quiet moment, Redis is told to quit  *)
(* only when no handler of a message and no request may still need it.     *)
RedisOutlivesItsUsers ==
    clean /\ redis \in {"quitting", "closed"} => inFlight = {} /\ requests = 0

(* When a shutdown that was requested at a quiet moment is over, nothing   *)
(* keeps the process alive, whichever steps failed, connections closed or  *)
(* signals came meanwhile.  Without the condition a start() or connect()   *)
(* under way goes on, and nobody closes what it opens.                     *)
NothingLeft ==
    step = Over /\ clean =>
        /\ open = {} /\ ~timer
        /\ \A c \in Conn : stage[c] \notin {"connecting", "opened", "configuring"}
        /\ http \in {"idle", "closed"} /\ redis = "closed"
        /\ pool # "open" /\ ~monitor

(* A requested shutdown comes to its end, whatever state it found and      *)
(* whatever else fails, unless a Redis client dies: then a handler, a      *)
(* request or a QUIT may wait for ever.                                    *)
ShutdownCompletes == []~lost => (step # 0 ~> step = Over)

(* "Runs startup work and invokes cleanup before rethrowing a startup      *)
(* failure": a start() that failed is reported once the shutdown is over.  *)
FailedStartIsRethrown == startup = "failed" ~> step = Over

=============================================================================
