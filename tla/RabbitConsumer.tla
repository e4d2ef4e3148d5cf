--------------------------- MODULE RabbitConsumer ---------------------------
(***************************************************************************)
(* The connection of one instance to RabbitMQ: starting, connecting,       *)
(* reconnecting after a failure or a close, and stopping.  connect() is    *)
(* not awaited by the timer that calls it, so it runs concurrently with    *)
(* the close of the connection it opens and with stop(), and stop() may    *)
(* even come before start().                                               *)
(***************************************************************************)
EXTENDS Naturals, FiniteSets

CONSTANTS
    MaxConnects,    \* bound on connect() calls
    MaxFailures,    \* bound on failed connects, closed connections, cancelled consumers
    MaxHandlers     \* bound on messages handled at a time per channel

ASSUME BoundsAssumption ==
    MaxConnects \in Nat \ {0} /\ MaxFailures \in Nat /\ MaxHandlers \in Nat

Conn == 1 .. MaxConnects    \* connect() calls, and the connection each opens
NoConn == 0
Ref == Conn \union {NoConn}

VARIABLES
    stage,          \* connect() call -> how far it got
    open,           \* connections that are open at the broker
    watched,        \* connections with a close handler
    channel,        \* this.channel and this.connection
    connected,      \* this.connected
    consumerTag,    \* the connection whose consumer tag is kept
    stopped,
    timer,          \* is a reconnect scheduled?
    inFlight,       \* handlers that are running, by connection
    stopPhase,      \* where stopInternal is
    stopping,       \* ... the channel and connection it found
    stopTag,        \* ... the consumer tag it cancels
    awaited,        \* ... the handlers it still waits for
    failures

stopVars == <<stopPhase, stopping, stopTag, awaited>>
vars == <<stage, open, watched, channel, connected, consumerTag, stopped, timer,
          inFlight, stopVars, failures>>

Handler == Conn \X (1 .. MaxHandlers)

Stage == {"unused", "connecting", "opened", "configuring", "consuming", "cancelled", "over"}

TypeOK ==
    /\ stage \in [Conn -> Stage]
    /\ open \subseteq Conn /\ watched \subseteq Conn
    /\ channel \in watched \union {NoConn} /\ stopping \in watched \union {NoConn}
    /\ consumerTag \in Ref /\ stopTag \in Ref
    /\ connected \in BOOLEAN /\ stopped \in BOOLEAN /\ timer \in BOOLEAN
    /\ inFlight \subseteq Handler /\ awaited \subseteq Handler
    /\ stopPhase \in {"none", "cancelling", "draining", "done"}
    /\ failures \in Nat

(* The consumer is created; start() has not been called. *)
Init ==
    /\ stage = [c \in Conn |-> "unused"]
    /\ open = {} /\ watched = {}
    /\ channel = NoConn /\ consumerTag = NoConn /\ stopping = NoConn /\ stopTag = NoConn
    /\ connected = FALSE /\ stopped = FALSE /\ timer = FALSE
    /\ inFlight = {} /\ awaited = {}
    /\ stopPhase = "none"
    /\ failures = 0

SetStage(c, s) == stage' = [stage EXCEPT ![c] = s]

Unstarted == \A c \in Conn : stage[c] = "unused"

(* start(), which the service calls once: the stopped flag is reset even   *)
(* if stop() was already called, and connect() is called for the first     *)
(* time.                                                                   *)
Start ==
    /\ Unstarted
    /\ SetStage(1, "connecting")
    /\ stopped' = FALSE
    /\ UNCHANGED <<open, watched, channel, connected, consumerTag, timer, inFlight, stopVars,
                   failures>>

-----------------------------------------------------------------------------
(* connect()                                                               *)

(* A mistake: a reconnect is scheduled although the consumer was stopped. *)
ScheduleAlways == timer' = TRUE

ScheduleReconnect == timer' = (timer \/ ~stopped)

Failure == failures < MaxFailures /\ failures' = failures + 1

Open(c) ==
    /\ stage[c] = "connecting"
    /\ SetStage(c, "opened")
    /\ open' = open \union {c}
    /\ UNCHANGED <<watched, channel, connected, consumerTag, stopped, timer, inFlight, stopVars,
                   failures>>

(* A mistake: no close handler is registered. *)
UseChannelUnwatched(c) ==
    /\ stage[c] = "opened"
    /\ c \in open
    /\ SetStage(c, "configuring")
    /\ channel' = c
    /\ connected' = TRUE
    /\ UNCHANGED <<open, watched, consumerTag, stopped, timer, inFlight, stopVars, failures>>

(* createChannel resolves: the fields are set and the handlers registered. *)
UseChannel(c) ==
    /\ stage[c] = "opened"
    /\ c \in open
    /\ SetStage(c, "configuring")
    /\ channel' = c
    /\ connected' = TRUE
    /\ watched' = watched \union {c}
    /\ UNCHANGED <<open, consumerTag, stopped, timer, inFlight, stopVars, failures>>

(* The topology is declared and consume resolves. *)
Consume(c) ==
    /\ stage[c] = "configuring"
    /\ c \in open
    /\ SetStage(c, "consuming")
    /\ consumerTag' = c
    /\ UNCHANGED <<open, watched, channel, connected, stopped, timer, inFlight, stopVars,
                   failures>>

(* No connection is made.  What connect() awaits later rejects only when   *)
(* the connection closes, or when the broker closes the channel, whose     *)
(* 'error' event has no listener and ends the process.                     *)
ConnectFails(c) ==
    /\ Failure
    /\ stage[c] = "connecting"
    /\ SetStage(c, "over")
    /\ connected' = FALSE
    /\ ScheduleReconnect
    /\ UNCHANGED <<open, watched, channel, consumerTag, stopped, inFlight, stopVars>>

(* A mistake: the close handler keeps the connected flag. *)
OnCloseKeepingConnected ==
    /\ UNCHANGED connected
    /\ channel' = NoConn
    /\ ScheduleReconnect

(* A mistake: a closed connection is not reopened. *)
OnCloseGivingUp ==
    /\ connected' = FALSE
    /\ channel' = NoConn
    /\ UNCHANGED timer

(* The close handler looks at no connection but forgets the current one. *)
OnClose ==
    /\ connected' = FALSE
    /\ channel' = NoConn
    /\ ScheduleReconnect

(* A connection closes for a reason outside this process.  What connect()  *)
(* still awaits on it rejects, which is all that tells of a connection     *)
(* that is not watched yet, and repeats what the close handler of a        *)
(* watched one does.                                                       *)
Drop(c) ==
    /\ Failure
    /\ c \in open
    /\ open' = open \ {c}
    /\ \/ c \in watched /\ OnClose
       \/ /\ c \notin watched
          /\ connected' = FALSE
          /\ ScheduleReconnect
          /\ UNCHANGED channel
    /\ SetStage(c, "over")
    /\ UNCHANGED <<watched, consumerTag, stopped, inFlight, stopVars>>

(* The reconnect timer fires and calls connect(). *)
Reconnect ==
    /\ timer
    /\ timer' = FALSE
    /\ \E c \in Conn :
         /\ stage[c] = "unused" /\ \A d \in 1 .. (c - 1) : stage[d] # "unused"
         /\ SetStage(c, "connecting")
    /\ UNCHANGED <<open, watched, channel, connected, consumerTag, stopped, inFlight, stopVars,
                   failures>>

(* The broker cancels the consumer, because its queue was deleted.  The    *)
(* null message that says so is ignored, and nothing else changes.         *)
CancelledByBroker(c) ==
    /\ Failure
    /\ stage[c] = "consuming"
    /\ c \in open
    /\ SetStage(c, "cancelled")
    /\ UNCHANGED <<open, watched, channel, connected, consumerTag, stopped, timer, inFlight, stopVars>>

-----------------------------------------------------------------------------
(* Messages                                                                *)

Deliver(h) ==
    /\ stage[h[1]] = "consuming"
    /\ h[1] \in open
    /\ h \notin inFlight
    /\ inFlight' = inFlight \union {h}
    /\ UNCHANGED <<stage, open, watched, channel, connected, consumerTag, stopped, timer, stopVars,
                   failures>>

Finish(h) ==
    /\ h \in inFlight
    /\ inFlight' = inFlight \ {h}
    /\ awaited' = awaited \ {h}
    /\ UNCHANGED <<stage, open, watched, channel, connected, consumerTag, stopped, timer, stopPhase,
                   stopping, stopTag, failures>>

-----------------------------------------------------------------------------
(* stop()                                                                  *)

(* The channel and the connection that stop() found are closed, what       *)
(* connect() awaits on them rejects, and the fields are cleared; up is the *)
(* connected flag of the moment.                                           *)
CloseConnection(c, reached, up) ==
    /\ stopPhase' = "done"
    /\ open' = open \ {c}
    /\ stage' = [d \in Conn |-> IF d = c THEN "over" ELSE reached[d]]
    /\ channel' = NoConn
    /\ connected' = (up /\ c \notin open)
    /\ awaited' = {}

(* The handlers to wait for are the ones in flight now; when there are     *)
(* none, nothing happens between this and the close.                       *)
Drain(c, reached, up) ==
    \/ /\ inFlight # {}
       /\ stopPhase' = "draining"
       /\ awaited' = inFlight
       /\ stage' = reached
       /\ connected' = up
       /\ UNCHANGED <<open, channel>>
    \/ /\ inFlight = {}
       /\ CloseConnection(c, reached, up)

(* Runs up to the first await; a second call only awaits the first one. *)
Stop ==
    /\ stopPhase = "none"
    /\ stopped' = TRUE
    /\ timer' = FALSE
    /\ stopping' = channel
    /\ \/ /\ channel # NoConn /\ consumerTag # NoConn
          /\ stopTag' = consumerTag
          /\ stopPhase' = "cancelling"
          /\ connected' = FALSE
          /\ UNCHANGED <<stage, open, channel, awaited>>
       \/ /\ channel = NoConn \/ consumerTag = NoConn
          /\ Drain(channel, stage, FALSE)
          /\ UNCHANGED stopTag
    /\ UNCHANGED <<watched, consumerTag, inFlight, failures>>

(* cancel() settles, whether or not the tag names a consumer of this       *)
(* channel; a failed cancel is swallowed.                                  *)
Cancelled ==
    LET reached == [c \in Conn |-> IF c = stopTag /\ c = stopping /\ stage[c] = "consuming"
                                     THEN "cancelled" ELSE stage[c]]
    IN
    /\ stopPhase = "cancelling"
    /\ consumerTag' = NoConn
    /\ Drain(stopping, reached, connected)
    /\ UNCHANGED <<watched, stopped, timer, inFlight, stopping, stopTag, failures>>

(* A mistake: stop() does not wait for the handlers. *)
CloseWithoutWaiting ==
    /\ stopPhase = "draining"
    /\ CloseConnection(stopping, stage, connected)
    /\ UNCHANGED <<watched, consumerTag, stopped, timer, inFlight, stopping, stopTag, failures>>

Close ==
    /\ stopPhase = "draining"
    /\ awaited = {}
    /\ CloseConnection(stopping, stage, connected)
    /\ UNCHANGED <<watched, consumerTag, stopped, timer, inFlight, stopping, stopTag, failures>>

-----------------------------------------------------------------------------
Progress(c) == Open(c) \/ UseChannel(c) \/ Consume(c)
Faults(c) == ConnectFails(c) \/ Drop(c) \/ CancelledByBroker(c)

Next ==
    \/ Start
    \/ \E c \in Conn : Progress(c) \/ Faults(c)
    \/ Reconnect
    \/ \E h \in Handler : Deliver(h) \/ Finish(h)
    \/ Stop \/ Cancelled \/ Close

Spec == Init /\ [][Next]_vars

-----------------------------------------------------------------------------
(* Properties                                                              *)

(* Whatever order close events, retries and connect() calls interleave in, *)
(* connected is never left behind by a close: it means a channel that is   *)
(* open and whose close will be noticed.                                   *)
ConnectedIsOpen == connected /\ ~stopped => channel \in open \intersect watched

(* No failed connect() or late close event, however delayed, schedules a   *)
(* reconnect once stop() was called, unless a later start() resets the     *)
(* flag.                                                                   *)
NoReconnectAfterStop == stopped => ~timer

(* If no connection was ever lost, stop() closes the channel only when     *)
(* every message delivered on it has been handled, also those delivered    *)
(* while the consumer was being cancelled, so that their acks are sent.    *)
(* After a reconnect it is not so: the kept consumer tag may be an older   *)
(* connection's.                                                           *)
StopDrains ==
    [][stopPhase # "done" /\ stopPhase' = "done" /\ failures = 0 =>
         \A h \in inFlight : h[1] # stopping']_vars

(* The invariant behind StopDrains: while nothing failed there is one      *)
(* connection, its consumer tag is the one kept, and once it is cancelled  *)
(* no handler starts that is not awaited.                                  *)
DrainInv ==
    failures = 0 =>
        /\ ~timer
        /\ \A c \in Conn \ {1} : stage[c] = "unused"
        /\ stopPhase = "none" =>
             /\ stage[1] \in {"unused", "connecting", "opened", "configuring", "consuming"}
             /\ channel = (IF stage[1] \in {"configuring", "consuming"} THEN 1 ELSE NoConn)
             /\ consumerTag = (IF stage[1] = "consuming" THEN 1 ELSE NoConn)
             /\ inFlight # {} => stage[1] = "consuming"
        /\ stopPhase = "cancelling" =>
             stopping = 1 /\ stopTag = 1 /\ stage[1] = "consuming"
        /\ stopPhase = "draining" =>
             stopping = 1 /\ stage[1] = "cancelled" /\ inFlight \subseteq awaited

Consuming == {c \in open : stage[c] = "consuming"}

(* The broker cancelled the consumer of this.channel: nothing of the code  *)
(* looks at it, and the instance stays connected and consumes nothing.     *)
Deaf == connected /\ channel # NoConn /\ stage[channel] = "cancelled"

(* However connects fail and connections close, a consumer that was        *)
(* started and not stopped ends up consuming on an open connection, once   *)
(* failures cease; the one failure it never recovers from is a consumer    *)
(* that the broker cancelled.                                              *)
Recovers == []Unstarted \/ <>[]stopped \/ <>[](Consuming # {}) \/ <>[]Deaf

(* "Stops reconnect attempts and closes the RabbitMQ channel and           *)
(* connection": when stop() is done, nothing consumes.                     *)
StopEndsConsumption == stopPhase = "done" => Consuming = {}

=============================================================================
