---------------------------- MODULE Diagnostics ----------------------------
(***************************************************************************)
(* The diagnostic requests of one instance, whose work is done outside the *)
(* event loop: by a worker thread, by a child process (the probe) or in    *)
(* the thread pool.  What happens there reaches the loop as events, in the *)
(* order they were made, and races the request's timer, the client's       *)
(* disconnect and the shutdown; whichever comes first settles the request. *)
(***************************************************************************)
EXTENDS ActivityCalculation

CONSTANTS
    Workers, Probes, Pools      \* the requests of each kind

ASSUME KindAssumption ==
    Workers \intersect Probes = {} /\ Workers \intersect Pools = {} /\ Probes \intersect Pools = {}

Requests == Workers \union Probes \union Pools

VARIABLES
    client,     \* request -> what its HTTP client has seen
    work,       \* ... the events that its thread or process has yet to make
    inbox,      \* ... the events that the loop has yet to handle
    made,       \* ... all events its work was to make (history)
    stdout,     \* ... what the probe has read of the child's output
    settled,    \* requests whose promise is settled
    timers,     \* requests whose timer is set
    activeWorkers,
    server      \* the HTTP server, and then the calculator

vars == <<client, work, inbox, made, stdout, settled, timers, activeWorkers, server>>

(* What a thread or process may do when nobody stops it.  A worker may die *)
(* or end without a message, a child may print anything, the pool may fail *)
(* to derive the key; "hang" is never followed by anything.                *)
Outcomes(r) ==
    IF r \in Workers
      THEN {<<"message", "exit0">>, <<"exit0">>, <<"error", "exit1">>, <<"exit1">>, <<"hang">>}
    ELSE IF r \in Probes
      THEN {<<"part", "rest", "close0">>, <<"part", "close0">>, <<"part", "flood", "close0">>,
            <<"part", "rest", "close1">>, <<"error", "close1">>, <<"hang">>}
    ELSE {<<"derived">>, <<"error">>}

(* The outcomes that the client may be told of. *)
Genuine == {<<"message", "exit0">>, <<"part", "rest", "close0">>, <<"derived">>}

TypeOK ==
    /\ client \in [Requests -> {"none", "open", "answered", "failed", "gone"}]
    /\ \A r \in Requests :
         /\ made[r] \in Outcomes(r) \union {<<>>}
         /\ Len(work[r]) <= 3 /\ Len(inbox[r]) <= 4
         /\ work[r] # <<>> => client[r] # "none"
    /\ stdout \in [Probes -> {"", "part", "whole"}]
    /\ settled \subseteq Requests /\ timers \subseteq Workers \union Probes
    /\ activeWorkers \subseteq Workers
    /\ server \in {"serving", "closing", "closed"}

Init ==
    /\ client = [r \in Requests |-> "none"]
    /\ work = [r \in Requests |-> <<>>]
    /\ inbox = [r \in Requests |-> <<>>]
    /\ made = [r \in Requests |-> <<>>]
    /\ stdout = [r \in Probes |-> ""]
    /\ settled = {} /\ timers = {} /\ activeWorkers = {}
    /\ server = "serving"

-----------------------------------------------------------------------------
(* Settling a request                                                      *)

(* worker.terminate() and child.kill(): what still runs ends, and says so. *)
Ended(r) == IF work[r] = <<>> THEN <<>>
            ELSE IF r \in Workers THEN <<"exit1">> ELSE <<"close1">>

Cleanup(rs) ==
    /\ settled' = settled \union rs
    /\ timers' = timers \ rs
    /\ activeWorkers' = activeWorkers \ rs

(* A mistake: the thread or process goes on. *)
SettleWithoutKill(rs, answer) ==
    /\ Cleanup(rs)
    /\ client' = [r \in Requests |-> IF r \in rs /\ client[r] = "open" THEN answer ELSE client[r]]
    /\ UNCHANGED work

(* The promises of rs settle and their tasks are stopped, but for those in *)
(* the pool, which cannot be.  The route answers, or hands the error on,   *)
(* unless the client is gone.                                              *)
Settle(rs, answer) ==
    /\ Cleanup(rs)
    /\ client' = [r \in Requests |-> IF r \in rs /\ client[r] = "open" THEN answer ELSE client[r]]
    /\ work' = [r \in Requests |-> IF r \in rs \ Pools THEN Ended(r) ELSE work[r]]

-----------------------------------------------------------------------------
(* Requests                                                                *)

(* A mistake: a child is tracked as if it were a worker. *)
RequestTracked(r) ==
    /\ client[r] = "none"
    /\ server = "serving"
    /\ client' = [client EXCEPT ![r] = "open"]
    /\ \E o \in Outcomes(r) :
         /\ work' = [work EXCEPT ![r] = o]
         /\ made' = [made EXCEPT ![r] = o]
    /\ timers' = timers \union ({r} \ Pools)
    /\ activeWorkers' = activeWorkers \union ({r} \ Pools)
    /\ UNCHANGED <<inbox, stdout, settled, server>>

(* An authorized request starts its work. *)
Request(r) ==
    /\ client[r] = "none"
    /\ server = "serving"
    /\ client' = [client EXCEPT ![r] = "open"]
    /\ \E o \in Outcomes(r) :
         /\ work' = [work EXCEPT ![r] = o]
         /\ made' = [made EXCEPT ![r] = o]
    /\ timers' = timers \union ({r} \ Pools)
    /\ activeWorkers' = activeWorkers \union ({r} \intersect Workers)
    /\ UNCHANGED <<inbox, stdout, settled, server>>

(* A mistake: a worker's request is not told of the disconnect. *)
DisconnectUnnoticed(r) ==
    /\ client[r] = "open"
    /\ client' = [client EXCEPT ![r] = "gone"]
    /\ UNCHANGED <<work, inbox, made, stdout, settled, timers, activeWorkers, server>>

(* The response closes before it ends: the signal aborts a worker or a     *)
(* child at once; a task in the pool looks at it when it is done.          *)
Disconnect(r) ==
    /\ client[r] = "open"
    /\ IF r \in Pools
         THEN /\ client' = [client EXCEPT ![r] = "gone"]
              /\ UNCHANGED <<work, settled, timers, activeWorkers>>
         ELSE Settle({r}, "gone")
    /\ UNCHANGED <<inbox, made, stdout, server>>

(* A mistake: a child has no time limit. *)
TimeoutOfWorkers(r) ==
    /\ r \in timers \intersect Workers
    /\ Settle({r}, "failed")
    /\ UNCHANGED <<inbox, made, stdout, server>>

Timeout(r) ==
    /\ r \in timers
    /\ Settle({r}, "failed")
    /\ UNCHANGED <<inbox, made, stdout, server>>

(* The thread or process makes its next event. *)
Work(r) ==
    /\ work[r] # <<>>
    /\ Head(work[r]) # "hang"
    /\ work' = [work EXCEPT ![r] = Tail(@)]
    /\ inbox' = [inbox EXCEPT ![r] = Append(@, Head(work[r]))]
    /\ UNCHANGED <<client, made, stdout, settled, timers, activeWorkers, server>>

-----------------------------------------------------------------------------
(* Events                                                                  *)

(* A mistake: the close event is taken for an answer whatever was printed. *)
ProbeAnswersUnread(r, e) == e = "close0"

(* The output was read to its end and parses. *)
ProbeAnswers(r, e) == e = "close0" /\ stdout[r] = "whole"

Answers(r, e) ==
    \/ r \in Workers /\ e = "message"
    \/ r \in Probes /\ ProbeAnswers(r, e)
    \/ r \in Pools /\ e = "derived"

(* A worker that exits with code 0 leaves its request to the timer. *)
Fails(r, e) ==
    \/ e \in {"error", "flood", "exit1", "close1"}
    \/ r \in Probes /\ e = "close0" /\ ~ProbeAnswers(r, e)

Read(e) == IF e = "part" THEN "part" ELSE "whole"

(* The loop handles the next event of a request; a settled request ignores *)
(* it.                                                                     *)
Handle(r) ==
    /\ inbox[r] # <<>>
    /\ LET e == Head(inbox[r]) IN
         /\ \/ r \notin settled /\ Answers(r, e) /\ Settle({r}, "answered")
            \/ r \notin settled /\ Fails(r, e) /\ Settle({r}, "failed")
            \/ /\ r \in settled \/ ~(Answers(r, e) \/ Fails(r, e))
               /\ UNCHANGED <<client, work, settled, timers, activeWorkers>>
         /\ stdout' = IF e \in {"part", "rest"} THEN [stdout EXCEPT ![r] = Read(e)] ELSE stdout
    /\ inbox' = [inbox EXCEPT ![r] = Tail(@)]
    /\ UNCHANGED <<made, server>>

-----------------------------------------------------------------------------
(* Shutdown                                                                *)

CloseServer ==
    /\ server = "serving"
    /\ server' = "closing"
    /\ UNCHANGED <<client, work, inbox, made, stdout, settled, timers, activeWorkers>>

(* The server has closed when no request is open; close() then rejects     *)
(* what is active.  A shutdown that came before start() does not wait for  *)
(* the server, which goes on serving.                                      *)
CloseCalculator ==
    /\ \/ server = "closing" /\ (\A r \in Requests : client[r] # "open") /\ server' = "closed"
       \/ server = "serving" /\ UNCHANGED server
    /\ Settle(activeWorkers, "failed")
    /\ UNCHANGED <<inbox, made, stdout>>

-----------------------------------------------------------------------------
Next ==
    \/ \E r \in Requests : Request(r) \/ Disconnect(r) \/ Timeout(r) \/ Work(r) \/ Handle(r)
    \/ CloseServer \/ CloseCalculator

(* The loop runs timers and handles events; a thread or process makes      *)
(* events, but for one that hangs until it is stopped.  Requests,          *)
(* disconnects and a shutdown are never required.                          *)
Fairness == \A r \in Requests : WF_vars(Timeout(r)) /\ WF_vars(Work(r)) /\ WF_vars(Handle(r))

Spec == Init /\ [][Next]_vars /\ Fairness

-----------------------------------------------------------------------------
(* Properties                                                              *)

(* Whatever settles a request first, the others find nothing to do: no     *)
(* timer, no worker that close() would reject, and no thread or process    *)
(* that was not told to end.                                               *)
SettledLeavesNothing ==
    \A r \in settled :
        /\ r \notin timers \union activeWorkers
        /\ Len(work[r]) <= 1 /\ work[r] # <<"hang">>

(* A client gets an answer only of work that did what it should: a child   *)
(* that was killed, failed, or was not read to the end answers nothing.    *)
AnswersAreGenuine == \A r \in Requests : client[r] = "answered" => made[r] \in Genuine

(* What a worker answers is the result of the calculation, and that is     *)
(* right for every input it accepts: see EveryResultIsRight.               *)
CalculationIsRight == \A r \in Workers : client[r] = "answered" => EveryResultIsRight

(* When the server has closed, no timer and no active worker keeps the     *)
(* process alive, also of requests whose clients went away before.         *)
CloseLeavesNothing == server = "closed" => timers = {} /\ activeWorkers = {}

(* Every request ends for its client, and everything it set off is over in *)
(* the end, a worker that exits silently or a child that hangs included.   *)
EveryRequestEnds ==
    \A r \in Requests :
        client[r] = "open" ~> client[r] # "open" /\ r \in settled /\ work[r] = <<>>

=============================================================================
