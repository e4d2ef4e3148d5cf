--------------------------- MODULE EventPipeline ---------------------------
(***************************************************************************)
(* The path of an auction event through the service: the RabbitMQ queue,   *)
(* the consumer of each instance, the Redis script, the broadcast to the   *)
(* auction room, the history row and the acknowledgement.                  *)
(*                                                                         *)
(* Several instances consume one queue.  An instance keeps up to Prefetch  *)
(* messages unacknowledged and has all of their Redis commands in flight   *)
(* at once; the commands of one connection are executed, and their replies *)
(* arrive, in the order they were sent.  What happens after a reply (the   *)
(* broadcast, the observation, the ack) runs without yielding, so it is    *)
(* one step.  Between those steps an instance may crash, lose its channel  *)
(* or lose its Redis connection.                                           *)
(***************************************************************************)
EXTENDS LiveFeedState, Sequences, FiniteSets, Functions

CONSTANTS
    Instance,       \* instances of the service
    Message,        \* messages put on the queue; several may carry one event
    EventOf,        \* the event a message carries, None if its body is invalid
    Prefetch,       \* unacknowledged messages an instance may hold
    MaxFaults       \* bound on crashes and lost connections

ASSUME EventOfAssumption == EventOf \in [Message -> EventId \union {None}]
ASSUME BoundsAssumption == Prefetch \in Nat /\ MaxFaults \in Nat

VARIABLES
    broker,         \* where the broker has each message
    owner,          \* the instance a message was last delivered to
    commands,       \* per instance, accept commands Redis has not executed
    replies,        \* per instance, replies the handler has not resumed on
    orphans,        \* events of commands still under way on a lost connection
    feed,           \* per instance, the events it broadcast, in order
    inserts,        \* <<event, outcome>>: history inserts that were started
    history,        \* event -> the outcome of its history row
    faults          \* crashes and lost connections so far

pipelineVars == <<broker, owner, commands, replies, orphans, feed, inserts, history, faults>>
vars == <<redisVars, pipelineVars>>

Valid == {m \in Message : EventOf[m] # None}

(* A delivery being handled; once its channel is gone it is not live and   *)
(* neither its ack nor its nack reaches the broker.                        *)
Command == [msg : Valid, live : BOOLEAN]
Reply == [msg : Valid, live : BOOLEAN, status : AcceptanceStatus]
Outcome == {"applied", "stale", "ignored"}

ASSUME OutcomeAssumption == None \notin Outcome

TypeOK ==
    /\ StateTypeOK
    /\ broker \in [Message -> {"ready", "unacked", "acking", "rejecting", "acked", "dead"}]
    /\ owner \in [Message -> Instance \union {None}]
    /\ commands \in [Instance -> Seq(Command)]
    /\ replies \in [Instance -> Seq(Reply)]
    /\ orphans \subseteq EventId
    /\ feed \in [Instance -> Seq(EventId)]
    /\ inserts \subseteq EventId \X Outcome
    /\ history \in [EventId -> Outcome \union {None}]
    /\ faults \in Nat

(* The queue starts with every message there will be: a message published  *)
(* later is one that is delivered later.                                   *)
Init ==
    /\ StateInit
    /\ broker = [m \in Message |-> "ready"]
    /\ owner = [m \in Message |-> None]
    /\ commands = [i \in Instance |-> <<>>]
    /\ replies = [i \in Instance |-> <<>>]
    /\ orphans = {}
    /\ feed = [i \in Instance |-> <<>>]
    /\ inserts = {}
    /\ history = [e \in EventId |-> None]
    /\ faults = 0

-----------------------------------------------------------------------------
(* Delivery                                                                *)

Unsettled(i) ==
    {m \in Message : owner[m] = i /\ broker[m] \in {"unacked", "acking", "rejecting"}}

Receive(i, m) ==
    /\ broker[m] = "ready"
    /\ Cardinality(Unsettled(i)) < Prefetch
    /\ owner' = [owner EXCEPT ![m] = i]

(* Mistakes: the message is acknowledged before it is processed; a body    *)
(* that does not parse is handed to the processor.                         *)
DeliverAckingFirst(i, m) ==
    /\ Receive(i, m)
    /\ m \in Valid
    /\ broker' = [broker EXCEPT ![m] = "acking"]
    /\ commands' = [commands EXCEPT ![i] = Append(@, [msg |-> m, live |-> TRUE])]
    /\ UNCHANGED <<redisVars, replies, orphans, feed, inserts, history, faults>>

DeliverUnparsed(i, m) ==
    /\ Receive(i, m)
    /\ broker' = [broker EXCEPT ![m] = "unacked"]
    /\ commands' = [commands EXCEPT ![i] = Append(@, [msg |-> m, live |-> TRUE])]
    /\ UNCHANGED <<redisVars, replies, orphans, feed, inserts, history, faults>>

(* A body that parses: the processor sends the accept command. *)
Deliver(i, m) ==
    /\ Receive(i, m)
    /\ m \in Valid
    /\ broker' = [broker EXCEPT ![m] = "unacked"]
    /\ commands' = [commands EXCEPT ![i] = Append(@, [msg |-> m, live |-> TRUE])]
    /\ UNCHANGED <<redisVars, replies, orphans, feed, inserts, history, faults>>

(* A mistake: an invalid message is requeued. *)
RejectRequeueing(i, m) ==
    /\ Receive(i, m)
    /\ m \notin Valid
    /\ UNCHANGED <<redisVars, broker, commands, replies, orphans, feed, inserts, history, faults>>

(* A body that does not parse: nacked without requeue. *)
RejectInvalid(i, m) ==
    /\ Receive(i, m)
    /\ m \notin Valid
    /\ broker' = [broker EXCEPT ![m] = "rejecting"]
    /\ UNCHANGED <<redisVars, commands, replies, orphans, feed, inserts, history, faults>>

(* The ack or the reject reaches the broker. *)
Settle(m) ==
    /\ \/ broker[m] = "acking" /\ broker' = [broker EXCEPT ![m] = "acked"]
       \/ broker[m] = "rejecting" /\ broker' = [broker EXCEPT ![m] = "dead"]
    /\ UNCHANGED <<redisVars, owner, commands, replies, orphans, feed, inserts, history, faults>>

-----------------------------------------------------------------------------
(* Processing                                                              *)

(* Redis executes the oldest command of instance i. *)
Evaluate(i) ==
    /\ commands[i] # <<>>
    /\ LET c == Head(commands[i])
           e == EventOf[c.msg] IN
       /\ AcceptEvent(e)
       /\ replies' = [replies EXCEPT ![i] =
            Append(@, [msg |-> c.msg, live |-> c.live, status |-> Acceptance(e)])]
    /\ commands' = [commands EXCEPT ![i] = Tail(@)]
    /\ UNCHANGED <<broker, owner, orphans, feed, inserts, history, faults>>

(* The observation of the event starts a history insert that nobody awaits. *)
Record(e, outcome) == inserts' = inserts \union {<<e, outcome>>}

(* The database runs an insert that was started.  ON CONFLICT DO NOTHING:  *)
(* a second row of the event changes nothing, and neither does an insert   *)
(* that fails, which is only logged.                                       *)
Insert(e, outcome) ==
    /\ <<e, outcome>> \in inserts
    /\ history[e] = None
    /\ history' = [history EXCEPT ![e] = outcome]
    /\ UNCHANGED <<redisVars, broker, owner, commands, replies, orphans, feed, inserts, faults>>

(* A mistake: the ack goes to the current channel, not to the channel the  *)
(* message came from.                                                      *)
AckOnCurrentChannel(r) ==
    broker' = [broker EXCEPT ![r.msg] = "acking"]

Ack(r) ==
    broker' = IF r.live THEN [broker EXCEPT ![r.msg] = "acking"] ELSE broker

(* The handler resumes on an applied event. *)
Publish(i) ==
    /\ replies[i] # <<>>
    /\ LET r == Head(replies[i])
           e == EventOf[r.msg] IN
       /\ r.status \in Applied
       /\ feed' = [feed EXCEPT ![i] = Append(@, e)]
       /\ Record(e, "applied")
       /\ Ack(r)
    /\ replies' = [replies EXCEPT ![i] = Tail(@)]
    /\ UNCHANGED <<redisVars, owner, commands, orphans, history, faults>>

(* A mistake: a duplicate is recorded as applied. *)
IgnoredOutcomeApplied(status) == IF status = "stale" THEN "stale" ELSE "applied"

IgnoredOutcome(status) == IF status = "stale" THEN "stale" ELSE "ignored"

(* The handler resumes on a duplicate or stale event. *)
Ignore(i) ==
    /\ replies[i] # <<>>
    /\ LET r == Head(replies[i])
           e == EventOf[r.msg] IN
       /\ r.status \notin Applied
       /\ Record(e, IgnoredOutcome(r.status))
       /\ Ack(r)
    /\ replies' = [replies EXCEPT ![i] = Tail(@)]
    /\ UNCHANGED <<redisVars, owner, commands, orphans, feed, history, faults>>

-----------------------------------------------------------------------------
(* Failures                                                                *)

Fault == faults < MaxFaults /\ faults' = faults + 1

(* The broker requeues what an instance holds when its channel closes. *)
Requeued(i) ==
    [m \in Message |-> IF m \in Unsettled(i) THEN "ready" ELSE broker[m]]

SentEvents(i) == {EventOf[commands[i][n].msg] : n \in DOMAIN commands[i]}

Detached(s) == [n \in DOMAIN s |-> [s[n] EXCEPT !.live = FALSE]]

(* The RabbitMQ connection drops; handlers go on with a closed channel. *)
LoseChannel(i) ==
    /\ Fault
    /\ broker' = Requeued(i)
    /\ commands' = [commands EXCEPT ![i] = Detached(@)]
    /\ replies' = [replies EXCEPT ![i] = Detached(@)]
    /\ UNCHANGED <<redisVars, owner, orphans, feed, inserts, history>>

LiveMessages(s) == {s[n].msg : n \in {p \in DOMAIN s : s[p].live}}

(* The Redis connection drops; every pending eval rejects, its handler     *)
(* nacks with requeue, and a command already sent may still be executed.   *)
LoseRedis(i) ==
    /\ Fault
    /\ broker' = [m \in Message |->
         IF m \in LiveMessages(commands[i]) \union LiveMessages(replies[i])
           THEN "ready" ELSE broker[m]]
    /\ commands' = [commands EXCEPT ![i] = <<>>]
    /\ replies' = [replies EXCEPT ![i] = <<>>]
    /\ orphans' = orphans \union SentEvents(i)
    /\ UNCHANGED <<redisVars, owner, feed, inserts, history>>

(* The process dies, and a new one takes its place. *)
Crash(i) ==
    /\ Fault
    /\ broker' = Requeued(i)
    /\ commands' = [commands EXCEPT ![i] = <<>>]
    /\ replies' = [replies EXCEPT ![i] = <<>>]
    /\ orphans' = orphans \union SentEvents(i)
    /\ UNCHANGED <<redisVars, owner, feed, inserts, history>>

(* Redis executes a command whose connection is gone. *)
EvaluateOrphan(e) ==
    /\ e \in orphans
    /\ AcceptEvent(e)
    /\ orphans' = orphans \ {e}
    /\ UNCHANGED <<broker, owner, commands, replies, feed, inserts, history, faults>>

ExpireKey(e) ==
    /\ Expire(e)
    /\ UNCHANGED pipelineVars

-----------------------------------------------------------------------------
Next ==
    \/ \E i \in Instance, m \in Message : Deliver(i, m) \/ RejectInvalid(i, m)
    \/ \E m \in Message : Settle(m)
    \/ \E i \in Instance : Evaluate(i) \/ Publish(i) \/ Ignore(i)
    \/ \E i \in Instance : LoseChannel(i) \/ LoseRedis(i) \/ Crash(i)
    \/ \E e \in EventId : EvaluateOrphan(e) \/ ExpireKey(e)
    \/ \E e \in EventId, outcome \in Outcome : Insert(e, outcome)

Spec == Init /\ [][Next]_vars

(* Event loops turn, Redis answers and the broker delivers; faults, late   *)
(* commands and expiry are never required.                                 *)
Fairness ==
    /\ \A m \in Message : WF_vars(\E i \in Instance : Deliver(i, m) \/ RejectInvalid(i, m))
    /\ \A m \in Message : WF_vars(Settle(m))
    /\ \A i \in Instance : WF_vars(Evaluate(i)) /\ WF_vars(Publish(i) \/ Ignore(i))

FairSpec == Spec /\ Fairness

-----------------------------------------------------------------------------
(* Properties                                                              *)

Broadcast == UNION {Range(feed[i]) : i \in Instance}

(* No event reaches the clients twice, whichever instances received its    *)
(* copies and redeliveries: process() broadcasts only what the script did  *)
(* not call a duplicate.  It holds while processed keys do not expire.     *)
AtMostOnce ==
    \A i, j \in Instance :
        \A n \in 1 .. Len(feed[i]), p \in 1 .. Len(feed[j]) :
            feed[i][n] = feed[j][p] => i = j /\ n = p

InOrder(e, f) == KeyOf(e) = KeyOf(f) => VersionOf(e) <= VersionOf(f)

(* One instance never broadcasts an older version of an auction after a    *)
(* newer one, although its handlers run concurrently: handlers resume in   *)
(* the order in which Redis executed their commands.                       *)
FeedInOrder ==
    \A i \in Instance :
        \A n, p \in 1 .. Len(feed[i]) :
            n < p => InOrder(feed[i][n], feed[i][p])

(* What clients were told is already in the projection that a subscriber   *)
(* reads afterwards: the state is written before the broadcast, in a       *)
(* projection whose version agrees with the version key.                   *)
FeedIsBackedByProjection ==
    \A e \in Broadcast :
        LET p == projection[KeyOf(e)] IN
        /\ VersionOf(e) <= p.aggregateVersion
        /\ p.aggregateVersion = version[KeyOf(e)]
        /\ Envelope[e].type = "AuctionPurchased" => p.purchased /\ p.final # None

(* A message is acknowledged only after its event took effect or was       *)
(* overtaken, so that no failure of an instance loses the state it         *)
(* carries: handleMessage() acks after process() resolved.                 *)
AckedIsApplied ==
    \A m \in Valid :
        broker[m] \in {"acking", "acked"} =>
            VersionOf(EventOf[m]) <= version[KeyOf(EventOf[m])]

Pending(i) == Range(commands[i]) \union Range(replies[i])

(* A handler that can still settle its delivery is the only one that can,  *)
(* and the broker is waiting for it: nothing is acknowledged twice, and    *)
(* no redelivery is settled by the handler of an earlier delivery.         *)
SettledOnce ==
    \A i \in Instance : \A c \in Pending(i) :
        c.live =>
            /\ broker[c.msg] = "unacked" /\ owner[c.msg] = i
            /\ \A j \in Instance : \A d \in Pending(j) :
                  d.live /\ d.msg = c.msg => i = j /\ c = d

(* A history row that says applied belongs to a broadcast event, and one   *)
(* that says stale to an event nobody was sent.                            *)
HistoryIsTruthful ==
    \A e \in EventId :
        /\ history[e] = "applied" => e \in Broadcast
        /\ history[e] = "stale" /\ ~CanExpire => e \notin Broadcast

(* No step lowers the version of an auction, and none changes the outcome  *)
(* of an auction that was purchased.                                       *)
StateNeverRegresses ==
    [][\A k \in Key :
        /\ version[k] <= version'[k]
        /\ projection[k].purchased =>
              projection'[k].purchased /\ projection'[k].final = projection[k].final]_vars

-----------------------------------------------------------------------------
(* The invariant behind AtMostOnce and FeedInOrder: a broadcast is decided *)
(* by Redis and carried out later, so a reply that allows one counts as a  *)
(* broadcast already made.                                                 *)

Allowed(i, n) == replies[i][n].status \in Applied
ReplyEvent(i, n) == EventOf[replies[i][n].msg]

(* Every broadcast made or allowed is of an event Redis remembers, and no  *)
(* two of them are of the same event.                                      *)
OnceInv ==
    /\ \A i \in Instance : \A n \in 1 .. Len(feed[i]) : feed[i][n] \in processed
    /\ \A i \in Instance : \A n \in 1 .. Len(replies[i]) :
          Allowed(i, n) => ReplyEvent(i, n) \in processed
    /\ AtMostOnce
    /\ \A i, j \in Instance :
          \A n \in 1 .. Len(replies[i]), p \in 1 .. Len(feed[j]) :
            Allowed(i, n) => ReplyEvent(i, n) # feed[j][p]
    /\ \A i, j \in Instance :
          \A n \in 1 .. Len(replies[i]), p \in 1 .. Len(replies[j]) :
            Allowed(i, n) /\ Allowed(j, p) /\ ReplyEvent(i, n) = ReplyEvent(j, p)
              => i = j /\ n = p

(* The broadcasts an instance made, followed by those it is allowed, are   *)
(* in the order of their versions, and Redis is at least as far.           *)
OrderInv ==
    \A i \in Instance :
        /\ \A n \in 1 .. Len(feed[i]) : VersionOf(feed[i][n]) <= version[KeyOf(feed[i][n])]
        /\ \A n \in 1 .. Len(replies[i]) :
              Allowed(i, n) => VersionOf(ReplyEvent(i, n)) <= version[KeyOf(ReplyEvent(i, n))]
        /\ \A n, p \in 1 .. Len(feed[i]) : n < p => InOrder(feed[i][n], feed[i][p])
        /\ \A n \in 1 .. Len(feed[i]), p \in 1 .. Len(replies[i]) :
              Allowed(i, p) => InOrder(feed[i][n], ReplyEvent(i, p))
        /\ \A n, p \in 1 .. Len(replies[i]) :
              n < p /\ Allowed(i, n) /\ Allowed(i, p)
                => InOrder(ReplyEvent(i, n), ReplyEvent(i, p))

-----------------------------------------------------------------------------
Drained ==
    /\ \A m \in Message : broker[m] \in {"acked", "dead"}
    /\ \A i \in Instance : Pending(i) = {}

EventsOf(k) == {e \in Range(EventOf) \ {None} : KeyOf(e) = k}

(* The newest events of auction k: several, when one command of the        *)
(* Bidding Service raises several events at one version.                   *)
Latest(k) == {e \in EventsOf(k) : \A f \in EventsOf(k) : VersionOf(f) <= VersionOf(e)}

(* What the Bidding Service keeps to: the bids of one command agree, an    *)
(* auction is purchased with one outcome, and no cancellation follows.     *)
CoherentEnvelopes ==
    \A e, f \in EventId : KeyOf(e) = KeyOf(f) =>
        LET Types == <<Envelope[e].type, Envelope[f].type>> IN
        /\ Types = <<"BidAccepted", "BidAccepted">> /\ VersionOf(e) = VersionOf(f)
              => Envelope[e].value = Envelope[f].value
        /\ Types = <<"AuctionPurchased", "AuctionPurchased">>
              => Envelope[e].value = Envelope[f].value
        /\ Types = <<"AuctionPurchased", "AuctionCancelled">> => VersionOf(f) < VersionOf(e)

(* Once the queue is drained, every auction stands at its newest version   *)
(* and its projection holds what the siblings at that version say, in      *)
(* whatever order, and however often, they arrived.                        *)
Converges ==
    Drained => \A k \in Key : \A e \in Latest(k) :
        LET p == projection[k]
            siblings == {Envelope[f].type : f \in Latest(k)} IN
        /\ version[k] = VersionOf(e)
        /\ Envelope[e].type = "BidAccepted" => p.currentBid = Envelope[e].value
        /\ Envelope[e].type = "AuctionPurchased" =>
              p.purchased /\ p.final = Envelope[e].value
        /\ siblings \intersect {"AuctionClosed", "WinnerSelected", "AuctionPurchased"} # {}
              /\ "AuctionCancelled" \notin siblings => p.status = "Closed"

(* Without crashes and lost connections, every event is broadcast unless a *)
(* newer version of its auction got ahead of it.                           *)
NothingSkippedWithoutFaults ==
    Drained /\ faults = 0 =>
        \A m \in Valid :
            \/ EventOf[m] \in Broadcast
            \/ VersionOf(EventOf[m]) < version[KeyOf(EventOf[m])]

(* Every message is settled in the end: an invalid one in the dead letter  *)
(* queue, never requeued for ever, and a valid one acknowledged.           *)
EventuallySettled ==
    \A m \in Message : <>[](broker[m] = IF m \in Valid THEN "acked" ELSE "dead")

(* The pipeline implements the abstract feed, while processed keys do not  *)
(* expire.                                                                 *)
Feed == INSTANCE AuctionFeed

ImplementsFeed == Feed!FeedSpec

=============================================================================
