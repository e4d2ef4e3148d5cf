----------------------------- MODULE AdminFeed -----------------------------
(***************************************************************************)
(* What administrators see of the events that pass: the dashboard page,    *)
(* rendered by an instance from its own list of recent activity and kept   *)
(* up to date over a socket, and the charts of the portal, which follow    *)
(* the deltas of one tenant or of all.                                     *)
(*                                                                         *)
(* An instance that handled an event publishes to its own sockets and,     *)
(* over Redis, to those of every other instance; what it publishes reaches *)
(* another instance in the order it was published.  Which event is applied *)
(* is decided by the accept script of LiveFeedState on the envelopes that  *)
(* EventContract lets through; a page may search the rows of HistoryQuery. *)
(***************************************************************************)
EXTENDS LiveFeedState, EventContract, HistoryQuery, Functions

CONSTANTS
    Instance,
    Message,        \* messages on the queue
    Body,           \* message -> its JSON value
    Page,           \* browsers that open the dashboard
    Chart,          \* sockets of the portal
    Scope,          \* page or chart -> the tenant of its session, None for all
    Capacity,       \* of the lists of recent activity
    MaxCrashes      \* bound on crashes of instances

Watcher == Page \union Chart
IdOf(m) == Field(Body[m], "eventId")[2]

(* The messages that are accepted as events. *)
Events == {m \in Message : IsLiveFeedEnvelope(Body[m])}

ASSUME WatcherAssumption == Page \intersect Chart = {} /\ Scope \in [Watcher -> Tenant \union {None}]
ASSUME CapacityAssumption == Capacity \in Nat \ {0} /\ MaxCrashes \in Nat
ASSUME BodyAssumption ==
    /\ Body \in [Message -> Bodies]
    /\ \A m \in Events :
         IdOf(m) \in EventId /\ Envelope[IdOf(m)].type = Field(Body[m], "eventType")[2]
ASSUME InstanceAssumption == Instance \intersect {"ready", "acked", "dead", None} = {}

VARIABLES
    broker,     \* where each message is
    pending,    \* instance -> replies of Redis its handlers have not resumed on
    recent,     \* instance -> RecentActivityStore, newest first
    wire,       \* <<i, j>> -> records whose packets i published and j has yet to receive
    socket,     \* watcher -> the instance it is connected to, None if to none
    joined,     \* watchers that are in the room of their session
    shown,      \* page -> its list of recent activity
    stage,      \* page -> closed, rendered, or mounted in the browser
    crashes,
    log,        \* instance -> all it recorded since it started (history)
    since,      \* watcher -> records published, or on their way, since it joined (history)
    deltas      \* chart -> event -> deltas received since it joined (history)

feedVars == <<broker, pending, recent, log>>
watcherVars == <<socket, joined, stage>>
vars == <<redisVars, feedVars, wire, watcherVars, shown, crashes, since, deltas>>

Record == [event : EventId, outcome : {"applied", "stale", "ignored"}]

TypeOK ==
    /\ StateTypeOK
    /\ broker \in [Message -> {"ready", "acked", "dead"} \union Instance]
    /\ pending \in [Instance -> Seq(Events \X AcceptanceStatus)]
    /\ \A i \in Instance : \A n \in DOMAIN pending[i] : broker[pending[i][n][1]] = i
    /\ recent \in [Instance -> Seq(Record)]
    /\ \A i \in Instance : Len(recent[i]) <= Capacity
    /\ wire \in [Instance \X Instance -> Seq(Record)]
    /\ joined \subseteq Watcher
    /\ socket \in [Watcher -> Instance \union {None}]
    /\ \A w \in joined : socket[w] # None
    /\ shown \in [Page -> Seq(Record)]
    /\ \A p \in Page : Len(shown[p]) <= Capacity
    /\ stage \in [Page -> {"closed", "rendered", "mounted"}]
    /\ \A p \in Page : socket[p] # None => stage[p] = "mounted"
    /\ crashes \in 0 .. MaxCrashes
    /\ log \in [Instance -> Seq(Record)]
    /\ since \in [Watcher -> SUBSET Record]
    /\ deltas \in [Chart -> [EventId -> Nat]]

NoDeltas == [e \in EventId |-> 0]

Init ==
    /\ StateInit
    /\ broker = [m \in Message |-> "ready"]
    /\ pending = [i \in Instance |-> <<>>]
    /\ recent = [i \in Instance |-> <<>>]
    /\ wire = [c \in Instance \X Instance |-> <<>>]
    /\ socket = [w \in Watcher |-> None]
    /\ joined = {}
    /\ stage = [p \in Page |-> "closed"]
    /\ shown = [p \in Page |-> <<>>]
    /\ crashes = 0
    /\ log = [i \in Instance |-> <<>>]
    /\ since = [w \in Watcher |-> {}]
    /\ deltas = [c \in Chart |-> NoDeltas]

-----------------------------------------------------------------------------
(* Publishing                                                              *)

(* A mistake: the oldest item stays in a full list. *)
Untruncated(list) == list

Truncate(list) == SubSeq(list, 1, IF Len(list) < Capacity THEN Len(list) ELSE Capacity)

(* The positions in S from the first to the last. *)
Ascending(S) ==
    CHOOSE f \in Surjection(1 .. Cardinality(S), S) : \A m, n \in DOMAIN f : m < n => f[m] < f[n]

(* The list without its items about event e. *)
Without(list, e) ==
    LET kept == Ascending({n \in DOMAIN list : list[n].event # e})
    IN [n \in DOMAIN kept |-> list[kept[n]]]

(* A mistake: the list is cut before the new item is put in front. *)
MergeOntoFull(list, record) == Truncate(Append(Without(list, record.event), record))

MergeRecentActivity(list, record) == Truncate(<<record>> \o Without(list, record.event))

ChartTypes == {"BidAccepted", "AuctionPurchased"}

(* A mistake: whatever is handled makes a delta. *)
RoomsOfAll(record, kind) ==
    IF kind = "activity" THEN {None} ELSE {Envelope[record.event].tenant, None}

(* The rooms that are told of a record, None being that of all tenants.    *)
(* Every outcome is activity; an applied bid or purchase makes a delta.    *)
Rooms(record, kind) ==
    IF kind = "activity" THEN {None}
    ELSE IF record.outcome = "applied" /\ Envelope[record.event].type \in ChartTypes
      THEN {Envelope[record.event].tenant, None}
    ELSE {}

(* Watcher w is in a room of instance i that is told of the record. *)
Hears(w, i, record, kind) ==
    w \in joined /\ socket[w] = i /\ Scope[w] \in Rooms(record, kind)

(* The sockets of instance i receive the packets of a record.  The page    *)
(* handles only activity, the chart only deltas.                           *)
Receive(i, record) ==
    /\ shown' = [p \in Page |->
         IF Hears(p, i, record, "activity") THEN MergeRecentActivity(shown[p], record) ELSE shown[p]]
    /\ deltas' = [c \in Chart |->
         IF Hears(c, i, record, "delta") THEN [deltas[c] EXCEPT ![record.event] = @ + 1] ELSE deltas[c]]

(* Instance i is given a message: a body that is not an event is dead, the *)
(* command of another is executed by Redis.                                *)
Decide(i, m) ==
    /\ broker[m] = "ready"
    /\ \/ /\ m \in Events
          /\ AcceptEvent(IdOf(m))
          /\ broker' = [broker EXCEPT ![m] = i]
          /\ pending' = [pending EXCEPT ![i] = Append(@, <<m, Acceptance(IdOf(m))>>)]
       \/ /\ m \notin Events
          /\ broker' = [broker EXCEPT ![m] = "dead"]
          /\ UNCHANGED <<redisVars, pending>>
    /\ UNCHANGED <<recent, log, wire, watcherVars, shown, crashes, since, deltas>>

OutcomeOf(status) ==
    IF status \in Applied THEN "applied" ELSE IF status = "stale" THEN "stale" ELSE "ignored"

(* The handler resumes: deltas, the list of recent activity, the activity  *)
(* update and the ack are one turn of the event loop.                      *)
Observe(i) ==
    /\ pending[i] # <<>>
    /\ LET m == Head(pending[i])[1]
           record == [event |-> IdOf(m), outcome |-> OutcomeOf(Head(pending[i])[2])]
       IN /\ recent' = [recent EXCEPT ![i] = Truncate(<<record>> \o @)]
          /\ log' = [log EXCEPT ![i] = Append(@, record)]
          /\ wire' = [c \in Instance \X Instance |->
               IF c[1] = i /\ c[2] # i THEN Append(wire[c], record) ELSE wire[c]]
          /\ Receive(i, record)
          /\ since' = [w \in Watcher |-> IF w \in joined THEN since[w] \union {record} ELSE {}]
          /\ broker' = [broker EXCEPT ![m] = "acked"]
    /\ pending' = [pending EXCEPT ![i] = Tail(@)]
    /\ UNCHANGED <<redisVars, watcherVars, crashes>>

(* Instance j receives what instance i published next; the packets of one  *)
(* turn follow each other and are received together.                       *)
Relay(i, j) ==
    /\ wire[<<i, j>>] # <<>>
    /\ Receive(j, Head(wire[<<i, j>>]))
    /\ wire' = [wire EXCEPT ![<<i, j>>] = Tail(@)]
    /\ UNCHANGED <<redisVars, feedVars, watcherVars, crashes, since>>

-----------------------------------------------------------------------------
(* Administrators                                                          *)

(* The page is rendered by instance i from a copy of its list. *)
Render(p, i) ==
    /\ stage[p] = "closed"
    /\ stage' = [stage EXCEPT ![p] = "rendered"]
    /\ shown' = [shown EXCEPT ![p] = recent[i]]
    /\ UNCHANGED <<redisVars, feedVars, wire, socket, joined, crashes, since, deltas>>

Arriving(i) == UNION {Range(wire[c]) : c \in Instance \X {i}}

(* The server puts the socket in the room of its session. *)
Join(w, i) ==
    /\ joined' = joined \union {w}
    /\ socket' = [socket EXCEPT ![w] = i]
    /\ since' = [since EXCEPT ![w] = Arriving(i)]

(* The watchers in left are in no room any more. *)
Leave(left) ==
    /\ joined' = joined \ left
    /\ since' = [w \in Watcher |-> IF w \in left THEN {} ELSE since[w]]
    /\ deltas' = [c \in Chart |-> IF c \in left THEN NoDeltas ELSE deltas[c]]

(* The page comes to life, connects to any instance and asks to join, once. *)
(* A session that has expired meanwhile is refused: the page disconnects.  *)
Subscribe(p, i) ==
    /\ stage[p] = "rendered"
    /\ stage' = [stage EXCEPT ![p] = "mounted"]
    /\ Join(p, i) \/ UNCHANGED <<joined, socket, since>>
    /\ UNCHANGED <<redisVars, feedVars, wire, shown, crashes, deltas>>

(* A chart asks to join; it does so again after a lost connection. *)
SubscribeChart(c, i) ==
    /\ c \notin joined /\ socket[c] \in {i, None}
    /\ Join(c, i)
    /\ UNCHANGED <<redisVars, feedVars, wire, shown, stage, crashes, deltas>>

Unsubscribe(c) ==
    /\ c \in joined
    /\ Leave({c})
    /\ UNCHANGED <<redisVars, feedVars, wire, socket, stage, shown, crashes>>

(* A connection is lost.  The client of a page reconnects by itself, but   *)
(* the request to join is not repeated: it hears nothing any more, and is  *)
(* taken for not connected.                                                *)
Disconnect(w) ==
    /\ socket[w] # None
    /\ socket' = [socket EXCEPT ![w] = None]
    /\ Leave({w})
    /\ UNCHANGED <<redisVars, feedVars, wire, stage, shown, crashes>>

(* An instance dies and a new one takes its place: its messages go back to *)
(* the queue, its list and its sockets are gone, packets on their way too. *)
Crash(i) ==
    /\ crashes < MaxCrashes
    /\ crashes' = crashes + 1
    /\ broker' = [m \in Message |-> IF broker[m] = i THEN "ready" ELSE broker[m]]
    /\ pending' = [pending EXCEPT ![i] = <<>>]
    /\ recent' = [recent EXCEPT ![i] = <<>>]
    /\ log' = [log EXCEPT ![i] = <<>>]
    /\ wire' = [c \in Instance \X Instance |-> IF i \in {c[1], c[2]} THEN <<>> ELSE wire[c]]
    /\ socket' = [w \in Watcher |-> IF socket[w] = i THEN None ELSE socket[w]]
    /\ Leave({w \in Watcher : socket[w] = i})
    /\ UNCHANGED <<redisVars, stage, shown>>

-----------------------------------------------------------------------------
Next ==
    \/ \E i \in Instance : Observe(i) \/ Crash(i)
    \/ \E i \in Instance, m \in Message : Decide(i, m)
    \/ \E i, j \in Instance : Relay(i, j)
    \/ \E p \in Page, i \in Instance : Render(p, i) \/ Subscribe(p, i)
    \/ \E c \in Chart, i \in Instance : SubscribeChart(c, i)
    \/ \E c \in Chart : Unsubscribe(c)
    \/ \E w \in Watcher : Disconnect(w)

Spec == Init /\ [][Next]_vars

-----------------------------------------------------------------------------
(* Properties                                                              *)

Delivered == \A c \in DOMAIN wire : wire[c] = <<>>

(* The messages that are events, and sound. *)
SoundEvents == {m \in Events : IsSound(Body[m])}

(* No message changed the state in Redis, or reached a list or a chart,    *)
(* unless its body is an event and sound: the room, the projection and the *)
(* list are told of one tenant, auction, version and amount.  The same is  *)
(* so of any body that would be accepted (validateLiveFeedEnvelope).       *)
ContractIsRight ==
    /\ \A m \in Message : broker[m] \notin {"ready", "dead"} => m \in SoundEvents
    /\ (\E m \in Message : broker[m] \notin {"ready", "dead"}) => BodiesAreSound

(* A page may search the history; what it is answered is right for every   *)
(* parameter that is accepted, at the bounds of times and limits too.      *)
HistoryIsRight == (\E p \in Page : stage[p] = "mounted") => EveryAnswerIsRight

Promised(w, kind) ==
    {r.event : r \in {s \in since[w] : Scope[w] \in Rooms(s, kind)}}

(* The list an instance renders pages from holds its newest records. *)
StoreHoldsNewest ==
    \A i \in Instance :
        /\ Len(recent[i]) = IF Len(log[i]) < Capacity THEN Len(log[i]) ELSE Capacity
        /\ \A n \in DOMAIN recent[i] : recent[i][n] = log[i][Len(log[i]) + 1 - n]

(* When everything was delivered, a page in its room shows every event that *)
(* reached the room since, from whichever instance, and once: such an event *)
(* gives way only to others of that kind, in a full list.                  *)
NewestAreShown ==
    StoreHoldsNewest /\ (Delivered /\ crashes = 0 =>
        \A p \in Page \intersect joined :
            LET list == {shown[p][n].event : n \in DOMAIN shown[p]}
                promised == Promised(p, "activity")
            IN /\ \/ promised \subseteq list
                  \/ Len(shown[p]) = Capacity /\ list \subseteq promised
               /\ \A m, n \in DOMAIN shown[p] :
                    shown[p][m].event = shown[p][n].event /\ shown[p][m].event \in promised
                      => m = n)

(* From joining to leaving, a chart counts an event at most once, although *)
(* its copies are handled by several instances that may crash, and once if *)
(* it was applied meanwhile; of another tenant than its session's nothing. *)
(* One that leaves and joins another instance may be told again, and so    *)
(* would be one after the processed key expired, which it does not here.   *)
DeltasOnceInScope ==
    \A c \in Chart, e \in EventId :
        /\ deltas[c][e] <= 1
        /\ deltas[c][e] = 1 =>
             /\ Scope[c] \in {None, Envelope[e].tenant}
             /\ Envelope[e].type \in ChartTypes
             /\ VersionOf(e) <= version[KeyOf(e)]
        /\ Delivered /\ crashes = 0 /\ c \in joined /\ e \in Promised(c, "delta")
             => deltas[c][e] = 1

=============================================================================
