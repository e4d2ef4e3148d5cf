-------------------------- MODULE TenantAdmission --------------------------
(***************************************************************************)
(* Who may listen to an auction room, and how the rooms of a tenant are    *)
(* emptied when the tenant is disabled.                                    *)
(*                                                                         *)
(* Three parties act: the Bidding Service, which decides on every          *)
(* subscription and publishes tenant status events; the instances of the   *)
(* live feed, which process those events and hold the rooms of their own   *)
(* sockets; and the sockets, which subscribe, unsubscribe and disconnect.  *)
(* A subscription waits for Bidding and for Redis before it joins, and an  *)
(* eviction may run on its instance meanwhile.                             *)
(***************************************************************************)
EXTENDS Naturals, FiniteSets

CONSTANTS
    Tenant, Auction, Instance, Socket,
    StatusEvent,    \* ids of the tenant status events
    Status,         \* event -> [tenant, version, status]
    TenantOf,       \* auction -> its tenant
    InstanceOf,     \* socket -> the instance it is connected to
    NoInstance,
    MaxFails,       \* bound on evictions that throw
    MaxFaults       \* bound on crashes and lost Redis replies

StatusName == {"Active", "Suspended", "Disabled"}

ASSUME StatusAssumption ==
    /\ Status \in [StatusEvent -> [tenant : Tenant, version : Nat \ {0}, status : StatusName]]
    /\ \A e, f \in StatusEvent :
         Status[e].tenant = Status[f].tenant /\ Status[e].version = Status[f].version => e = f
ASSUME PlacementAssumption ==
    TenantOf \in [Auction -> Tenant] /\ InstanceOf \in [Socket -> Instance]
ASSUME BoundsAssumption == MaxFails \in Nat /\ MaxFaults \in Nat

VARIABLES
    issued,         \* Bidding: tenant -> the version of its current status
    message,        \* status event -> where its message is
    handler,        \* status event -> the instance handling it
    tenantVersion,  \* Redis: tenant -> tenant status version key, 0 if absent
    reserved,       \* Redis: events whose event key exists
    applied,        \* events processed to the end as status-applied
    scans,          \* <<instance, tenant>> eviction events under way
    leaves,         \* <<instance, auction>> leave requests under way
    projected,      \* auctions that have a projection
    subscription,   \* <<socket, auction>> -> the pending subscribe request
    leaving,        \* <<socket, auction>> with a pending unsubscribe request
    room,           \* members of the auction rooms
    connected,      \* sockets that are connected
    fails, faults

redisVars == <<tenantVersion, reserved>>
noticeVars == <<scans, leaves>>
clientVars == <<subscription, leaving, room, connected>>
vars == <<issued, message, handler, redisVars, applied, noticeVars, projected,
          clientVars, fails, faults>>

(* at is the version of the tenant's status when Bidding decided; late     *)
(* says that its instance was scanned between that decision and the join.  *)
Stage == {"idle", "authorizing", "allowed"}
Request == [stage : Stage, at : Nat, late : BOOLEAN]
Idle == [stage |-> "idle", at |-> 0, late |-> FALSE]
Member == [socket : Socket, auction : Auction, at : Nat, late : BOOLEAN]

Place == {"unpublished", "ready", "accepting", "accepted", "ignored", "releasing", "acked"}

TypeOK ==
    /\ issued \in [Tenant -> Nat]
    /\ message \in [StatusEvent -> Place]
    /\ handler \in [StatusEvent -> Instance \union {NoInstance}]
    /\ \A e \in StatusEvent :
         message[e] \notin {"unpublished", "ready"} => handler[e] \in Instance
    /\ tenantVersion \in [Tenant -> Nat]
    /\ reserved \subseteq StatusEvent
    /\ applied \subseteq StatusEvent
    /\ scans \subseteq Instance \X Tenant
    /\ leaves \subseteq Instance \X Auction
    /\ projected \subseteq Auction
    /\ subscription \in [Socket \X Auction -> Request]
    /\ leaving \subseteq Socket \X Auction
    /\ room \subseteq Member
    /\ connected \subseteq Socket
    /\ fails \in Nat /\ faults \in Nat

Init ==
    /\ issued = [t \in Tenant |-> 0]
    /\ message = [e \in StatusEvent |-> "unpublished"]
    /\ handler = [e \in StatusEvent |-> NoInstance]
    /\ tenantVersion = [t \in Tenant |-> 0]
    /\ reserved = {} /\ applied = {} /\ scans = {} /\ leaves = {} /\ projected = {}
    /\ subscription = [p \in Socket \X Auction |-> Idle]
    /\ leaving = {} /\ room = {}
    /\ connected = Socket
    /\ fails = 0 /\ faults = 0

-----------------------------------------------------------------------------
(* The Bidding Service                                                     *)

StatusAt(t, v) ==
    IF \E e \in StatusEvent : Status[e].tenant = t /\ Status[e].version = v
      THEN (CHOOSE s \in StatusName : \E e \in StatusEvent :
              Status[e] = [tenant |-> t, version |-> v, status |-> s])
      ELSE "Active"

(* The tenant's status changes and the event is published. *)
Issue(e) ==
    LET t == Status[e].tenant IN
    /\ Status[e].version = issued[t] + 1
    /\ issued' = [issued EXCEPT ![t] = @ + 1]
    /\ message' = [message EXCEPT ![e] = "ready"]
    /\ UNCHANGED <<handler, redisVars, applied, noticeVars, projected, clientVars, fails, faults>>

(* An auction event of this auction is accepted by some instance. *)
Project(a) ==
    /\ a \notin projected
    /\ projected' = projected \union {a}
    /\ UNCHANGED <<issued, message, handler, redisVars, applied, noticeVars, clientVars,
                   fails, faults>>

-----------------------------------------------------------------------------
(* Tenant status events                                                    *)

(* A mistake: the handler is not recorded with the message. *)
DeliverToNobody(i, e) ==
    /\ message[e] = "ready"
    /\ message' = [message EXCEPT ![e] = "accepting"]
    /\ UNCHANGED <<issued, handler, redisVars, applied, noticeVars, projected, clientVars,
                   fails, faults>>

Deliver(i, e) ==
    /\ message[e] = "ready"
    /\ message' = [message EXCEPT ![e] = "accepting"]
    /\ handler' = [handler EXCEPT ![e] = i]
    /\ UNCHANGED <<issued, redisVars, applied, noticeVars, projected, clientVars, fails, faults>>

(* A mistake: the script compares nothing but the event id. *)
IsNewOnly(e) == e \notin reserved

IsNewer(e) ==
    /\ e \notin reserved
    /\ tenantVersion[Status[e].tenant] # 0 =>
         Status[e].version > tenantVersion[Status[e].tenant]

(* The accept script runs in Redis and its reply reaches the handler. *)
Accept(e) ==
    /\ message[e] = "accepting"
    /\ \/ /\ IsNewer(e)
          /\ tenantVersion' = [tenantVersion EXCEPT ![Status[e].tenant] = Status[e].version]
          /\ reserved' = reserved \union {e}
          /\ message' = [message EXCEPT ![e] = "accepted"]
       \/ /\ ~IsNewer(e)
          /\ message' = [message EXCEPT ![e] = "ignored"]
          /\ UNCHANGED redisVars
    /\ UNCHANGED <<issued, handler, applied, noticeVars, projected, clientVars, fails, faults>>

(* The handler of a duplicate or stale event returns and acks. *)
Ignore(e) ==
    /\ message[e] = "ignored"
    /\ message' = [message EXCEPT ![e] = "acked"]
    /\ UNCHANGED <<issued, handler, redisVars, applied, noticeVars, projected, clientVars,
                   fails, faults>>

(* A status other than Disabled needs no eviction. *)
Apply(e) ==
    /\ message[e] = "accepted"
    /\ Status[e].status # "Disabled"
    /\ applied' = applied \union {e}
    /\ message' = [message EXCEPT ![e] = "acked"]
    /\ UNCHANGED <<issued, handler, redisVars, noticeVars, projected, clientVars, fails, faults>>

-----------------------------------------------------------------------------
(* Eviction                                                                *)

LocalTo(i, a) == {r \in room : InstanceOf[r.socket] = i /\ r.auction = a}

RoomsOf(i, t) == {a \in Auction : TenantOf[a] = t /\ LocalTo(i, a) # {}}

(* A mistake: only the sockets of this instance are asked to leave. *)
ScanWithoutNotice(i, t, others) ==
    /\ UNCHANGED room
    /\ leaves' = leaves \union ({i} \X RoomsOf(i, t))
    /\ scans' = scans \ {<<i, t>>}
    /\ subscription' = subscription

(* evictLocalTenantRooms: for every room of the tenant that has a member   *)
(* on i, socketsLeave publishes a request to leave it, and does no more:   *)
(* the sockets of i leave when i receives it like the others.  A request   *)
(* that Bidding has allowed but that has not joined is not seen.           *)
Scan(i, t, others) ==
    /\ UNCHANGED room
    /\ leaves' = leaves \union (Instance \X RoomsOf(i, t))
    /\ scans' = (scans \ {<<i, t>>}) \union (others \X {t})
    /\ subscription' =
         [p \in Socket \X Auction |->
            IF /\ subscription[p].stage = "allowed"
               /\ InstanceOf[p[1]] = i /\ TenantOf[p[2]] = t
              THEN [subscription[p] EXCEPT !.late = TRUE]
              ELSE subscription[p]]

(* A Disabled event: the handler's instance evicts, tells the others and   *)
(* acks.  Those steps only yield to microtasks.                            *)
Evict(e) ==
    /\ message[e] = "accepted"
    /\ Status[e].status = "Disabled"
    /\ Scan(handler[e], Status[e].tenant, Instance \ {handler[e]})
    /\ applied' = applied \union {e}
    /\ message' = [message EXCEPT ![e] = "acked"]
    /\ UNCHANGED <<issued, handler, redisVars, projected, leaving, connected, fails, faults>>

(* The eviction throws, before or after the local rooms were scanned. *)
EvictFails(e) ==
    /\ message[e] = "accepted"
    /\ Status[e].status = "Disabled"
    /\ fails < MaxFails
    /\ fails' = fails + 1
    /\ \/ Scan(handler[e], Status[e].tenant, {})
       \/ UNCHANGED <<room, leaves, scans, subscription>>
    /\ message' = [message EXCEPT ![e] = "releasing"]
    /\ UNCHANGED <<issued, handler, redisVars, applied, projected, leaving, connected, faults>>

(* A mistake: the reservation is kept when the eviction failed. *)
ReleaseWithoutRollback(e) ==
    /\ message[e] = "releasing"
    /\ message' = [message EXCEPT ![e] = "ready"]
    /\ UNCHANGED <<issued, handler, redisVars, applied, noticeVars, projected, clientVars,
                   fails, faults>>

(* The rollback script, then the nack with requeue. *)
Release(e) ==
    /\ message[e] = "releasing"
    /\ IF e \in reserved /\ tenantVersion[Status[e].tenant] = Status[e].version
         THEN /\ reserved' = reserved \ {e}
              /\ tenantVersion' = [tenantVersion EXCEPT ![Status[e].tenant] = 0]
         ELSE UNCHANGED redisVars
    /\ message' = [message EXCEPT ![e] = "ready"]
    /\ UNCHANGED <<issued, handler, applied, noticeVars, projected, clientVars, fails, faults>>

(* Another instance receives the eviction event. *)
ReceiveScan(i, t) ==
    /\ <<i, t>> \in scans
    /\ Scan(i, t, {})
    /\ UNCHANGED <<issued, message, handler, redisVars, applied, projected, leaving, connected,
                   fails, faults>>

(* An instance receives the request to empty one room, the one that        *)
(* published it included; requests for the same room are one meanwhile.    *)
ReceiveLeave(i, a) ==
    /\ <<i, a>> \in leaves
    /\ leaves' = leaves \ {<<i, a>>}
    /\ room' = room \ LocalTo(i, a)
    /\ UNCHANGED <<issued, message, handler, redisVars, applied, scans, projected, subscription,
                   leaving, connected, fails, faults>>

-----------------------------------------------------------------------------
(* Subscriptions                                                           *)

SetRequest(s, a, request) == subscription' = [subscription EXCEPT ![<<s, a>>] = request]

(* A subscribe request whose payload parses is sent on to Bidding. *)
Subscribe(s, a) ==
    /\ s \in connected
    /\ subscription[<<s, a>>].stage = "idle"
    /\ SetRequest(s, a, [Idle EXCEPT !.stage = "authorizing"])
    /\ UNCHANGED <<issued, message, handler, redisVars, applied, noticeVars, projected, leaving,
                   room, connected, fails, faults>>

(* Bidding exposes no auction of a disabled tenant. *)
MayExpose(a) == StatusAt(TenantOf[a], issued[TenantOf[a]]) # "Disabled"

(* A mistake: an unavailable Bidding Service counts as a permission. *)
DecideFailingOpen(s, a) ==
    /\ subscription[<<s, a>>].stage = "authorizing"
    /\ SetRequest(s, a, [stage |-> "allowed", at |-> issued[TenantOf[a]], late |-> FALSE])
    /\ UNCHANGED <<issued, message, handler, redisVars, applied, noticeVars, projected, leaving,
                   room, connected, fails, faults>>

(* The decision is taken at Bidding; a denial, an error or a timeout ends  *)
(* the request.                                                            *)
Decide(s, a) ==
    /\ subscription[<<s, a>>].stage = "authorizing"
    /\ \/ /\ MayExpose(a)
          /\ SetRequest(s, a, [stage |-> "allowed", at |-> issued[TenantOf[a]], late |-> FALSE])
       \/ SetRequest(s, a, Idle)
    /\ UNCHANGED <<issued, message, handler, redisVars, applied, noticeVars, projected, leaving,
                   room, connected, fails, faults>>

(* The projection is read and the socket joins; without a projection, with *)
(* another tenant's id in the request, or after a disconnect, it does not. *)
Join(s, a) ==
    LET request == subscription[<<s, a>>] IN
    /\ request.stage = "allowed"
    /\ SetRequest(s, a, Idle)
    /\ \/ /\ a \in projected /\ s \in connected
          /\ room' = {r \in room : ~(r.socket = s /\ r.auction = a)} \union
               {[socket |-> s, auction |-> a, at |-> request.at, late |-> request.late]}
       \/ UNCHANGED room
    /\ UNCHANGED <<issued, message, handler, redisVars, applied, noticeVars, projected, leaving,
                   connected, fails, faults>>

Unsubscribe(s, a) ==
    /\ s \in connected
    /\ <<s, a>> \notin leaving
    /\ leaving' = leaving \union {<<s, a>>}
    /\ UNCHANGED <<issued, message, handler, redisVars, applied, noticeVars, projected,
                   subscription, room, connected, fails, faults>>

(* The room is resolved and left; it may not resolve, as for Join. *)
Leave(s, a) ==
    /\ <<s, a>> \in leaving
    /\ leaving' = leaving \ {<<s, a>>}
    /\ \/ room' = {r \in room : ~(r.socket = s /\ r.auction = a)}
       \/ UNCHANGED room
    /\ UNCHANGED <<issued, message, handler, redisVars, applied, noticeVars, projected,
                   subscription, connected, fails, faults>>

(* A socket leaves its rooms when it disconnects; it does not come back. *)
Disconnect(s) ==
    /\ s \in connected
    /\ connected' = connected \ {s}
    /\ room' = {r \in room : r.socket # s}
    /\ UNCHANGED <<issued, message, handler, redisVars, applied, noticeVars, projected,
                   subscription, leaving, fails, faults>>

-----------------------------------------------------------------------------
(* Failures                                                                *)

Fault == faults < MaxFaults /\ faults' = faults + 1

(* Redis or the reply is lost while the handler of e waits for the accept  *)
(* or the rollback script: the message is nacked with requeue, whether the *)
(* script ran ("accepted") or not ("accepting").                           *)
LoseReply(e) ==
    /\ Fault
    /\ message[e] \in {"accepting", "accepted", "ignored", "releasing"}
    /\ message' = [message EXCEPT ![e] = "ready"]
    /\ UNCHANGED <<issued, handler, redisVars, applied, noticeVars, projected, clientVars, fails>>

(* An instance dies: its messages are requeued, its sockets are gone and   *)
(* the notices sent to it are lost.                                        *)
Crash(i) ==
    /\ Fault
    /\ message' = [e \in StatusEvent |->
         IF handler[e] = i /\ message[e] \in {"accepting", "accepted", "ignored", "releasing"}
           THEN "ready" ELSE message[e]]
    /\ connected' = {s \in connected : InstanceOf[s] # i}
    /\ room' = {r \in room : InstanceOf[r.socket] # i}
    /\ subscription' = [p \in Socket \X Auction |->
         IF InstanceOf[p[1]] = i THEN Idle ELSE subscription[p]]
    /\ leaving' = {p \in leaving : InstanceOf[p[1]] # i}
    /\ scans' = {n \in scans : n[1] # i}
    /\ leaves' = {n \in leaves : n[1] # i}
    /\ UNCHANGED <<issued, handler, redisVars, applied, projected, fails>>

(* The pub/sub channel between the instances drops a notice. *)
LoseNotice(i) ==
    /\ Fault
    /\ \/ \E t \in Tenant : <<i, t>> \in scans /\ scans' = scans \ {<<i, t>>} /\ leaves' = leaves
       \/ \E a \in Auction : <<i, a>> \in leaves /\ leaves' = leaves \ {<<i, a>>} /\ scans' = scans
    /\ UNCHANGED <<issued, message, handler, redisVars, applied, projected, clientVars, fails>>

-----------------------------------------------------------------------------
Process(e) == Accept(e) \/ Ignore(e) \/ Apply(e) \/ Evict(e) \/ Release(e)

Next ==
    \/ \E e \in StatusEvent : Issue(e) \/ Process(e) \/ EvictFails(e) \/ LoseReply(e)
    \/ \E i \in Instance, e \in StatusEvent : Deliver(i, e)
    \/ \E a \in Auction : Project(a)
    \/ \E i \in Instance, t \in Tenant : ReceiveScan(i, t)
    \/ \E i \in Instance, a \in Auction : ReceiveLeave(i, a)
    \/ \E s \in Socket, a \in Auction :
         Subscribe(s, a) \/ Decide(s, a) \/ Join(s, a) \/ Unsubscribe(s, a) \/ Leave(s, a)
    \/ \E s \in Socket : Disconnect(s)
    \/ \E i \in Instance : Crash(i) \/ LoseNotice(i)

Spec == Init /\ [][Next]_vars

(* The broker delivers, Redis answers and handlers go on; status changes,  *)
(* subscriptions and failures are never required.                          *)
Fairness ==
    \A e \in StatusEvent :
        WF_vars(\E i \in Instance : Deliver(i, e)) /\ WF_vars(Process(e))

FairSpec == Spec /\ Fairness

-----------------------------------------------------------------------------
(* Properties                                                              *)

(* Nobody sits in a room without a decision of Bidding, taken for this     *)
(* very request while the tenant was not disabled: an unreachable Bidding  *)
(* Service, an old answer or a disconnect never admits a socket.           *)
MembersWereAdmitted ==
    \A r \in room :
        /\ r.socket \in connected
        /\ r.auction \in projected
        /\ StatusAt(TenantOf[r.auction], r.at) # "Disabled"

(* The invariant behind it: a request that may still join was allowed. *)
RequestsWereAllowed ==
    \A p \in Socket \X Auction :
        subscription[p].stage = "allowed" =>
            StatusAt(TenantOf[p[2]], subscription[p].at) # "Disabled"

Quiet ==
    /\ scans = {} /\ leaves = {}
    /\ \A e \in StatusEvent : message[e] \in {"unpublished", "acked"}

(* When an eviction is over everywhere and all it asked for has arrived,   *)
(* the only sockets left that were admitted before the tenant was disabled *)
(* are those whose request Bidding had allowed but that had not joined     *)
(* when their instance looked for members.                                 *)
OnlyLateJoinersSurvive ==
    Quiet /\ faults = 0 =>
        \A r \in room :
            (\E e \in applied :
                /\ Status[e].status = "Disabled"
                /\ Status[e].tenant = TenantOf[r.auction]
                /\ r.at < Status[e].version) => r.late

AcceptedAreNewer ==
    \A e \in reserved' \ reserved : \A f \in reserved :
        Status[e].tenant = Status[f].tenant => Status[f].version < Status[e].version

(* "Atomically accepts only a newer tenant status event": newer than every *)
(* event accepted before and not released.                                 *)
OnlyNewerAccepted == [][AcceptedAreNewer]_vars

(* So it is as long as no eviction fails, whatever is redelivered by lost  *)
(* replies and crashes, and in whatever order (acceptTenantStatusEvent).   *)
NewerUnlessReleased == [][fails = 0 => AcceptedAreNewer]_vars

(* The invariant behind it, while no eviction fails: the version key is at *)
(* least the version of every event accepted.                              *)
ReservedAreCovered ==
    fails = 0 =>
        /\ \A e \in StatusEvent : message[e] # "releasing"
        /\ \A e \in reserved : Status[e].version <= tenantVersion[Status[e].tenant]

Superseded(e) ==
    \E f \in reserved :
        Status[f].tenant = Status[e].tenant /\ Status[f].version > Status[e].version

(* When every message has been handled and no process failed, the rooms of *)
(* a disabled tenant have been emptied or a newer status was accepted:     *)
(* the release of a failed eviction lets the redelivered event through the *)
(* script a second time (rollbackTenantStatusEvent).                       *)
EnforcedAtRest ==
    Quiet /\ faults = 0 =>
        \A e \in StatusEvent :
            message[e] = "acked" /\ Status[e].status = "Disabled"
                => e \in applied \/ Superseded(e)

(* A tenant that was disabled is evicted in the end, or a newer status was *)
(* accepted, even if evictions fail and are retried.                       *)
DisabledIsEnforced ==
    \A e \in StatusEvent :
        message[e] = "ready" /\ Status[e].status = "Disabled"
            ~> e \in applied \/ Superseded(e)

=============================================================================
