----------------------- MODULE TenantAdmissionProofs -----------------------
(***************************************************************************)
(* Proofs about TenantAdmission, for every placement of sockets and        *)
(* auctions, every history of status events and any number of faults.      *)
(***************************************************************************)
EXTENDS TenantAdmission, TLAPS

USE DEF Stage, Place

AdmissionInv == TypeOK /\ MembersWereAdmitted /\ RequestsWereAllowed

(* Each status event has a tenant and a positive version. *)
LEMMA StatusType ==
    ASSUME NEW e \in StatusEvent
    PROVE  Status[e].tenant \in Tenant /\ Status[e].version \in Nat \ {0}
  BY StatusAssumption

(* The idle request is a request, and changing whether it is late keeps it *)
(* one, with the same stage and version.                                   *)
LEMMA RequestType ==
    /\ Idle \in Request
    /\ \A at \in Nat, late \in BOOLEAN :
         [stage |-> "allowed", at |-> at, late |-> late] \in Request
    /\ [Idle EXCEPT !.stage = "authorizing"] \in Request
    /\ \A r \in Request :
         /\ [r EXCEPT !.late = TRUE] \in Request
         /\ [r EXCEPT !.late = TRUE].stage = r.stage
         /\ [r EXCEPT !.late = TRUE].at = r.at
  BY DEF Request, Idle

LEMMA AdmissionInit == Init => AdmissionInv
  BY RequestType
  DEF Init, AdmissionInv, TypeOK, MembersWereAdmitted, RequestsWereAllowed, Idle

-----------------------------------------------------------------------------
(* An eviction empties rooms and marks requests; it admits nobody.         *)
LEMMA ScanPart ==
    ASSUME AdmissionInv, NEW i \in Instance, NEW t \in Tenant, NEW others \in SUBSET Instance,
           Scan(i, t, others)
    PROVE  /\ room' \subseteq room
           /\ leaves' \subseteq Instance \X Auction
           /\ scans' \subseteq Instance \X Tenant
           /\ subscription' \in [Socket \X Auction -> Request]
           /\ \A p \in Socket \X Auction :
                /\ subscription'[p].stage = subscription[p].stage
                /\ subscription'[p].at = subscription[p].at
<1>0. TypeOK
  BY DEF AdmissionInv
<1>1. room' \subseteq room
  BY DEF Scan
<1>2. leaves' \subseteq Instance \X Auction
  BY <1>0 DEF Scan, RoomsOf, TypeOK
<1>3. scans' \subseteq Instance \X Tenant
  BY <1>0 DEF Scan, TypeOK
<1>4. \A p \in Socket \X Auction : subscription[p] \in Request
  BY <1>0 DEF TypeOK
<1>5. subscription' = [p \in Socket \X Auction |->
            IF /\ subscription[p].stage = "allowed"
               /\ InstanceOf[p[1]] = i /\ TenantOf[p[2]] = t
              THEN [subscription[p] EXCEPT !.late = TRUE]
              ELSE subscription[p]]
  BY DEF Scan
<1>6. ASSUME NEW p \in Socket \X Auction
      PROVE  /\ subscription'[p] \in Request
             /\ subscription'[p].stage = subscription[p].stage
             /\ subscription'[p].at = subscription[p].at
  <2>1. subscription'[p] \in {subscription[p], [subscription[p] EXCEPT !.late = TRUE]}
    BY <1>5
  <2> QED BY <1>4, <2>1, RequestType
<1>7. subscription' \in [Socket \X Auction -> Request]
  BY <1>5, <1>6
<1> QED BY <1>1, <1>2, <1>3, <1>6, <1>7

(* What a step that admits nobody has to leave alone. *)
LEMMA Kept ==
    ASSUME AdmissionInv, TypeOK',
           room' \subseteq room, projected \subseteq projected',
           \A r \in room' : r.socket \in connected',
           \A p \in Socket \X Auction :
               subscription'[p].stage = "allowed" =>
                   /\ subscription[p].stage = "allowed"
                   /\ subscription'[p].at = subscription[p].at
    PROVE  AdmissionInv'
<1>1. MembersWereAdmitted'
  BY DEF AdmissionInv, MembersWereAdmitted, StatusAt
<1>2. RequestsWereAllowed'
  BY DEF AdmissionInv, RequestsWereAllowed, StatusAt
<1> QED BY <1>1, <1>2 DEF AdmissionInv

-----------------------------------------------------------------------------
(* Every step                                                              *)

(* Steps that touch neither rooms nor requests nor connections. *)
LEMMA QuietStep ==
    ASSUME AdmissionInv, TypeOK', projected \subseteq projected',
           UNCHANGED <<room, subscription, connected>>
    PROVE  AdmissionInv'
<1>1. \A r \in room' : r.socket \in connected'
  BY DEF AdmissionInv, MembersWereAdmitted
<1>2. /\ room' \subseteq room
      /\ \A p \in Socket \X Auction :
           subscription'[p].stage = "allowed" =>
               subscription[p].stage = "allowed" /\ subscription'[p].at = subscription[p].at
  OBVIOUS
<1> QED BY <1>1, <1>2, Kept

(* Steps of a status event outside an eviction. *)
LEMMA EventStep ==
    ASSUME AdmissionInv, NEW e \in StatusEvent,
           Issue(e) \/ Accept(e) \/ Ignore(e) \/ Apply(e) \/ Release(e) \/ LoseReply(e)
    PROVE  AdmissionInv'
<1>0. TypeOK
  BY DEF AdmissionInv
<1>a. Status[e].tenant \in Tenant /\ Status[e].version \in Nat \ {0}
  BY StatusType
<1> USE <1>0, <1>a DEF TypeOK, redisVars, noticeVars, clientVars
<1>1. CASE Issue(e)
  <2>1. TypeOK'
    <3>1. issued' \in [Tenant -> Nat] /\ message' \in [StatusEvent -> Place]
      BY <1>1 DEF Issue
    <3>2. \A f \in StatusEvent : message'[f] \notin {"unpublished", "ready"} => handler[f] \in Instance
      BY <1>1 DEF Issue
    <3> QED BY <1>1, <3>1, <3>2 DEF Issue
  <2> QED BY <1>1, <2>1, QuietStep DEF Issue
<1>2. CASE Accept(e)
  <2>1. TypeOK'
    <3>1. message[e] = "accepting" /\ message' \in [StatusEvent -> Place]
      BY <1>2 DEF Accept
    <3>2. \A f \in StatusEvent : message'[f] \notin {"unpublished", "ready"} => handler[f] \in Instance
      BY <1>2 DEF Accept
    <3>3. tenantVersion' \in [Tenant -> Nat] /\ reserved' \subseteq StatusEvent
      BY <1>2 DEF Accept
    <3> QED BY <1>2, <3>1, <3>2, <3>3 DEF Accept
  <2> QED BY <1>2, <2>1, QuietStep DEF Accept
<1>3. CASE Ignore(e)
  <2>1. TypeOK'
    BY <1>3 DEF Ignore
  <2> QED BY <1>3, <2>1, QuietStep DEF Ignore
<1>4. CASE Apply(e)
  <2>1. TypeOK'
    BY <1>4 DEF Apply
  <2> QED BY <1>4, <2>1, QuietStep DEF Apply
<1>5. CASE Release(e)
  <2>1. TypeOK'
    <3>1. message' \in [StatusEvent -> Place]
      BY <1>5 DEF Release
    <3>2. \A f \in StatusEvent : message'[f] \notin {"unpublished", "ready"} => handler[f] \in Instance
      BY <1>5 DEF Release
    <3>3. tenantVersion' \in [Tenant -> Nat] /\ reserved' \subseteq StatusEvent
      BY <1>5 DEF Release
    <3> QED BY <1>5, <3>1, <3>2, <3>3 DEF Release
  <2> QED BY <1>5, <2>1, QuietStep DEF Release
<1>6. CASE LoseReply(e)
  <2>1. TypeOK'
    <3>1. message' \in [StatusEvent -> Place] /\ faults' \in Nat
      BY <1>6 DEF LoseReply, Fault
    <3>2. \A f \in StatusEvent : message'[f] \notin {"unpublished", "ready"} => handler[f] \in Instance
      BY <1>6 DEF LoseReply
    <3> QED BY <1>6, <3>1, <3>2 DEF LoseReply
  <2> QED BY <1>6, <2>1, QuietStep DEF LoseReply
<1> QED BY <1>1, <1>2, <1>3, <1>4, <1>5, <1>6

(* A delivery, and the first auction event of an auction. *)
LEMMA DeliverStep ==
    ASSUME AdmissionInv, NEW i \in Instance, NEW e \in StatusEvent, Deliver(i, e)
    PROVE  AdmissionInv'
<1>1. TypeOK'
  BY DEF AdmissionInv, Deliver, TypeOK, redisVars, noticeVars, clientVars
<1> QED BY <1>1, QuietStep DEF Deliver, clientVars

LEMMA ProjectStep ==
    ASSUME AdmissionInv, NEW a \in Auction, Project(a)
    PROVE  AdmissionInv'
<1>1. TypeOK'
  BY DEF AdmissionInv, Project, TypeOK, redisVars, noticeVars, clientVars
<1> QED BY <1>1, QuietStep DEF Project, clientVars

(* Evictions. *)
LEMMA EvictStep ==
    ASSUME AdmissionInv, NEW e \in StatusEvent, Evict(e) \/ EvictFails(e)
    PROVE  AdmissionInv'
<1>0. TypeOK /\ message[e] = "accepted" /\ handler[e] \in Instance /\ Status[e].tenant \in Tenant
  BY StatusType DEF AdmissionInv, TypeOK, Evict, EvictFails
<1>1. PICK others \in SUBSET Instance :
        \/ Scan(handler[e], Status[e].tenant, others)
        \/ UNCHANGED <<room, leaves, scans, subscription>>
  <2>1. CASE Evict(e)
    BY <2>1 DEF Evict
  <2>2. CASE EvictFails(e)
    BY <2>2 DEF EvictFails
  <2> QED BY <2>1, <2>2
<1>2. /\ room' \subseteq room
      /\ leaves' \subseteq Instance \X Auction
      /\ scans' \subseteq Instance \X Tenant
      /\ subscription' \in [Socket \X Auction -> Request]
      /\ \A p \in Socket \X Auction :
           /\ subscription'[p].stage = subscription[p].stage
           /\ subscription'[p].at = subscription[p].at
  <2>1. CASE Scan(handler[e], Status[e].tenant, others)
    BY <1>0, <2>1, ScanPart
  <2>2. CASE UNCHANGED <<room, leaves, scans, subscription>>
    BY <1>0, <2>2 DEF TypeOK
  <2> QED BY <1>1, <2>1, <2>2
<1>3. /\ message' \in [StatusEvent -> Place]
      /\ \A f \in StatusEvent : message'[f] \notin {"unpublished", "ready"} => handler[f] \in Instance
  BY <1>0 DEF TypeOK, Evict, EvictFails
<1>4. applied' \subseteq StatusEvent /\ fails' \in Nat
  BY <1>0 DEF TypeOK, Evict, EvictFails
<1>5. UNCHANGED <<issued, handler, redisVars, projected, leaving, connected, faults>>
  BY DEF Evict, EvictFails
<1>6. TypeOK'
  BY <1>0, <1>2, <1>3, <1>4, <1>5 DEF TypeOK, redisVars
<1>7. \A r \in room' : r.socket \in connected'
  BY <1>2, <1>5 DEF AdmissionInv, MembersWereAdmitted
<1> QED BY <1>2, <1>5, <1>6, <1>7, Kept

LEMMA ReceiveStep ==
    ASSUME AdmissionInv, NEW i \in Instance,
           \/ \E t \in Tenant : ReceiveScan(i, t)
           \/ \E a \in Auction : ReceiveLeave(i, a)
    PROVE  AdmissionInv'
<1>0. TypeOK
  BY DEF AdmissionInv
<1>1. ASSUME NEW t \in Tenant, ReceiveScan(i, t) PROVE AdmissionInv'
  <2>1. /\ Scan(i, t, {})
        /\ UNCHANGED <<issued, message, handler, redisVars, applied, projected, leaving, connected,
                       fails, faults>>
    BY <1>1 DEF ReceiveScan
  <2>2. /\ room' \subseteq room
        /\ leaves' \subseteq Instance \X Auction
        /\ scans' \subseteq Instance \X Tenant
        /\ subscription' \in [Socket \X Auction -> Request]
        /\ \A p \in Socket \X Auction :
             /\ subscription'[p].stage = subscription[p].stage
             /\ subscription'[p].at = subscription[p].at
    BY <2>1, ScanPart
  <2>3. TypeOK'
    BY <1>0, <2>1, <2>2 DEF TypeOK, redisVars
  <2>4. \A r \in room' : r.socket \in connected'
    BY <2>1, <2>2 DEF AdmissionInv, MembersWereAdmitted
  <2> QED BY <2>1, <2>2, <2>3, <2>4, Kept
<1>2. ASSUME NEW a \in Auction, ReceiveLeave(i, a) PROVE AdmissionInv'
  <2>1. /\ room' \subseteq room /\ leaves' \subseteq leaves
        /\ UNCHANGED <<issued, message, handler, redisVars, applied, scans, projected, subscription,
                       leaving, connected, fails, faults>>
    BY <1>2 DEF ReceiveLeave
  <2>2. TypeOK'
    BY <1>0, <2>1 DEF TypeOK, redisVars
  <2>3. \A r \in room' : r.socket \in connected'
    BY <2>1 DEF AdmissionInv, MembersWereAdmitted
  <2> QED BY <2>1, <2>2, <2>3, Kept
<1> QED BY <1>1, <1>2

(* Requests: only Decide lets one join, and only Join lets a socket in. *)
LEMMA DecideStep ==
    ASSUME AdmissionInv, NEW s \in Socket, NEW a \in Auction, Decide(s, a)
    PROVE  AdmissionInv'
<1>0. TypeOK /\ <<s, a>> \in Socket \X Auction /\ TenantOf[a] \in Tenant
  BY PlacementAssumption DEF AdmissionInv
<1> DEFINE answer == [stage |-> "allowed", at |-> issued[TenantOf[a]], late |-> FALSE]
<1>1. answer \in Request /\ answer.stage = "allowed" /\ answer.at = issued[TenantOf[a]]
  BY <1>0, RequestType DEF TypeOK
<1>2. Idle \in Request /\ Idle.stage = "idle"
  BY RequestType DEF Idle
<1>3. \/ MayExpose(a) /\ subscription' = [subscription EXCEPT ![<<s, a>>] = answer]
      \/ subscription' = [subscription EXCEPT ![<<s, a>>] = Idle]
  BY DEF Decide, SetRequest
<1>4. MayExpose(a) => StatusAt(TenantOf[a], answer.at) # "Disabled"
  BY <1>1 DEF MayExpose
<1> HIDE DEF answer
<1>5. UNCHANGED <<issued, message, handler, redisVars, applied, noticeVars, projected, leaving,
                 room, connected, fails, faults>>
  BY DEF Decide
<1>6. subscription' \in [Socket \X Auction -> Request]
  BY <1>0, <1>1, <1>2, <1>3 DEF TypeOK
<1>7. TypeOK'
  BY <1>0, <1>5, <1>6 DEF TypeOK, redisVars, noticeVars
<1>8. RequestsWereAllowed'
  <2> SUFFICES ASSUME NEW p \in Socket \X Auction, subscription'[p].stage = "allowed"
               PROVE  StatusAt(TenantOf[p[2]], subscription'[p].at) # "Disabled"
    BY DEF RequestsWereAllowed, StatusAt
  <2>1. CASE p = <<s, a>>
    BY <1>0, <1>1, <1>2, <1>3, <1>4, <2>1 DEF TypeOK
  <2>2. CASE p # <<s, a>>
    <3>1. subscription'[p] = subscription[p]
      BY <1>0, <1>3, <2>2 DEF TypeOK
    <3> QED BY <3>1 DEF AdmissionInv, RequestsWereAllowed
  <2> QED BY <2>1, <2>2
<1>9. MembersWereAdmitted'
  BY <1>5 DEF AdmissionInv, MembersWereAdmitted, StatusAt
<1> QED BY <1>7, <1>8, <1>9 DEF AdmissionInv

LEMMA JoinStep ==
    ASSUME AdmissionInv, NEW s \in Socket, NEW a \in Auction, Join(s, a)
    PROVE  AdmissionInv'
<1> DEFINE request == subscription[<<s, a>>]
           member == [socket |-> s, auction |-> a, at |-> request.at, late |-> request.late]
<1>0. TypeOK /\ <<s, a>> \in Socket \X Auction /\ request \in Request /\ request.stage = "allowed"
  BY DEF AdmissionInv, TypeOK, Join
<1>1. StatusAt(TenantOf[a], request.at) # "Disabled"
  BY <1>0 DEF AdmissionInv, RequestsWereAllowed
<1>2. /\ member \in Member
      /\ member.socket = s /\ member.auction = a /\ member.at = request.at
  BY <1>0 DEF Request, Member
<1>3. /\ subscription' = [subscription EXCEPT ![<<s, a>>] = Idle]
      /\ \/ a \in projected /\ s \in connected /\ room' \subseteq room \union {member}
         \/ UNCHANGED room
      /\ UNCHANGED <<issued, message, handler, redisVars, applied, noticeVars, projected, leaving,
                     connected, fails, faults>>
  BY DEF Join, SetRequest
<1> HIDE DEF request, member
<1>4. subscription' \in [Socket \X Auction -> Request]
  BY <1>0, <1>3, RequestType DEF TypeOK
<1>5. TypeOK'
  BY <1>0, <1>2, <1>3, <1>4 DEF TypeOK, redisVars, noticeVars
<1>6. MembersWereAdmitted'
  <2> SUFFICES ASSUME NEW r \in room'
               PROVE  /\ r.socket \in connected' /\ r.auction \in projected'
                      /\ StatusAt(TenantOf[r.auction], r.at) # "Disabled"
    BY DEF MembersWereAdmitted, StatusAt
  <2>1. CASE r \in room
    BY <1>3, <2>1 DEF AdmissionInv, MembersWereAdmitted
  <2>2. CASE r \notin room
    <3>1. r = member /\ a \in projected /\ s \in connected
      BY <1>3, <2>2
    <3> QED BY <1>1, <1>2, <1>3, <3>1
  <2> QED BY <2>1, <2>2
<1>7. RequestsWereAllowed'
  <2> SUFFICES ASSUME NEW p \in Socket \X Auction, subscription'[p].stage = "allowed"
               PROVE  StatusAt(TenantOf[p[2]], subscription'[p].at) # "Disabled"
    BY DEF RequestsWereAllowed, StatusAt
  <2>1. p # <<s, a>>
    BY <1>0, <1>3 DEF TypeOK, Idle
  <2>2. subscription'[p] = subscription[p]
    BY <1>0, <1>3, <2>1 DEF TypeOK
  <2> QED BY <2>2 DEF AdmissionInv, RequestsWereAllowed
<1> QED BY <1>5, <1>6, <1>7 DEF AdmissionInv

LEMMA SubscribeStep ==
    ASSUME AdmissionInv, NEW s \in Socket, NEW a \in Auction, Subscribe(s, a)
    PROVE  AdmissionInv'
<1> DEFINE asked == [Idle EXCEPT !.stage = "authorizing"]
<1>0. TypeOK /\ asked \in Request /\ asked.stage = "authorizing"
  BY RequestType DEF AdmissionInv, Idle
<1>1. /\ subscription' = [subscription EXCEPT ![<<s, a>>] = asked]
      /\ UNCHANGED <<issued, message, handler, redisVars, applied, noticeVars, projected, leaving,
                     room, connected, fails, faults>>
  BY DEF Subscribe, SetRequest
<1> HIDE DEF asked
<1>2. TypeOK'
  BY <1>0, <1>1 DEF TypeOK, redisVars, noticeVars
<1>3. \A p \in Socket \X Auction :
        subscription'[p].stage = "allowed" => subscription'[p] = subscription[p]
  BY <1>0, <1>1 DEF TypeOK
<1>4. \A r \in room' : r.socket \in connected'
  BY <1>1 DEF AdmissionInv, MembersWereAdmitted
<1> QED BY <1>1, <1>2, <1>3, <1>4, Kept

LEMMA LeaveStep ==
    ASSUME AdmissionInv, NEW s \in Socket,
           \/ \E a \in Auction : Unsubscribe(s, a) \/ Leave(s, a)
           \/ Disconnect(s)
    PROVE  AdmissionInv'
<1>0. TypeOK
  BY DEF AdmissionInv
<1>1. /\ room' \subseteq room /\ leaving' \subseteq Socket \X Auction
      /\ connected' \subseteq connected
      /\ UNCHANGED <<issued, message, handler, redisVars, applied, noticeVars, projected,
                     subscription, fails, faults>>
  <2>1. ASSUME NEW a \in Auction, Unsubscribe(s, a)
        PROVE  room' = room /\ leaving' = leaving \union {<<s, a>>} /\ connected' = connected
    BY <2>1 DEF Unsubscribe
  <2>2. ASSUME NEW a \in Auction, Leave(s, a)
        PROVE  room' \subseteq room /\ leaving' \subseteq leaving /\ connected' = connected
    BY <2>2 DEF Leave
  <2>3. ASSUME Disconnect(s)
        PROVE  room' \subseteq room /\ leaving' = leaving /\ connected' \subseteq connected
    BY <2>3 DEF Disconnect
  <2>4. UNCHANGED <<issued, message, handler, redisVars, applied, noticeVars, projected,
                   subscription, fails, faults>>
    BY DEF Unsubscribe, Leave, Disconnect
  <2>5. leaving \subseteq Socket \X Auction
    BY <1>0 DEF TypeOK
  <2> QED BY <2>1, <2>2, <2>3, <2>4, <2>5
<1>2. TypeOK'
  BY <1>0, <1>1 DEF TypeOK, redisVars, noticeVars
<1>3. \A r \in room' : r.socket \in connected'
  BY <1>1 DEF Unsubscribe, Leave, Disconnect, AdmissionInv, MembersWereAdmitted
<1> QED BY <1>1, <1>2, <1>3, Kept

LEMMA CrashStep ==
    ASSUME AdmissionInv, NEW i \in Instance, Crash(i)
    PROVE  AdmissionInv'
<1>0. TypeOK
  BY DEF AdmissionInv
<1>1. /\ message' \in [StatusEvent -> Place]
      /\ \A e \in StatusEvent : message'[e] \notin {"unpublished", "ready"} => handler[e] \in Instance
      /\ faults' \in Nat
  BY <1>0 DEF Crash, Fault, TypeOK
<1>2. /\ room' \subseteq room /\ connected' \subseteq connected /\ leaving' \subseteq leaving
      /\ scans' \subseteq scans /\ leaves' \subseteq leaves
      /\ UNCHANGED <<issued, handler, redisVars, applied, projected, fails>>
  BY DEF Crash
<1>3. \A p \in Socket \X Auction : subscription'[p] \in {Idle, subscription[p]}
  BY DEF Crash
<1>4. subscription' \in [Socket \X Auction -> Request]
  BY <1>0, <1>3, RequestType DEF Crash, TypeOK
<1>5. TypeOK'
  BY <1>0, <1>1, <1>2, <1>4 DEF TypeOK, redisVars
<1>6. \A r \in room' : r.socket \in connected'
  BY DEF Crash, AdmissionInv, MembersWereAdmitted
<1>7. \A p \in Socket \X Auction :
        subscription'[p].stage = "allowed" => subscription'[p] = subscription[p]
  BY <1>3 DEF Idle
<1> QED BY <1>2, <1>5, <1>6, <1>7, Kept

LEMMA LoseNoticeStep ==
    ASSUME AdmissionInv, NEW i \in Instance, LoseNotice(i)
    PROVE  AdmissionInv'
<1>0. TypeOK
  BY DEF AdmissionInv
<1>1. /\ scans' \subseteq scans /\ leaves' \subseteq leaves /\ faults' \in Nat
      /\ UNCHANGED <<issued, message, handler, redisVars, applied, projected, clientVars, fails>>
  <2>1. faults' \in Nat
    BY <1>0 DEF LoseNotice, Fault, TypeOK
  <2>2. scans' \subseteq scans /\ leaves' \subseteq leaves
    BY DEF LoseNotice
  <2>3. UNCHANGED <<issued, message, handler, redisVars, applied, projected, clientVars, fails>>
    BY DEF LoseNotice
  <2> QED BY <2>1, <2>2, <2>3
<1>2. TypeOK'
  BY <1>0, <1>1 DEF TypeOK, redisVars, clientVars
<1> QED BY <1>1, <1>2, QuietStep DEF clientVars

LEMMA AdmissionStep == AdmissionInv /\ [Next]_vars => AdmissionInv'
<1> SUFFICES ASSUME AdmissionInv, [Next]_vars PROVE AdmissionInv'
  OBVIOUS
<1>1. ASSUME NEW e \in StatusEvent, Issue(e) \/ Process(e) \/ EvictFails(e) \/ LoseReply(e)
      PROVE  AdmissionInv'
  BY <1>1, EventStep, EvictStep DEF Process
<1>2. ASSUME NEW i \in Instance, NEW e \in StatusEvent, Deliver(i, e) PROVE AdmissionInv'
  BY <1>2, DeliverStep
<1>3. ASSUME NEW a \in Auction, Project(a) PROVE AdmissionInv'
  BY <1>3, ProjectStep
<1>4. ASSUME NEW i \in Instance,
             \/ \E t \in Tenant : ReceiveScan(i, t)
             \/ \E a \in Auction : ReceiveLeave(i, a)
      PROVE  AdmissionInv'
  BY <1>4, ReceiveStep
<1>5. ASSUME NEW s \in Socket, NEW a \in Auction,
             Subscribe(s, a) \/ Decide(s, a) \/ Join(s, a) \/ Unsubscribe(s, a) \/ Leave(s, a)
      PROVE  AdmissionInv'
  BY <1>5, SubscribeStep, DecideStep, JoinStep, LeaveStep
<1>6. ASSUME NEW s \in Socket, Disconnect(s) PROVE AdmissionInv'
  BY <1>6, LeaveStep
<1>7. ASSUME NEW i \in Instance, Crash(i) \/ LoseNotice(i) PROVE AdmissionInv'
  BY <1>7, CrashStep, LoseNoticeStep
<1>8. CASE UNCHANGED vars
  <2>1. UNCHANGED <<room, subscription, connected, projected>>
    BY <1>8 DEF vars, clientVars
  <2>2. TypeOK'
    BY <1>8 DEF AdmissionInv, TypeOK, vars, redisVars, noticeVars, clientVars
  <2> QED BY <2>1, <2>2, QuietStep
<1> QED BY <1>1, <1>2, <1>3, <1>4, <1>5, <1>6, <1>7, <1>8 DEF Next

-----------------------------------------------------------------------------
(* The order of status events                                              *)

LEMMA CoveredInit == Init => ReservedAreCovered
  BY DEF Init, ReservedAreCovered

(* Without failing evictions nothing is released, so the version key only  *)
(* grows and covers every accepted event.                                  *)
LEMMA CoveredStep ==
    ASSUME TypeOK, ReservedAreCovered, [Next]_vars
    PROVE  ReservedAreCovered' /\ (fails = 0 => AcceptedAreNewer)
<1>1. ASSUME UNCHANGED redisVars, UNCHANGED fails,
             fails = 0 => \A e \in StatusEvent : message'[e] # "releasing"
      PROVE  ReservedAreCovered' /\ (fails = 0 => AcceptedAreNewer)
  BY <1>1 DEF ReservedAreCovered, AcceptedAreNewer, redisVars
<1>2. ASSUME NEW e \in StatusEvent, IsNewer(e), UNCHANGED fails,
             tenantVersion' = [tenantVersion EXCEPT ![Status[e].tenant] = Status[e].version],
             reserved' = reserved \union {e},
             message' = [message EXCEPT ![e] = "accepted"],
             fails = 0
      PROVE  ReservedAreCovered' /\ AcceptedAreNewer
  <2>1. Status[e].tenant \in Tenant /\ \A f \in StatusEvent : Status[f].version \in Nat \ {0}
    BY StatusType
  <2>2. \A f \in reserved : f \in StatusEvent
    BY DEF TypeOK
  <2>3. \A f \in reserved :
          Status[f].tenant = Status[e].tenant => Status[f].version < Status[e].version
    BY <1>2, <2>1, <2>2 DEF IsNewer, ReservedAreCovered, TypeOK
  <2>4. AcceptedAreNewer
    BY <1>2, <2>3 DEF AcceptedAreNewer
  <2>5. ASSUME NEW f \in reserved'
        PROVE  Status[f].version <= tenantVersion'[Status[f].tenant]
    <3>1. CASE Status[f].tenant = Status[e].tenant
      BY <1>2, <2>1, <2>2, <2>3, <2>5, <3>1 DEF TypeOK
    <3>2. CASE Status[f].tenant # Status[e].tenant
      BY <1>2, <2>5, <3>2 DEF ReservedAreCovered, TypeOK
    <3> QED BY <3>1, <3>2
  <2>6. \A f \in StatusEvent : message'[f] # "releasing"
    BY <1>2 DEF ReservedAreCovered, TypeOK
  <2> QED BY <2>4, <2>5, <2>6 DEF ReservedAreCovered
<1>3. ASSUME fails # 0, fails' # 0
      PROVE  ReservedAreCovered' /\ (fails = 0 => AcceptedAreNewer)
  BY <1>3 DEF ReservedAreCovered
<1>4. ASSUME NEW e \in StatusEvent, Accept(e)
      PROVE  ReservedAreCovered' /\ (fails = 0 => AcceptedAreNewer)
  <2>1. UNCHANGED fails
    BY <1>4 DEF Accept
  <2>2. CASE message' = [message EXCEPT ![e] = "ignored"] /\ UNCHANGED redisVars
    BY <1>1, <2>1, <2>2 DEF ReservedAreCovered, TypeOK
  <2>3. CASE /\ IsNewer(e)
             /\ tenantVersion' = [tenantVersion EXCEPT ![Status[e].tenant] = Status[e].version]
             /\ reserved' = reserved \union {e}
             /\ message' = [message EXCEPT ![e] = "accepted"]
    BY <1>2, <1>3, <2>1, <2>3
  <2> QED BY <1>4, <2>2, <2>3 DEF Accept
<1>5. ASSUME NEW e \in StatusEvent, Release(e)
      PROVE  ReservedAreCovered' /\ (fails = 0 => AcceptedAreNewer)
  <2>1. fails # 0 /\ UNCHANGED fails
    BY <1>5 DEF Release, ReservedAreCovered
  <2> QED BY <1>3, <2>1
<1>6. ASSUME NEW e \in StatusEvent, EvictFails(e)
      PROVE  ReservedAreCovered' /\ (fails = 0 => AcceptedAreNewer)
  <2>1. fails' # 0 /\ UNCHANGED reserved
    BY <1>6 DEF EvictFails, TypeOK, redisVars
  <2> QED BY <2>1 DEF ReservedAreCovered, AcceptedAreNewer
<1>7. ASSUME NEW e \in StatusEvent,
             Issue(e) \/ Ignore(e) \/ Apply(e) \/ Evict(e) \/ LoseReply(e)
      PROVE  ReservedAreCovered' /\ (fails = 0 => AcceptedAreNewer)
  BY <1>1, <1>7 DEF Issue, Ignore, Apply, Evict, LoseReply, ReservedAreCovered, TypeOK
<1>8. ASSUME NEW i \in Instance,
             \/ \E e \in StatusEvent : Deliver(i, e)
             \/ Crash(i) \/ LoseNotice(i)
             \/ \E t \in Tenant : ReceiveScan(i, t)
             \/ \E a \in Auction : ReceiveLeave(i, a)
      PROVE  ReservedAreCovered' /\ (fails = 0 => AcceptedAreNewer)
  BY <1>1, <1>8 DEF Deliver, Crash, LoseNotice, ReceiveScan, ReceiveLeave, ReservedAreCovered,
                    TypeOK
<1>9. ASSUME NEW s \in Socket,
             \/ \E a \in Auction : \/ Subscribe(s, a) \/ Decide(s, a) \/ Join(s, a)
                                   \/ Unsubscribe(s, a) \/ Leave(s, a)
             \/ Disconnect(s)
      PROVE  ReservedAreCovered' /\ (fails = 0 => AcceptedAreNewer)
  BY <1>1, <1>9 DEF Subscribe, Decide, Join, Unsubscribe, Leave, Disconnect, ReservedAreCovered
<1>10. ASSUME NEW a \in Auction, Project(a)
       PROVE  ReservedAreCovered' /\ (fails = 0 => AcceptedAreNewer)
  BY <1>1, <1>10 DEF Project, ReservedAreCovered
<1>11. CASE UNCHANGED vars
  BY <1>1, <1>11 DEF vars, ReservedAreCovered
<1> QED
  BY <1>4, <1>5, <1>6, <1>7, <1>8, <1>9, <1>10, <1>11 DEF Next, Process

-----------------------------------------------------------------------------
(* Nothing that was ignored is lost                                        *)

(* Of two events of a tenant, the later one. *)
Later(f, e) == Status[f].tenant = Status[e].tenant /\ Status[f].version > Status[e].version

(* An event that Redis remembers, or whose message is still to be handled. *)
UnderWay(e) == message[e] \in {"ready", "accepting", "accepted", "ignored", "releasing"}
Live(e) == e \in reserved \/ UnderWay(e)
Overtaken(e) == \E f \in StatusEvent : Later(f, e) /\ Live(f)

(* While no process fails, an event that was accepted and is not in the    *)
(* version key, or that is turned away, has a later one that is accepted   *)
(* or will be tried again: the release of a failed eviction forgets        *)
(* versions, but never the last of them.                                   *)
RetryInv ==
    faults = 0 =>
        /\ \A e \in StatusEvent :
             /\ message[e] = "unpublished" => e \notin reserved
             /\ message[e] \in {"accepted", "releasing"} => e \in reserved
             /\ message[e] \in {"ready", "accepting"} /\ e \in reserved => Overtaken(e)
             /\ message[e] = "ignored" \/ (message[e] = "acked" /\ e \notin applied) => Overtaken(e)
             /\ e \in reserved =>
                  tenantVersion[Status[e].tenant] = Status[e].version \/ Overtaken(e)
        /\ \A t \in Tenant : tenantVersion[t] # 0 =>
             \E e \in reserved : Status[e].tenant = t /\ Status[e].version = tenantVersion[t]

LEMMA RetryInit == Init => RetryInv
  BY DEF Init, RetryInv

LEMMA LaterIsTransitive ==
    ASSUME NEW e \in StatusEvent, NEW f \in StatusEvent, NEW g \in StatusEvent, Later(f, e), Later(g, f)
    PROVE  Later(g, e) /\ g # f
  BY StatusType DEF Later

(* A step that moves the message of e alone, and after which every other   *)
(* event is as live as before, keeps who is overtaken.                     *)
LEMMA OvertakenKept ==
    ASSUME NEW e \in StatusEvent,
           \A f \in StatusEvent : f # e /\ Live(f) => Live(f)',
           Live(e) => Live(e)' \/ Overtaken(e)
    PROVE  \A f \in StatusEvent : Overtaken(f) => Overtaken(f)'
<1> SUFFICES ASSUME NEW f \in StatusEvent, NEW g \in StatusEvent, Later(g, f), Live(g) PROVE Overtaken(f)'
  BY DEF Overtaken
<1>1. \A h \in StatusEvent : Later(h, f) /\ Live(h)' => Overtaken(f)'
  BY DEF Overtaken, Later
<1>2. CASE Live(g)'
  BY <1>1, <1>2
<1>3. CASE ~Live(g)'
  <2>1. g = e /\ Overtaken(e)
    BY <1>3
  <2>2. PICK h \in StatusEvent : Later(h, e) /\ Live(h)
    BY <2>1 DEF Overtaken
  <2>3. Later(h, f) /\ h # e
    BY <2>1, <2>2, LaterIsTransitive
  <2> QED BY <1>1, <2>2, <2>3
<1> QED BY <1>2, <1>3

(* Steps of a message that write nothing to Redis. *)
LEMMA RetryMoves ==
    ASSUME TypeOK, RetryInv, faults = 0, UNCHANGED <<faults, redisVars>>, NEW e \in StatusEvent,
           NEW from, NEW to, message[e] = from, message' = [message EXCEPT ![e] = to],
           applied \subseteq applied',
           \/ from = "unpublished" /\ to = "ready"
           \/ from = "ready" /\ to = "accepting"
           \/ from = "accepted" /\ to = "releasing"
           \/ from = "ignored" /\ to = "acked"
           \/ from = "accepted" /\ to = "acked" /\ e \in applied'
    PROVE  RetryInv'
<1>1. message'[e] = to /\ \A f \in StatusEvent : f # e => message'[f] = message[f]
  BY DEF TypeOK
<1>2. reserved' = reserved /\ tenantVersion' = tenantVersion /\ faults' = 0
  BY DEF redisVars
<1>3. \A f \in StatusEvent : f # e /\ Live(f) => Live(f)'
  BY <1>1, <1>2 DEF Live, UnderWay
<1>4. Live(e) => Live(e)' \/ Overtaken(e)
  BY <1>1, <1>2 DEF Live, UnderWay, RetryInv
<1>5. \A f \in StatusEvent : Overtaken(f) => Overtaken(f)'
  BY <1>3, <1>4, OvertakenKept
<1>6. ASSUME NEW f \in StatusEvent
      PROVE  /\ message'[f] = "unpublished" => f \notin reserved'
             /\ message'[f] \in {"accepted", "releasing"} => f \in reserved'
             /\ message'[f] \in {"ready", "accepting"} /\ f \in reserved' => Overtaken(f)'
             /\ message'[f] = "ignored" \/ (message'[f] = "acked" /\ f \notin applied') => Overtaken(f)'
             /\ f \in reserved' =>
                  tenantVersion'[Status[f].tenant] = Status[f].version \/ Overtaken(f)'
  <2>1. CASE f # e
    BY <1>1, <1>2, <1>5, <2>1 DEF RetryInv
  <2>2. CASE f = e
    BY <1>1, <1>2, <1>5, <2>2 DEF RetryInv
  <2> QED BY <2>1, <2>2
<1> QED BY <1>2, <1>6 DEF RetryInv, Overtaken

LEMMA RetryAccept ==
    ASSUME TypeOK, RetryInv, faults = 0, NEW e \in StatusEvent, Accept(e)
    PROVE  RetryInv'
<1>0. /\ message[e] = "accepting" /\ faults' = 0 /\ applied' = applied
      /\ Status[e].tenant \in Tenant /\ Status[e].version \in Nat \ {0}
      /\ \A f \in StatusEvent : Status[f].tenant \in Tenant /\ Status[f].version \in Nat \ {0}
  BY StatusType DEF Accept
<1>1. CASE /\ IsNewer(e)
           /\ tenantVersion' = [tenantVersion EXCEPT ![Status[e].tenant] = Status[e].version]
           /\ reserved' = reserved \union {e}
           /\ message' = [message EXCEPT ![e] = "accepted"]
  <2>1. message'[e] = "accepted" /\ \A f \in StatusEvent : f # e => message'[f] = message[f]
    BY <1>1 DEF TypeOK
  <2>2. \A f \in StatusEvent : Live(f) => Live(f)'
    BY <1>1, <2>1 DEF Live, UnderWay
  <2>3. \A f \in StatusEvent : Overtaken(f) => Overtaken(f)'
    BY <2>2, OvertakenKept
  <2>4. Live(e)'
    BY <1>1 DEF Live
  <2>5. ASSUME NEW f \in StatusEvent, f # e, f \in reserved
        PROVE  tenantVersion'[Status[f].tenant] = Status[f].version \/ Overtaken(f)'
    <3>1. CASE Overtaken(f)
      BY <2>3, <3>1
    <3>2. CASE ~Overtaken(f) /\ Status[f].tenant # Status[e].tenant
      BY <1>0, <1>1, <2>5, <3>2 DEF RetryInv, TypeOK
    <3>3. CASE ~Overtaken(f) /\ Status[f].tenant = Status[e].tenant
      <4>1. tenantVersion[Status[e].tenant] = Status[f].version
        BY <2>5, <3>3 DEF RetryInv
      <4>2. Status[e].version > Status[f].version
        BY <1>0, <1>1, <4>1 DEF IsNewer
      <4> QED BY <2>4, <3>3, <4>2 DEF Overtaken, Later
    <3> QED BY <3>1, <3>2, <3>3
  <2>6. ASSUME NEW f \in StatusEvent
        PROVE  /\ message'[f] = "unpublished" => f \notin reserved'
               /\ message'[f] \in {"accepted", "releasing"} => f \in reserved'
               /\ message'[f] \in {"ready", "accepting"} /\ f \in reserved' => Overtaken(f)'
               /\ message'[f] = "ignored" \/ (message'[f] = "acked" /\ f \notin applied') => Overtaken(f)'
               /\ f \in reserved' =>
                    tenantVersion'[Status[f].tenant] = Status[f].version \/ Overtaken(f)'
    <3>1. CASE f # e
      BY <1>0, <1>1, <2>1, <2>3, <2>5, <3>1 DEF RetryInv
    <3>2. CASE f = e
      BY <1>0, <1>1, <2>1, <3>2 DEF TypeOK
    <3> QED BY <3>1, <3>2
  <2>7. ASSUME NEW t \in Tenant, tenantVersion'[t] # 0
        PROVE  \E f \in reserved' : Status[f].tenant = t /\ Status[f].version = tenantVersion'[t]
    BY <1>0, <1>1, <2>7 DEF RetryInv, TypeOK
  <2> QED BY <2>6, <2>7 DEF RetryInv, Overtaken
<1>2. CASE /\ ~IsNewer(e)
           /\ message' = [message EXCEPT ![e] = "ignored"]
           /\ UNCHANGED redisVars
  <2>1. message'[e] = "ignored" /\ \A f \in StatusEvent : f # e => message'[f] = message[f]
    BY <1>2 DEF TypeOK
  <2>2. reserved' = reserved /\ tenantVersion' = tenantVersion
    BY <1>2 DEF redisVars
  <2>3. \A f \in StatusEvent : Live(f) => Live(f)'
    BY <2>1, <2>2 DEF Live, UnderWay
  <2>4. \A f \in StatusEvent : Overtaken(f) => Overtaken(f)'
    BY <2>3, OvertakenKept
  <2>5. Overtaken(e)
    <3>1. CASE e \in reserved
      BY <1>0, <3>1 DEF RetryInv
    <3>2. CASE e \notin reserved
      <4>1. tenantVersion[Status[e].tenant] # 0 /\ Status[e].version <= tenantVersion[Status[e].tenant]
        BY <1>0, <1>2, <3>2 DEF IsNewer, TypeOK
      <4>2. PICK f \in reserved : Status[f].tenant = Status[e].tenant
                                  /\ Status[f].version = tenantVersion[Status[e].tenant]
        BY <1>0, <4>1 DEF RetryInv
      <4>3. f \in StatusEvent /\ f # e
        BY <3>2 DEF TypeOK
      <4>4. Status[f].version # Status[e].version
        BY <4>2, <4>3, StatusAssumption
      <4> QED BY <1>0, <4>1, <4>2, <4>3, <4>4 DEF Overtaken, Later, Live
    <3> QED BY <3>1, <3>2
  <2>6. ASSUME NEW f \in StatusEvent
        PROVE  /\ message'[f] = "unpublished" => f \notin reserved'
               /\ message'[f] \in {"accepted", "releasing"} => f \in reserved'
               /\ message'[f] \in {"ready", "accepting"} /\ f \in reserved' => Overtaken(f)'
               /\ message'[f] = "ignored" \/ (message'[f] = "acked" /\ f \notin applied') => Overtaken(f)'
               /\ f \in reserved' =>
                    tenantVersion'[Status[f].tenant] = Status[f].version \/ Overtaken(f)'
    <3>1. CASE f # e
      BY <1>0, <2>1, <2>2, <2>4, <3>1 DEF RetryInv
    <3>2. CASE f = e
      BY <2>1, <2>4, <2>5, <3>2
    <3> QED BY <3>1, <3>2
  <2> QED BY <2>2, <2>6 DEF RetryInv, Overtaken
<1> QED BY <1>1, <1>2 DEF Accept

LEMMA RetryRelease ==
    ASSUME TypeOK, RetryInv, faults = 0, NEW e \in StatusEvent, Release(e)
    PROVE  RetryInv'
<1>0. /\ message[e] = "releasing" /\ e \in reserved /\ faults' = 0 /\ applied' = applied
      /\ \A f \in StatusEvent : Status[f].tenant \in Tenant /\ Status[f].version \in Nat \ {0}
  BY StatusType DEF Release, RetryInv
<1>1. message'[e] = "ready" /\ \A f \in StatusEvent : f # e => message'[f] = message[f]
  BY DEF Release, TypeOK
<1>2. \/ /\ tenantVersion[Status[e].tenant] = Status[e].version
         /\ reserved' = reserved \ {e}
         /\ tenantVersion' = [tenantVersion EXCEPT ![Status[e].tenant] = 0]
      \/ /\ tenantVersion[Status[e].tenant] # Status[e].version
         /\ reserved' = reserved /\ tenantVersion' = tenantVersion
  BY <1>0 DEF Release, redisVars
<1>3. \A f \in StatusEvent : Live(f) => Live(f)'
  BY <1>1, <1>2 DEF Live, UnderWay
<1>4. \A f \in StatusEvent : Overtaken(f) => Overtaken(f)'
  BY <1>3, OvertakenKept
<1>5. ASSUME NEW f \in StatusEvent, f # e, f \in reserved
      PROVE  tenantVersion'[Status[f].tenant] = Status[f].version \/ Overtaken(f)'
  <2>1. CASE Overtaken(f)
    BY <1>4, <2>1
  <2>2. CASE ~Overtaken(f)
    <3>1. tenantVersion[Status[f].tenant] = Status[f].version
      BY <1>0, <1>5, <2>2 DEF RetryInv
    <3>2. CASE Status[f].tenant = Status[e].tenant
      <4>1. tenantVersion[Status[e].tenant] # Status[e].version
        BY <1>5, <3>1, <3>2, StatusAssumption
      <4> QED BY <1>2, <3>1, <4>1
    <3>3. CASE Status[f].tenant # Status[e].tenant
      BY <1>0, <1>2, <3>1, <3>3 DEF TypeOK
    <3> QED BY <3>2, <3>3
  <2> QED BY <2>1, <2>2
<1>6. ASSUME NEW f \in StatusEvent
      PROVE  /\ message'[f] = "unpublished" => f \notin reserved'
             /\ message'[f] \in {"accepted", "releasing"} => f \in reserved'
             /\ message'[f] \in {"ready", "accepting"} /\ f \in reserved' => Overtaken(f)'
             /\ message'[f] = "ignored" \/ (message'[f] = "acked" /\ f \notin applied') => Overtaken(f)'
             /\ f \in reserved' =>
                  tenantVersion'[Status[f].tenant] = Status[f].version \/ Overtaken(f)'
  <2>1. CASE f # e
    BY <1>0, <1>1, <1>2, <1>4, <1>5, <2>1 DEF RetryInv
  <2>2. CASE f = e
    <3>1. f \in reserved' => Overtaken(f)
      BY <1>0, <1>2, <2>2 DEF RetryInv
    <3> QED BY <1>1, <1>4, <2>2, <3>1
  <2> QED BY <2>1, <2>2
<1>7. ASSUME NEW t \in Tenant, tenantVersion'[t] # 0
      PROVE  \E f \in reserved' : Status[f].tenant = t /\ Status[f].version = tenantVersion'[t]
  <2>1. tenantVersion'[t] = tenantVersion[t]
    BY <1>0, <1>2, <1>7 DEF TypeOK
  <2>2. PICK f \in reserved : Status[f].tenant = t /\ Status[f].version = tenantVersion[t]
    BY <1>0, <1>7, <2>1 DEF RetryInv
  <2>3. f \in reserved'
    BY <1>0, <1>2, <1>7, <2>1, <2>2 DEF TypeOK
  <2> QED BY <2>1, <2>2, <2>3
<1> QED BY <1>6, <1>7 DEF RetryInv, Overtaken

(* A process that failed stays counted. *)
LEMMA FaultsGrow == TypeOK /\ faults # 0 /\ [Next]_vars => faults' # 0
<1> SUFFICES ASSUME TypeOK, faults # 0, [Next]_vars PROVE faults' # 0
  OBVIOUS
<1>1. ASSUME UNCHANGED faults PROVE faults' # 0
  BY <1>1
<1>2. ASSUME Fault PROVE faults' # 0
  BY <1>2 DEF Fault, TypeOK
<1>3. ASSUME NEW e \in StatusEvent, Issue(e) \/ Process(e) \/ EvictFails(e) PROVE faults' # 0
  BY <1>1, <1>3 DEF Issue, Process, Accept, Ignore, Apply, Evict, EvictFails, Release
<1>4. ASSUME NEW e \in StatusEvent, LoseReply(e) PROVE faults' # 0
  BY <1>2, <1>4 DEF LoseReply
<1>5. ASSUME NEW i \in Instance, Crash(i) \/ LoseNotice(i) PROVE faults' # 0
  BY <1>2, <1>5 DEF Crash, LoseNotice
<1>6. ASSUME NEW i \in Instance,
             \/ \E e \in StatusEvent : Deliver(i, e)
             \/ \E t \in Tenant : ReceiveScan(i, t)
             \/ \E a \in Auction : ReceiveLeave(i, a)
      PROVE  faults' # 0
  BY <1>1, <1>6 DEF Deliver, ReceiveScan, ReceiveLeave
<1>7. ASSUME NEW s \in Socket,
             \/ \E a \in Auction : \/ Subscribe(s, a) \/ Decide(s, a) \/ Join(s, a)
                                   \/ Unsubscribe(s, a) \/ Leave(s, a)
             \/ Disconnect(s)
      PROVE  faults' # 0
  BY <1>1, <1>7 DEF Subscribe, Decide, Join, Unsubscribe, Leave, Disconnect
<1>8. ASSUME NEW a \in Auction, Project(a) PROVE faults' # 0
  BY <1>1, <1>8 DEF Project
<1>9. CASE UNCHANGED vars
  BY <1>1, <1>9 DEF vars
<1> QED BY <1>3, <1>4, <1>5, <1>6, <1>7, <1>8, <1>9 DEF Next

(* An event has a message as soon as Bidding has reached its version. *)
IssueInv == \A e \in StatusEvent :
    message[e] = "unpublished" <=> Status[e].version > issued[Status[e].tenant]

LEMMA IssueInit == Init => IssueInv
<1> SUFFICES ASSUME Init PROVE IssueInv
  OBVIOUS
<1>1. ASSUME NEW e \in StatusEvent
      PROVE  message[e] = "unpublished" /\ Status[e].version > issued[Status[e].tenant]
  BY StatusType DEF Init
<1> QED BY <1>1 DEF IssueInv

LEMMA IssueStep ==
    ASSUME TypeOK, IssueInv, [Next]_vars
    PROVE  IssueInv'
<1>1. ASSUME UNCHANGED issued, \A f \in StatusEvent : message'[f] = "unpublished" <=> message[f] = "unpublished"
      PROVE  IssueInv'
  BY <1>1 DEF IssueInv
<1>2. ASSUME NEW e \in StatusEvent, NEW to \in Place \ {"unpublished"}, UNCHANGED issued,
             message[e] # "unpublished", message' = [message EXCEPT ![e] = to]
      PROVE  IssueInv'
  BY <1>1, <1>2 DEF TypeOK
<1>3. ASSUME NEW e \in StatusEvent, Issue(e) PROVE IssueInv'
  <2>1. /\ Status[e].tenant \in Tenant /\ Status[e].version \in Nat
        /\ Status[e].version = issued[Status[e].tenant] + 1
        /\ issued' = [issued EXCEPT ![Status[e].tenant] = issued[Status[e].tenant] + 1]
        /\ message' = [message EXCEPT ![e] = "ready"]
    BY <1>3, StatusType DEF Issue
  <2> SUFFICES ASSUME NEW f \in StatusEvent
               PROVE  message'[f] = "unpublished" <=> Status[f].version > issued'[Status[f].tenant]
    BY DEF IssueInv
  <2>2. Status[f].tenant \in Tenant /\ Status[f].version \in Nat
    BY StatusType
  <2>3. CASE f = e
    BY <2>1, <2>3 DEF TypeOK
  <2>4. CASE Status[f].tenant # Status[e].tenant
    <3>1. issued'[Status[f].tenant] = issued[Status[f].tenant] /\ message'[f] = message[f]
      BY <2>1, <2>2, <2>4 DEF TypeOK
    <3> QED BY <3>1 DEF IssueInv
  <2>5. CASE f # e /\ Status[f].tenant = Status[e].tenant
    <3>1. Status[f].version # Status[e].version
      BY <2>5, StatusAssumption
    <3>2. /\ issued'[Status[f].tenant] = Status[e].version
          /\ issued[Status[f].tenant] \in Nat
          /\ message'[f] = message[f]
      BY <2>1, <2>2, <2>5 DEF TypeOK
    <3>3. Status[f].version > issued'[Status[f].tenant] <=> Status[f].version > issued[Status[f].tenant]
      BY <2>1, <2>2, <2>5, <3>1, <3>2
    <3> QED BY <3>2, <3>3 DEF IssueInv
  <2> QED BY <2>3, <2>4, <2>5
<1>4. ASSUME NEW e \in StatusEvent,
             Accept(e) \/ Ignore(e) \/ Apply(e) \/ Evict(e) \/ EvictFails(e) \/ Release(e)
      PROVE  IssueInv'
  <2>1. UNCHANGED issued /\ message[e] # "unpublished"
    BY <1>4 DEF Accept, Ignore, Apply, Evict, EvictFails, Release
  <2>2. \E to \in Place \ {"unpublished"} : message' = [message EXCEPT ![e] = to]
    BY <1>4 DEF Accept, Ignore, Apply, Evict, EvictFails, Release, Place
  <2> QED BY <1>2, <2>1, <2>2
<1>5. ASSUME NEW e \in StatusEvent, LoseReply(e) PROVE IssueInv'
  BY <1>2, <1>5 DEF LoseReply, Place
<1>6. ASSUME NEW i \in Instance, NEW e \in StatusEvent, Deliver(i, e) PROVE IssueInv'
  BY <1>2, <1>6 DEF Deliver, Place
<1>7. ASSUME NEW i \in Instance, Crash(i) PROVE IssueInv'
  BY <1>1, <1>7 DEF Crash
<1>8. ASSUME NEW i \in Instance,
             \/ \E t \in Tenant : ReceiveScan(i, t)
             \/ \E a \in Auction : ReceiveLeave(i, a)
             \/ LoseNotice(i)
      PROVE  IssueInv'
  BY <1>1, <1>8 DEF ReceiveScan, ReceiveLeave, LoseNotice
<1>9. ASSUME NEW s \in Socket,
             \/ \E a \in Auction : \/ Subscribe(s, a) \/ Decide(s, a) \/ Join(s, a)
                                   \/ Unsubscribe(s, a) \/ Leave(s, a)
             \/ Disconnect(s)
      PROVE  IssueInv'
  BY <1>1, <1>9 DEF Subscribe, Decide, Join, Unsubscribe, Leave, Disconnect
<1>10. ASSUME NEW a \in Auction, Project(a) PROVE IssueInv'
  BY <1>1, <1>10 DEF Project
<1>11. CASE UNCHANGED vars
  BY <1>1, <1>11 DEF vars
<1> QED BY <1>3, <1>4, <1>5, <1>6, <1>7, <1>8, <1>9, <1>10, <1>11 DEF Next, Process

LEMMA RetryStep ==
    ASSUME TypeOK, IssueInv, RetryInv, [Next]_vars
    PROVE  RetryInv'
<1> SUFFICES ASSUME faults = 0, faults' = 0 PROVE RetryInv'
  <2>1. faults # 0 => faults' # 0
    BY FaultsGrow
  <2> QED BY <2>1 DEF RetryInv
<1>1. ASSUME UNCHANGED <<message, redisVars, applied>> PROVE RetryInv'
  BY <1>1 DEF RetryInv, Overtaken, Live, UnderWay, Later, redisVars
<1>2. ASSUME NEW e \in StatusEvent, Issue(e) \/ Ignore(e) \/ Apply(e) \/ Evict(e) \/ EvictFails(e)
      PROVE  RetryInv'
  <2>1. CASE Issue(e)
    <3>1. message[e] = "unpublished"
      BY <2>1, StatusType DEF Issue, IssueInv, TypeOK
    <3> QED BY <2>1, <3>1, RetryMoves DEF Issue
  <2>2. CASE Ignore(e)
    BY <2>2, RetryMoves DEF Ignore
  <2>3. CASE Apply(e)
    BY <2>3, RetryMoves DEF Apply
  <2>4. CASE Evict(e)
    BY <2>4, RetryMoves DEF Evict
  <2>5. CASE EvictFails(e)
    BY <2>5, RetryMoves DEF EvictFails
  <2> QED BY <1>2, <2>1, <2>2, <2>3, <2>4, <2>5
<1>3. ASSUME NEW e \in StatusEvent, Accept(e) \/ Release(e) PROVE RetryInv'
  BY <1>3, RetryAccept, RetryRelease
<1>4. ASSUME NEW e \in StatusEvent, NEW i \in Instance, Deliver(i, e) PROVE RetryInv'
  BY <1>4, RetryMoves DEF Deliver
<1>5. ~ \E e \in StatusEvent : LoseReply(e)
  BY DEF LoseReply, Fault
<1>6. ~ \E i \in Instance : Crash(i) \/ LoseNotice(i)
  BY DEF Crash, LoseNotice, Fault
<1>7. ASSUME NEW i \in Instance,
             \/ \E t \in Tenant : ReceiveScan(i, t)
             \/ \E a \in Auction : ReceiveLeave(i, a)
      PROVE  RetryInv'
  BY <1>1, <1>7 DEF ReceiveScan, ReceiveLeave
<1>8. ASSUME NEW s \in Socket,
             \/ \E a \in Auction : \/ Subscribe(s, a) \/ Decide(s, a) \/ Join(s, a)
                                   \/ Unsubscribe(s, a) \/ Leave(s, a)
             \/ Disconnect(s)
      PROVE  RetryInv'
  BY <1>1, <1>8 DEF Subscribe, Decide, Join, Unsubscribe, Leave, Disconnect
<1>9. ASSUME NEW a \in Auction, Project(a) PROVE RetryInv'
  BY <1>1, <1>9 DEF Project
<1>10. CASE UNCHANGED vars
  BY <1>1, <1>10 DEF vars
<1> QED BY <1>2, <1>3, <1>4, <1>5, <1>6, <1>7, <1>8, <1>9, <1>10 DEF Next, Process

-----------------------------------------------------------------------------
(* Who survives an eviction                                                *)

(* A decision of Bidding that an eviction which is over here revokes. *)
Revoked(t, at) ==
    \E e \in applied :
        Status[e].status = "Disabled" /\ Status[e].tenant = t /\ at < Status[e].version

(* A member, or a request that may join, whose decision was revoked either *)
(* was late or is on an instance that has yet to look for members; or the  *)
(* instance did so, and the member was asked to leave.                     *)
LateMembers ==
    \A r \in room : Revoked(TenantOf[r.auction], r.at) =>
        \/ r.late
        \/ <<InstanceOf[r.socket], TenantOf[r.auction]>> \in scans
        \/ <<InstanceOf[r.socket], r.auction>> \in leaves
LateRequests ==
    \A p \in Socket \X Auction :
        subscription[p].stage = "allowed" /\ Revoked(TenantOf[p[2]], subscription[p].at) =>
            subscription[p].late \/ <<InstanceOf[p[1]], TenantOf[p[2]]>> \in scans

AppliedInv == \A e \in applied : message[e] # "unpublished"
LateInv == AppliedInv /\ (faults = 0 => LateMembers /\ LateRequests)

LEMMA LateInit == Init => LateInv
  BY DEF Init, LateInv, AppliedInv, LateMembers, LateRequests, Idle

(* Steps that decide nothing, admit nobody and evict nobody. *)
LEMMA LateKept ==
    ASSUME LateMembers, LateRequests, scans \subseteq scans', leaves \subseteq leaves',
           room' \subseteq room,
           \A t, at : Revoked(t, at)' => Revoked(t, at),
           \A p \in Socket \X Auction :
               subscription'[p].stage = "allowed" => subscription'[p] = subscription[p]
    PROVE  LateMembers' /\ LateRequests'
  BY DEF LateMembers, LateRequests

LEMMA SameRevoked == applied' = applied => \A t, at : Revoked(t, at)' => Revoked(t, at)
  BY DEF Revoked

(* An eviction may revoke decisions if it tells the other instances. *)
LEMMA LateScan ==
    ASSUME TypeOK, LateMembers, LateRequests,
           NEW i \in Instance, NEW t \in Tenant, NEW others \in SUBSET Instance,
           Scan(i, t, others),
           \A u, at : Revoked(u, at)' => Revoked(u, at) \/ (u = t /\ others = Instance \ {i})
    PROVE  LateMembers' /\ LateRequests'
<1>1. ASSUME NEW j \in Instance, NEW u, <<j, u>> # <<i, t>>
      PROVE  /\ <<j, u>> \in scans => <<j, u>> \in scans'
             /\ u = t /\ others = Instance \ {i} => <<j, u>> \in scans'
  BY <1>1 DEF Scan
<1>2. ASSUME NEW r \in room', Revoked(TenantOf[r.auction], r.at)'
      PROVE  \/ r.late
             \/ <<InstanceOf[r.socket], TenantOf[r.auction]>> \in scans'
             \/ <<InstanceOf[r.socket], r.auction>> \in leaves'
  <2>1. r \in room
    BY DEF Scan
  <2>2. r.socket \in Socket /\ r.auction \in Auction
    BY <2>1 DEF TypeOK, Member
  <2>3. InstanceOf[r.socket] \in Instance
    BY <2>2, PlacementAssumption
  <2>4. CASE <<InstanceOf[r.socket], TenantOf[r.auction]>> = <<i, t>>
    <3>1. InstanceOf[r.socket] = i /\ TenantOf[r.auction] = t
      BY <2>4
    <3>2. r \in LocalTo(i, r.auction)
      BY <2>1, <3>1 DEF LocalTo
    <3>3. r.auction \in RoomsOf(i, t)
      BY <2>2, <3>1, <3>2 DEF RoomsOf
    <3> QED BY <3>1, <3>3 DEF Scan
  <2>5. CASE /\ <<InstanceOf[r.socket], TenantOf[r.auction]>> # <<i, t>>
             /\ Revoked(TenantOf[r.auction], r.at)
    <3>1. leaves \subseteq leaves'
      BY DEF Scan
    <3> QED BY <1>1, <2>1, <2>3, <2>5, <3>1 DEF LateMembers
  <2>6. CASE /\ <<InstanceOf[r.socket], TenantOf[r.auction]>> # <<i, t>>
             /\ TenantOf[r.auction] = t /\ others = Instance \ {i}
    BY <1>1, <2>3, <2>6
  <2> QED BY <1>2, <2>4, <2>5, <2>6
<1>3. ASSUME NEW p \in Socket \X Auction,
             subscription'[p].stage = "allowed", Revoked(TenantOf[p[2]], subscription[p].at)'
      PROVE  subscription'[p].late \/ <<InstanceOf[p[1]], TenantOf[p[2]]>> \in scans'
  <2>1. InstanceOf[p[1]] \in Instance
    BY PlacementAssumption
  <2>2. subscription[p] \in Request
    BY DEF TypeOK
  <2>3. CASE subscription[p].stage = "allowed" /\ InstanceOf[p[1]] = i /\ TenantOf[p[2]] = t
    <3>1. subscription'[p] = [subscription[p] EXCEPT !.late = TRUE]
      BY <2>3 DEF Scan
    <3> QED BY <2>2, <3>1 DEF Request
  <2>4. CASE ~(subscription[p].stage = "allowed" /\ InstanceOf[p[1]] = i /\ TenantOf[p[2]] = t)
    <3>1. subscription'[p] = subscription[p]
      BY <2>4 DEF Scan
    <3>2. <<InstanceOf[p[1]], TenantOf[p[2]]>> # <<i, t>>
      BY <1>3, <2>4, <3>1
    <3>3. CASE Revoked(TenantOf[p[2]], subscription[p].at)
      BY <1>1, <1>3, <2>1, <3>1, <3>2, <3>3 DEF LateRequests
    <3>4. CASE TenantOf[p[2]] = t /\ others = Instance \ {i}
      BY <1>1, <2>1, <3>2, <3>4
    <3> QED BY <1>3, <3>1, <3>3, <3>4
  <2> QED BY <2>3, <2>4
<1> QED BY <1>2, <1>3 DEF LateMembers, LateRequests

(* An eviction that is carried out applies its event. *)
LEMMA LateEvict ==
    ASSUME TypeOK, LateMembers, LateRequests, NEW e \in StatusEvent, Evict(e)
    PROVE  LateMembers' /\ LateRequests'
<1>1. handler[e] \in Instance /\ Status[e].tenant \in Tenant
  BY StatusType DEF Evict, TypeOK
<1>2. ASSUME NEW u, NEW at, Revoked(u, at)'
      PROVE  Revoked(u, at) \/ u = Status[e].tenant
  BY <1>2 DEF Revoked, Evict
<1>3. Scan(handler[e], Status[e].tenant, Instance \ {handler[e]})
  BY DEF Evict
<1> QED BY <1>1, <1>2, <1>3, LateScan

(* An eviction that throws has revoked nothing. *)
LEMMA LateEvictFails ==
    ASSUME TypeOK, LateMembers, LateRequests, NEW e \in StatusEvent, EvictFails(e)
    PROVE  LateMembers' /\ LateRequests'
<1>1. handler[e] \in Instance /\ Status[e].tenant \in Tenant
  BY StatusType DEF EvictFails, TypeOK
<1>2. \A u, at : Revoked(u, at)' => Revoked(u, at)
  BY SameRevoked DEF EvictFails
<1>3. CASE Scan(handler[e], Status[e].tenant, {})
  BY <1>1, <1>2, <1>3, LateScan
<1>4. CASE UNCHANGED <<room, leaves, scans, subscription>>
  BY <1>2, <1>4, LateKept
<1> QED BY <1>3, <1>4 DEF EvictFails

(* A decision is never older than an event that was handled to the end. *)
LEMMA LateDecide ==
    ASSUME TypeOK, IssueInv, AppliedInv, LateMembers, LateRequests,
           NEW s \in Socket, NEW a \in Auction, Decide(s, a)
    PROVE  LateMembers' /\ LateRequests'
<1>1. UNCHANGED <<scans, leaves, room, applied>>
  BY DEF Decide, noticeVars
<1>2. \A u, at : Revoked(u, at)' => Revoked(u, at)
  BY <1>1, SameRevoked
<1>3. LateMembers'
  BY <1>1, <1>2 DEF LateMembers
<1>4. ~Revoked(TenantOf[a], issued[TenantOf[a]])
  <2> SUFFICES ASSUME NEW e \in applied, Status[e].tenant = TenantOf[a]
               PROVE  ~(issued[TenantOf[a]] < Status[e].version)
    BY DEF Revoked
  <2>1. e \in StatusEvent /\ message[e] # "unpublished"
    BY DEF AppliedInv, TypeOK
  <2>2. ~(Status[e].version > issued[TenantOf[a]])
    BY <2>1 DEF IssueInv
  <2>3. Status[e].version \in Nat /\ issued[TenantOf[a]] \in Nat
    BY <2>1, StatusType, PlacementAssumption DEF TypeOK
  <2> QED BY <2>2, <2>3
<1>5. ASSUME NEW p \in Socket \X Auction,
             subscription'[p].stage = "allowed", Revoked(TenantOf[p[2]], subscription[p].at)'
      PROVE  subscription'[p].late \/ <<InstanceOf[p[1]], TenantOf[p[2]]>> \in scans'
  <2>1. CASE p # <<s, a>>
    <3>1. subscription'[p] = subscription[p]
      BY <2>1 DEF Decide, SetRequest, TypeOK
    <3> QED BY <1>1, <1>2, <1>5, <3>1 DEF LateRequests
  <2>2. CASE p = <<s, a>>
    <3>1. subscription'[p] \in {Idle, [stage |-> "allowed", at |-> issued[TenantOf[a]], late |-> FALSE]}
      BY <2>2 DEF Decide, SetRequest, TypeOK
    <3>2. subscription'[p].at = issued[TenantOf[a]]
      BY <1>5, <3>1 DEF Idle
    <3> QED BY <1>2, <1>4, <1>5, <2>2, <3>2
  <2> QED BY <2>1, <2>2
<1> QED BY <1>3, <1>5 DEF LateRequests

(* A member is as late as the request that let it in. *)
LEMMA LateJoin ==
    ASSUME TypeOK, LateMembers, LateRequests, NEW s \in Socket, NEW a \in Auction, Join(s, a)
    PROVE  LateMembers' /\ LateRequests'
<1> DEFINE request == subscription[<<s, a>>]
<1>1. UNCHANGED <<scans, leaves, applied>> /\ <<s, a>> \in Socket \X Auction
  BY DEF Join, noticeVars
<1>2. \A u, at : Revoked(u, at)' => Revoked(u, at)
  BY <1>1, SameRevoked
<1>3. ASSUME NEW p \in Socket \X Auction, subscription'[p].stage = "allowed"
      PROVE  subscription'[p] = subscription[p]
  <2>1. subscription'[p] \in {Idle, subscription[p]}
    BY DEF Join, SetRequest, TypeOK
  <2> QED BY <1>3, <2>1 DEF Idle
<1>4. LateRequests'
  BY <1>1, <1>2, <1>3 DEF LateRequests
<1>5. ASSUME NEW r \in room', Revoked(TenantOf[r.auction], r.at)
      PROVE  \/ r.late
             \/ <<InstanceOf[r.socket], TenantOf[r.auction]>> \in scans
             \/ <<InstanceOf[r.socket], r.auction>> \in leaves
  <2>1. CASE r \in room
    BY <1>5, <2>1 DEF LateMembers
  <2>2. CASE r = [socket |-> s, auction |-> a, at |-> request.at, late |-> request.late]
    <3>1. request.stage = "allowed"
      BY DEF Join
    <3>2. r.socket = s /\ r.auction = a /\ r.at = request.at /\ r.late = request.late
      BY <2>2
    <3>3. Revoked(TenantOf[a], request.at) => request.late \/ <<InstanceOf[s], TenantOf[a]>> \in scans
      BY <1>1, <3>1 DEF LateRequests
    <3> QED BY <1>5, <3>2, <3>3
  <2> QED BY <2>1, <2>2 DEF Join
<1>6. LateMembers'
  BY <1>1, <1>2, <1>5 DEF LateMembers
<1> QED BY <1>4, <1>6

(* Those who were asked to leave do when the request arrives. *)
LEMMA LateLeave ==
    ASSUME LateMembers, LateRequests, NEW i \in Instance, NEW a \in Auction, ReceiveLeave(i, a)
    PROVE  LateMembers' /\ LateRequests'
<1>1. UNCHANGED <<scans, subscription, applied>>
  BY DEF ReceiveLeave
<1>2. \A u, at : Revoked(u, at)' => Revoked(u, at)
  BY <1>1, SameRevoked
<1>3. LateRequests'
  BY <1>1, <1>2 DEF LateRequests
<1>4. ASSUME NEW r \in room'
      PROVE  r \in room /\ <<InstanceOf[r.socket], r.auction>> # <<i, a>>
  BY <1>4 DEF ReceiveLeave, LocalTo
<1>5. ASSUME NEW n \in leaves, n # <<i, a>> PROVE n \in leaves'
  BY <1>5 DEF ReceiveLeave
<1>6. LateMembers'
  BY <1>1, <1>2, <1>4, <1>5 DEF LateMembers
<1> QED BY <1>3, <1>6

(* What was handled to the end was published. *)
LEMMA AppliedStep ==
    ASSUME TypeOK, AppliedInv, [Next]_vars
    PROVE  AppliedInv'
<1>1. ASSUME applied' = applied, \A f \in StatusEvent : message'[f] = "unpublished" => message[f] = "unpublished"
      PROVE  AppliedInv'
  BY <1>1 DEF AppliedInv, TypeOK
<1>2. ASSUME NEW e \in StatusEvent, NEW to \in Place \ {"unpublished"},
             message' = [message EXCEPT ![e] = to], applied' \subseteq applied \union {e}
      PROVE  AppliedInv'
  BY <1>2 DEF AppliedInv, TypeOK
<1>3. ASSUME NEW e \in StatusEvent, Issue(e) \/ Process(e) \/ EvictFails(e) \/ LoseReply(e)
      PROVE  AppliedInv'
  <2>1. applied' \subseteq applied \union {e}
    BY <1>3 DEF Issue, Process, Accept, Ignore, Apply, Evict, EvictFails, Release, LoseReply
  <2>2. \E to \in Place \ {"unpublished"} : message' = [message EXCEPT ![e] = to]
    BY <1>3 DEF Issue, Process, Accept, Ignore, Apply, Evict, EvictFails, Release, LoseReply, Place
  <2> QED BY <1>2, <2>1, <2>2
<1>4. ASSUME NEW i \in Instance, NEW e \in StatusEvent, Deliver(i, e) PROVE AppliedInv'
  BY <1>2, <1>4 DEF Deliver, Place
<1>5. ASSUME NEW i \in Instance, Crash(i) PROVE AppliedInv'
  BY <1>1, <1>5 DEF Crash
<1>6. ASSUME NEW i \in Instance,
             \/ \E t \in Tenant : ReceiveScan(i, t)
             \/ \E a \in Auction : ReceiveLeave(i, a)
             \/ LoseNotice(i)
      PROVE  AppliedInv'
  BY <1>1, <1>6 DEF ReceiveScan, ReceiveLeave, LoseNotice
<1>7. ASSUME NEW s \in Socket,
             \/ \E a \in Auction : \/ Subscribe(s, a) \/ Decide(s, a) \/ Join(s, a)
                                   \/ Unsubscribe(s, a) \/ Leave(s, a)
             \/ Disconnect(s)
      PROVE  AppliedInv'
  BY <1>1, <1>7 DEF Subscribe, Decide, Join, Unsubscribe, Leave, Disconnect
<1>8. ASSUME NEW a \in Auction, Project(a) PROVE AppliedInv'
  BY <1>1, <1>8 DEF Project
<1>9. CASE UNCHANGED vars
  BY <1>1, <1>9 DEF vars
<1> QED BY <1>3, <1>4, <1>5, <1>6, <1>7, <1>8, <1>9 DEF Next

LEMMA LateStep ==
    ASSUME TypeOK, IssueInv, LateInv, [Next]_vars
    PROVE  LateInv'
<1> SUFFICES ASSUME faults = 0, faults' = 0 PROVE LateMembers' /\ LateRequests'
  <2>1. AppliedInv'
    BY AppliedStep DEF LateInv
  <2>2. faults # 0 => faults' # 0
    BY FaultsGrow
  <2> QED BY <2>1, <2>2 DEF LateInv
<1>0. AppliedInv /\ LateMembers /\ LateRequests
  BY DEF LateInv
<1>1. ASSUME UNCHANGED <<applied, scans, leaves, subscription>>, room' \subseteq room
      PROVE  LateMembers' /\ LateRequests'
  BY <1>0, <1>1, SameRevoked, LateKept
<1>2. ASSUME NEW e \in StatusEvent, Issue(e) \/ Accept(e) \/ Ignore(e) \/ Release(e)
      PROVE  LateMembers' /\ LateRequests'
  BY <1>1, <1>2 DEF Issue, Accept, Ignore, Release, noticeVars, clientVars
<1>3. ASSUME NEW e \in StatusEvent, Apply(e) PROVE LateMembers' /\ LateRequests'
  <2>1. \A t, at : Revoked(t, at)' => Revoked(t, at)
    BY <1>3 DEF Apply, Revoked
  <2>2. UNCHANGED <<scans, leaves, room, subscription>>
    BY <1>3 DEF Apply, noticeVars, clientVars
  <2> QED BY <1>0, <2>1, <2>2, LateKept
<1>4. ASSUME NEW e \in StatusEvent, Evict(e) \/ EvictFails(e) PROVE LateMembers' /\ LateRequests'
  BY <1>0, <1>4, LateEvict, LateEvictFails
<1>5. ASSUME NEW i \in Instance, NEW e \in StatusEvent, Deliver(i, e)
      PROVE  LateMembers' /\ LateRequests'
  BY <1>1, <1>5 DEF Deliver, noticeVars, clientVars
<1>6. ASSUME NEW i \in Instance, NEW t \in Tenant, ReceiveScan(i, t)
      PROVE  LateMembers' /\ LateRequests'
  <2>1. Scan(i, t, {}) /\ applied' = applied
    BY <1>6 DEF ReceiveScan
  <2> QED BY <1>0, <2>1, SameRevoked, LateScan
<1>7. ASSUME NEW i \in Instance, NEW a \in Auction, ReceiveLeave(i, a)
      PROVE  LateMembers' /\ LateRequests'
  BY <1>0, <1>7, LateLeave
<1>8. ASSUME NEW s \in Socket, NEW a \in Auction, Subscribe(s, a)
      PROVE  LateMembers' /\ LateRequests'
  <2>1. UNCHANGED <<applied, scans, leaves, room>>
    BY <1>8 DEF Subscribe, noticeVars
  <2>2. ASSUME NEW p \in Socket \X Auction, subscription'[p].stage = "allowed"
        PROVE  subscription'[p] = subscription[p]
    <3>1. subscription'[p] \in {[Idle EXCEPT !.stage = "authorizing"], subscription[p]}
      BY <1>8 DEF Subscribe, SetRequest, TypeOK
    <3> QED BY <2>2, <3>1 DEF Idle
  <2> QED BY <1>0, <2>1, <2>2, SameRevoked, LateKept
<1>9. ASSUME NEW s \in Socket, NEW a \in Auction, Decide(s, a) \/ Join(s, a)
      PROVE  LateMembers' /\ LateRequests'
  BY <1>0, <1>9, LateDecide, LateJoin
<1>10. ASSUME NEW s \in Socket, NEW a \in Auction, Unsubscribe(s, a) \/ Leave(s, a) \/ Disconnect(s)
      PROVE  LateMembers' /\ LateRequests'
  BY <1>1, <1>10 DEF Unsubscribe, Leave, Disconnect, noticeVars
<1>11. ASSUME NEW s \in Socket, Disconnect(s) PROVE LateMembers' /\ LateRequests'
  BY <1>1, <1>11 DEF Disconnect, noticeVars
<1>12. ASSUME NEW a \in Auction, Project(a) PROVE LateMembers' /\ LateRequests'
  BY <1>1, <1>12 DEF Project, noticeVars, clientVars
<1>13. ~ \E e \in StatusEvent : LoseReply(e)
  BY DEF LoseReply, Fault
<1>14. ~ \E i \in Instance : Crash(i) \/ LoseNotice(i)
  BY DEF Crash, LoseNotice, Fault
<1>15. CASE UNCHANGED vars
  BY <1>1, <1>15 DEF vars, noticeVars, clientVars
<1> QED
  BY <1>2, <1>3, <1>4, <1>5, <1>6, <1>7, <1>8, <1>9, <1>10, <1>11, <1>12, <1>13, <1>14, <1>15
  DEF Next, Process

-----------------------------------------------------------------------------
(* Theorems                                                                *)

(* In every behaviour the variables have their types, and a message being  *)
(* handled is handled by an instance.                                      *)
THEOREM TypeCorrect == Spec => []TypeOK
<1>1. Init => AdmissionInv
  BY AdmissionInit
<1>2. AdmissionInv /\ [Next]_vars => AdmissionInv'
  BY AdmissionStep
<1>3. AdmissionInv => TypeOK
  BY DEF AdmissionInv
<1> QED BY <1>1, <1>2, <1>3, PTL DEF Spec

(* A socket is in an auction room only if Bidding allowed that request,    *)
(* the auction has a projection and the socket is still connected.         *)
THEOREM OnlyAdmittedMembers == Spec => []MembersWereAdmitted
<1>1. Init => AdmissionInv
  BY AdmissionInit
<1>2. AdmissionInv /\ [Next]_vars => AdmissionInv'
  BY AdmissionStep
<1>3. AdmissionInv => MembersWereAdmitted
  BY DEF AdmissionInv
<1> QED BY <1>1, <1>2, <1>3, PTL DEF Spec

(* As long as no eviction has thrown, whatever crashes, lost replies and   *)
(* redeliveries there are, Redis accepts the status events of a tenant in  *)
(* the order of their versions.                                            *)
THEOREM StatusEventsInOrder == Spec => NewerUnlessReleased
<1>1. Init => ReservedAreCovered
  BY CoveredInit
<1>2. ReservedAreCovered /\ TypeOK /\ [Next]_vars => ReservedAreCovered'
  BY CoveredStep
<1>3. TypeOK /\ ReservedAreCovered /\ [Next]_vars => [fails = 0 => AcceptedAreNewer]_vars
  BY CoveredStep
<1>4. Spec => []TypeOK
  BY TypeCorrect
<1> QED BY <1>1, <1>2, <1>3, <1>4, PTL DEF Spec, NewerUnlessReleased

(* Once every message has been handled and no process failed, a disabled   *)
(* tenant's rooms were emptied or a newer status was accepted, however     *)
(* many evictions failed and were released in between.                     *)
THEOREM DisabledAtRest == Spec => []EnforcedAtRest
<1>1. TypeOK /\ RetryInv => EnforcedAtRest
  BY DEF RetryInv, EnforcedAtRest, Overtaken, Later, Live, UnderWay, Quiet, Superseded
<1>2. TypeOK /\ IssueInv /\ RetryInv /\ [Next]_vars => RetryInv'
  BY RetryStep
<1>3. TypeOK /\ IssueInv /\ [Next]_vars => IssueInv'
  BY IssueStep
<1> QED BY <1>1, <1>2, <1>3, IssueInit, RetryInit, TypeCorrect, PTL DEF Spec

(* Once every eviction is over, every request to leave has arrived and no  *)
(* process failed, the only sockets admitted before their tenant was       *)
(* disabled that are left are those that joined after their instance had   *)
(* looked for members of its rooms.                                        *)
THEOREM EvictionSparesOnlyLateJoiners == Spec => []OnlyLateJoinersSurvive
<1>1. TypeOK /\ LateInv => OnlyLateJoinersSurvive
  <2> SUFFICES ASSUME LateInv, scans = {}, leaves = {}, faults = 0, NEW r \in room,
                      Revoked(TenantOf[r.auction], r.at)
               PROVE  r.late
    BY DEF OnlyLateJoinersSurvive, Quiet, Revoked
  <2> QED BY DEF LateInv, LateMembers
<1>2. TypeOK /\ IssueInv /\ LateInv /\ [Next]_vars => LateInv'
  BY LateStep
<1>3. TypeOK /\ IssueInv /\ [Next]_vars => IssueInv'
  BY IssueStep
<1> QED BY <1>1, <1>2, <1>3, IssueInit, LateInit, TypeCorrect, PTL DEF Spec

=============================================================================
