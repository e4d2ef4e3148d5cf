---------------------------- MODULE AdminHandoff ----------------------------
(***************************************************************************)
(* The login of a system administrator.  A server exchanges a signed token *)
(* for a one-time handoff code; the browser redeems the code for a session *)
(* cookie; a socket that presents the cookie joins an admin room.          *)
(*                                                                         *)
(* The instances keep no state of it: the consumed token ids and the codes *)
(* are keys in Redis, each with a time to live that an instance computed   *)
(* when it sent the command.  A command may be executed, and its reply may *)
(* arrive, much later.  Instances and Redis are assumed to agree on the    *)
(* time, which is counted in ticks of a fraction of a second.              *)
(***************************************************************************)
EXTENDS Naturals

CONSTANTS
    Token,          \* tokens, each with a jti of its own
    Tenant,
    NoTenant,       \* the tenant of a global administrator
    TenantOf,       \* token -> its tenant claim, NoTenant if absent
    Exp,            \* token -> its exp claim, in seconds
    Request,        \* exchange requests
    TokenOf,        \* request -> the token it presents
    Redemption,     \* redemptions of a code
    Socket,
    Nobody,         \* no code, no session, no room
    TicksPerSecond,
    Lifetime,       \* of a session, in seconds
    MaxTime,        \* bound on the clock, in ticks
    MaxFaults       \* bound on lost Redis connections

ASSUME TokenAssumption ==
    /\ NoTenant \notin Tenant
    /\ TenantOf \in [Token -> Tenant \union {NoTenant}]
    /\ Exp \in [Token -> Nat]
    /\ TokenOf \in [Request -> Token]
ASSUME NobodyAssumption == Nobody \notin Request \union Tenant \union {NoTenant}
ASSUME TimeAssumption ==
    TicksPerSecond \in Nat \ {0} /\ Lifetime \in Nat /\ MaxTime \in Nat /\ MaxFaults \in Nat

VARIABLES
    now,
    exchange,       \* request -> how far it got
    ttl,            \* request -> the time to live in the command it sent, in ticks
    replay,         \* token -> when its consumed-jti key expires, 0 if never set
    code,           \* request -> when the key of its code expires, 0 if absent
    codes,          \* requests whose code was ever in Redis
    redemption,     \* redemption -> its stage and the code it redeems
    sessions,       \* sessions that were created
    cookie,         \* socket -> the session of its handshake
    room,           \* socket -> the admin room it is in
    faults

redisVars == <<replay, code, codes>>
socketVars == <<cookie, room>>
vars == <<now, exchange, ttl, redisVars, redemption, sessions, socketVars, faults>>

Stage == {"new", "consuming", "consumed", "replayed", "creating", "created", "done",
          "failed", "lostConsume", "lostCreate"}
Redeeming == [stage : {"new", "getting", "got", "none", "done", "failed"},
              code : Request \union {Nobody}]

(* A session and, for the properties, the code and the redemption it is from. *)
Session == [code : Request, by : Redemption, expiresAt : Nat, tenant : Tenant \union {NoTenant}]

TypeOK ==
    /\ now \in Nat
    /\ exchange \in [Request -> Stage]
    /\ ttl \in [Request -> Nat]
    /\ replay \in [Token -> Nat]
    /\ code \in [Request -> Nat]
    /\ codes \subseteq Request
    /\ redemption \in [Redemption -> Redeeming]
    /\ \A d \in Redemption :
         redemption[d].stage \in {"getting", "got"} => redemption[d].code \in Request
    /\ sessions \subseteq Session
    /\ cookie \in [Socket -> Session \union {Nobody}]
    /\ room \in [Socket -> Tenant \union {NoTenant, Nobody}]
    /\ faults \in Nat

Init ==
    /\ now = 1
    /\ exchange = [r \in Request |-> "new"]
    /\ ttl = [r \in Request |-> 0]
    /\ replay = [t \in Token |-> 0]
    /\ code = [r \in Request |-> 0]
    /\ codes = {}
    /\ redemption = [d \in Redemption |-> [stage |-> "new", code |-> Nobody]]
    /\ sessions = {}
    /\ cookie = [s \in Socket |-> Nobody]
    /\ room = [s \in Socket |-> Nobody]
    /\ faults = 0

Tick ==
    /\ now < MaxTime
    /\ now' = now + 1
    /\ UNCHANGED <<exchange, ttl, redisVars, redemption, sessions, socketVars, faults>>

-----------------------------------------------------------------------------
(* The exchange of a token                                                 *)

SetStage(r, s) == exchange' = [exchange EXCEPT ![r] = s]
ExpiryOf(r) == Exp[TokenOf[r]] * TicksPerSecond

(* The token is verified, and its jti is sent to Redis with the time that  *)
(* is left; an expired token is refused.                                   *)
Exchange(r) ==
    /\ exchange[r] = "new"
    /\ \/ /\ now < ExpiryOf(r)
          /\ SetStage(r, "consuming")
          /\ ttl' = [ttl EXCEPT ![r] = ExpiryOf(r) - now]
       \/ /\ now >= ExpiryOf(r)
          /\ SetStage(r, "failed")
          /\ UNCHANGED ttl
    /\ UNCHANGED <<now, redisVars, redemption, sessions, socketVars, faults>>

(* Redis executes SET NX PX on the key of the jti. *)
Consume(r) ==
    /\ exchange[r] \in {"consuming", "lostConsume"}
    /\ \/ /\ replay[TokenOf[r]] <= now
          /\ replay' = [replay EXCEPT ![TokenOf[r]] = now + ttl[r]]
          /\ SetStage(r, IF exchange[r] = "consuming" THEN "consumed" ELSE "failed")
       \/ /\ replay[TokenOf[r]] > now
          /\ SetStage(r, IF exchange[r] = "consuming" THEN "replayed" ELSE "failed")
          /\ UNCHANGED replay
    /\ UNCHANGED <<now, ttl, code, codes, redemption, sessions, socketVars, faults>>

Refuse(r) ==
    /\ exchange[r] = "replayed"
    /\ SetStage(r, "failed")
    /\ UNCHANGED <<now, ttl, redisVars, redemption, sessions, socketVars, faults>>

(* Whole seconds, rounded up, in ticks. *)
RoundedUp(ticks) ==
    ((ticks + TicksPerSecond - 1) \div TicksPerSecond) * TicksPerSecond

(* A mistake: a code is created however late the first reply arrives. *)
CreateUnchecked(r) ==
    /\ exchange[r] = "consumed"
    /\ SetStage(r, "creating")
    /\ ttl' = [ttl EXCEPT ![r] = RoundedUp(IF now < ExpiryOf(r) THEN ExpiryOf(r) - now ELSE 1)]
    /\ UNCHANGED <<now, redisVars, redemption, sessions, socketVars, faults>>

(* The jti was consumed: a code is created, unless the token expired while *)
(* the instance waited for Redis.                                          *)
Create(r) ==
    /\ exchange[r] = "consumed"
    /\ \/ /\ now < ExpiryOf(r)
          /\ SetStage(r, "creating")
          /\ ttl' = [ttl EXCEPT ![r] = RoundedUp(ExpiryOf(r) - now)]
       \/ /\ now >= ExpiryOf(r)
          /\ SetStage(r, "failed")
          /\ UNCHANGED ttl
    /\ UNCHANGED <<now, redisVars, redemption, sessions, socketVars, faults>>

(* Redis executes SET NX EX on the key of a code nobody used before. *)
Store(r) ==
    /\ exchange[r] \in {"creating", "lostCreate"}
    /\ code' = [code EXCEPT ![r] = now + ttl[r]]
    /\ codes' = codes \union {r}
    /\ SetStage(r, IF exchange[r] = "creating" THEN "created" ELSE "failed")
    /\ UNCHANGED <<now, ttl, replay, redemption, sessions, socketVars, faults>>

Answer(r) ==
    /\ exchange[r] = "created"
    /\ SetStage(r, "done")
    /\ UNCHANGED <<now, ttl, redisVars, redemption, sessions, socketVars, faults>>

-----------------------------------------------------------------------------
(* The redemption of a code                                                *)

(* A mistake: a request without a code is looked up all the same. *)
RedeemWithoutCode(d, r) ==
    /\ redemption[d].stage = "new"
    /\ exchange[r] = "done"
    /\ redemption' = [redemption EXCEPT ![d].stage = "getting"]
    /\ UNCHANGED <<now, exchange, ttl, redisVars, sessions, socketVars, faults>>

(* A browser presents a code that some exchange answered with. *)
Redeem(d, r) ==
    /\ redemption[d].stage = "new"
    /\ exchange[r] = "done"
    /\ redemption' = [redemption EXCEPT ![d] = [stage |-> "getting", code |-> r]]
    /\ UNCHANGED <<now, exchange, ttl, redisVars, sessions, socketVars, faults>>

(* A mistake: the code is read and left in place. *)
GetKeeping(d) ==
    /\ redemption[d].stage = "getting"
    /\ redemption' = [redemption EXCEPT ![d].stage =
                        IF code[redemption[d].code] > now THEN "got" ELSE "none"]
    /\ UNCHANGED <<now, exchange, ttl, redisVars, sessions, socketVars, faults>>

(* Redis executes GETDEL. *)
GetDel(d) ==
    LET r == redemption[d].code IN
    /\ redemption[d].stage = "getting"
    /\ redemption' = [redemption EXCEPT ![d].stage = IF code[r] > now THEN "got" ELSE "none"]
    /\ code' = [code EXCEPT ![r] = 0]
    /\ UNCHANGED <<now, exchange, ttl, replay, codes, sessions, socketVars, faults>>

(* What consume() returns of the claims that create() stored. *)
Returned(tenant) == NoTenant

(* The session cookie is signed and set. *)
Begin(d) ==
    /\ redemption[d].stage = "got"
    /\ redemption' = [redemption EXCEPT ![d].stage = "done"]
    /\ sessions' = sessions \union
         {[code |-> redemption[d].code, by |-> d,
           expiresAt |-> now \div TicksPerSecond + Lifetime,
           tenant |-> Returned(TenantOf[TokenOf[redemption[d].code]])]}
    /\ UNCHANGED <<now, exchange, ttl, redisVars, socketVars, faults>>

RefuseCode(d) ==
    /\ redemption[d].stage = "none"
    /\ redemption' = [redemption EXCEPT ![d].stage = "failed"]
    /\ UNCHANGED <<now, exchange, ttl, redisVars, sessions, socketVars, faults>>

-----------------------------------------------------------------------------
(* Admin sockets                                                           *)

(* A socket keeps the cookie of its handshake. *)
Connect(s) ==
    /\ cookie[s] = Nobody
    /\ \E session \in sessions : cookie' = [cookie EXCEPT ![s] = session]
    /\ UNCHANGED <<now, exchange, ttl, redisVars, redemption, sessions, room, faults>>

Authorized(s) == cookie[s] # Nobody /\ cookie[s].expiresAt > now \div TicksPerSecond

(* The room of its tenant, or the global room for a session without one. *)
Subscribe(s) ==
    /\ Authorized(s)
    /\ room' = [room EXCEPT ![s] = cookie[s].tenant]
    /\ UNCHANGED <<now, exchange, ttl, redisVars, redemption, sessions, cookie, faults>>

Unsubscribe(s) ==
    /\ Authorized(s)
    /\ room' = [room EXCEPT ![s] = Nobody]
    /\ UNCHANGED <<now, exchange, ttl, redisVars, redemption, sessions, cookie, faults>>

-----------------------------------------------------------------------------
(* Failures                                                                *)

Fault == faults < MaxFaults /\ faults' = faults + 1

(* The Redis connection is lost while an exchange waits: its request fails,*)
(* and a command that was sent may be executed all the same.               *)
LoseExchange(r) ==
    /\ Fault
    /\ \/ exchange[r] = "consuming" /\ SetStage(r, "lostConsume")
       \/ exchange[r] = "creating" /\ SetStage(r, "lostCreate")
       \/ exchange[r] \in {"consumed", "replayed", "created"} /\ SetStage(r, "failed")
    /\ UNCHANGED <<now, ttl, redisVars, redemption, sessions, socketVars>>

(* The same for a redemption; what GETDEL removed is gone. *)
LoseRedemption(d) ==
    /\ Fault
    /\ redemption[d].stage \in {"getting", "got", "none"}
    /\ redemption' = [redemption EXCEPT ![d].stage = "failed"]
    /\ \/ UNCHANGED code
       \/ redemption[d].stage = "getting" /\ code' = [code EXCEPT ![redemption[d].code] = 0]
    /\ UNCHANGED <<now, exchange, ttl, replay, codes, sessions, socketVars>>

-----------------------------------------------------------------------------
Next ==
    \/ Tick
    \/ \E r \in Request :
         \/ Exchange(r) \/ Consume(r) \/ Refuse(r) \/ Create(r) \/ Store(r) \/ Answer(r)
         \/ LoseExchange(r)
    \/ \E d \in Redemption, r \in Request : Redeem(d, r)
    \/ \E d \in Redemption : GetDel(d) \/ Begin(d) \/ RefuseCode(d) \/ LoseRedemption(d)
    \/ \E s \in Socket : Connect(s) \/ Subscribe(s) \/ Unsubscribe(s)

Spec == Init /\ [][Next]_vars

-----------------------------------------------------------------------------
(* Properties                                                              *)

(* A token opens at most one code, however its exchanges interleave on the *)
(* instances.  The key of its jti expires with the token, so a request     *)
(* that Redis executes after that finds no key; that it creates no code is *)
(* due to the second look at the clock, in RedisAdminHandoffStore.create.  *)
OneCodePerToken ==
    \A r, q \in codes : TokenOf[r] = TokenOf[q] => r = q

(* The invariant behind it.  A request opens a code from the moment it     *)
(* sends it; it has won when Redis let its jti through.  Who has won finds *)
(* a rival only after the token expired, and then opens nothing.           *)
Opens(r) == exchange[r] \in {"creating", "lostCreate"} \/ r \in codes
Won(r) == exchange[r] = "consumed" \/ Opens(r)

CodeInv ==
    /\ \A r \in Request :
         exchange[r] \in {"consuming", "lostConsume"} =>
            ExpiryOf(r) > 0 /\ now + ttl[r] >= ExpiryOf(r)
    /\ \A r \in Request : replay[TokenOf[r]] = 0 \/ replay[TokenOf[r]] >= ExpiryOf(r)
    /\ \A r \in Request : Won(r) => replay[TokenOf[r]] # 0
    /\ \A r, q \in Request :
         Won(r) /\ Won(q) /\ TokenOf[r] = TokenOf[q] /\ r # q => now >= ExpiryOf(r)
    /\ \A r, q \in Request : Opens(r) /\ Opens(q) /\ TokenOf[r] = TokenOf[q] => r = q

(* A code that was redeemed is gone, and one redemption holds its claims.  *)
Holds(d, r) == redemption[d] = [stage |-> "got", code |-> r]

HolderInv ==
    /\ \A r \in Request : code[r] # 0 => r \in codes
    /\ \A r \in codes : exchange[r] \in {"created", "done", "failed"}
    /\ \A d \in Redemption, r \in Request :
         Holds(d, r) => r \in codes /\ code[r] = 0 /\ \A s \in sessions : s.code # r
    /\ \A d, e \in Redemption, r \in Request : Holds(d, r) /\ Holds(e, r) => d = e
    /\ \A s \in sessions : s.code \in codes /\ code[s.code] = 0

Begun == {<<s.code, s.by>> : s \in sessions}

Login == INSTANCE OneTimeLogin WITH begun <- Begun

(* A token begins at most one session: the two one-time keys together keep *)
(* the promise of the login.                                               *)
ImplementsLogin == Login!LoginSpec

(* "tenant-scoped sessions join admin:tenant-activity:{tenantId}": whoever *)
(* logged in with a token of a tenant is in no other admin room.           *)
TenantSessionsJoinTenantRoom ==
    \A s \in Socket :
        room[s] # Nobody /\ TenantOf[TokenOf[cookie[s].code]] # NoTenant =>
            room[s] = TenantOf[TokenOf[cookie[s].code]]

=============================================================================
