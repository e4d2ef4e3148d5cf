------------------------- MODULE AdminHandoffProofs -------------------------
(***************************************************************************)
(* Proofs about AdminHandoff, for any number of tokens, requests,          *)
(* redemptions and lost connections, and any expiry times.                 *)
(***************************************************************************)
EXTENDS AdminHandoff, TLAPS

LEMMA ExpiryType == \A r \in Request : ExpiryOf(r) \in Nat
  BY TokenAssumption, TimeAssumption DEF ExpiryOf

LEMMA SecondsType == \A n \in Nat : n \div TicksPerSecond \in Nat
  BY TimeAssumption

LEMMA RoundedUpType == \A n \in Nat : RoundedUp(n) \in Nat
<1> SUFFICES ASSUME NEW n \in Nat PROVE RoundedUp(n) \in Nat
  OBVIOUS
<1>1. n + TicksPerSecond - 1 \in Nat
  BY TimeAssumption
<1>2. (n + TicksPerSecond - 1) \div TicksPerSecond \in Nat
  BY <1>1, SecondsType
<1> QED BY <1>2, TimeAssumption DEF RoundedUp

-----------------------------------------------------------------------------
(* Type correctness                                                        *)

LEMMA InitType == Init => TypeOK
  BY DEF Init, TypeOK, Stage, Redeeming

(* The steps of an exchange. *)
LEMMA ExchangeType ==
    ASSUME TypeOK, NEW r \in Request,
           \/ Exchange(r) \/ Consume(r) \/ Refuse(r) \/ Create(r) \/ Store(r) \/ Answer(r)
           \/ LoseExchange(r)
    PROVE  TypeOK'
<1>1. CASE Exchange(r)
  BY <1>1, ExpiryType DEF TypeOK, Exchange, SetStage, Stage, redisVars, socketVars
<1>2. CASE Consume(r)
  BY <1>2, TokenAssumption DEF TypeOK, Consume, SetStage, Stage, socketVars
<1>3. CASE Refuse(r)
  BY <1>3 DEF TypeOK, Refuse, SetStage, Stage, redisVars, socketVars
<1>4. CASE Create(r)
  <2>1. now < ExpiryOf(r) => ExpiryOf(r) - now \in Nat
    BY ExpiryType DEF TypeOK
  <2>2. now < ExpiryOf(r) => RoundedUp(ExpiryOf(r) - now) \in Nat
    BY <2>1, RoundedUpType
  <2>3. ttl' \in [Request -> Nat] /\ exchange' \in [Request -> Stage]
    BY <1>4, <2>2 DEF TypeOK, Create, SetStage, Stage
  <2> QED BY <1>4, <2>3 DEF TypeOK, Create, redisVars, socketVars
<1>5. CASE Store(r)
  BY <1>5 DEF TypeOK, Store, SetStage, Stage, socketVars
<1>6. CASE Answer(r)
  BY <1>6 DEF TypeOK, Answer, SetStage, Stage, redisVars, socketVars
<1>7. CASE LoseExchange(r)
  BY <1>7, TimeAssumption DEF TypeOK, LoseExchange, SetStage, Stage, Fault, redisVars, socketVars
<1> QED BY <1>1, <1>2, <1>3, <1>4, <1>5, <1>6, <1>7

(* The steps of a redemption. *)
LEMMA RedemptionType ==
    ASSUME TypeOK, NEW d \in Redemption,
           \/ \E r \in Request : Redeem(d, r)
           \/ GetDel(d) \/ Begin(d) \/ RefuseCode(d) \/ LoseRedemption(d)
    PROVE  TypeOK'
<1>1. CASE \E r \in Request : Redeem(d, r)
  BY <1>1 DEF TypeOK, Redeem, Redeeming, redisVars, socketVars
<1>2. CASE GetDel(d)
  BY <1>2 DEF TypeOK, GetDel, Redeeming, socketVars
<1>3. CASE Begin(d)
  <2>1. redemption[d].code \in Request
    BY <1>3 DEF TypeOK, Begin
  <2>2. now \div TicksPerSecond + Lifetime \in Nat
    BY SecondsType, TimeAssumption DEF TypeOK
  <2>3. sessions' \subseteq Session
    BY <1>3, <2>1, <2>2 DEF TypeOK, Begin, Session, Returned
  <2> QED BY <1>3, <2>3 DEF TypeOK, Begin, Redeeming, redisVars, socketVars
<1>4. CASE RefuseCode(d)
  BY <1>4 DEF TypeOK, RefuseCode, Redeeming, redisVars, socketVars
<1>5. CASE LoseRedemption(d)
  <2>1. redemption' \in [Redemption -> Redeeming]
        /\ \A e \in Redemption :
             redemption'[e].stage \in {"getting", "got"} => redemption'[e].code \in Request
    BY <1>5 DEF TypeOK, LoseRedemption, Redeeming
  <2>2. code' \in [Request -> Nat] /\ faults' \in Nat
    BY <1>5, TimeAssumption DEF TypeOK, LoseRedemption, Fault
  <2> QED BY <1>5, <2>1, <2>2 DEF TypeOK, LoseRedemption, socketVars
<1> QED BY <1>1, <1>2, <1>3, <1>4, <1>5

LEMMA NextType ==
    ASSUME TypeOK, [Next]_vars
    PROVE  TypeOK'
<1>1. CASE Tick
  BY <1>1 DEF TypeOK, Tick, redisVars, socketVars
<1>2. ASSUME NEW s \in Socket, Connect(s) \/ Subscribe(s) \/ Unsubscribe(s)
      PROVE  TypeOK'
  <2>1. CASE Connect(s)
    BY <2>1 DEF TypeOK, Connect, redisVars
  <2>2. CASE Subscribe(s)
    <3>1. cookie[s].tenant \in Tenant \union {NoTenant}
      BY <2>2 DEF TypeOK, Subscribe, Authorized, Session
    <3> QED BY <2>2, <3>1 DEF TypeOK, Subscribe, redisVars
  <2>3. CASE Unsubscribe(s)
    BY <2>3 DEF TypeOK, Unsubscribe, redisVars
  <2> QED BY <1>2, <2>1, <2>2, <2>3
<1>3. CASE UNCHANGED vars
  BY <1>3 DEF TypeOK, vars, redisVars, socketVars
<1> QED BY <1>1, <1>2, <1>3, ExchangeType, RedemptionType DEF Next

(* Every reachable state of the login is well typed; in particular a       *)
(* redemption that waits for Redis presents a code.                        *)
THEOREM TypeCorrect == Spec => []TypeOK
<1>1. Init => TypeOK
  BY InitType
<1>2. TypeOK /\ [Next]_vars => TypeOK'
  BY NextType
<1> QED BY <1>1, <1>2, PTL DEF Spec

-----------------------------------------------------------------------------
(* One code per token                                                      *)

LEMMA SameExpiry == \A r, q \in Request : TokenOf[r] = TokenOf[q] => ExpiryOf(r) = ExpiryOf(q)
  BY DEF ExpiryOf

LEMMA InitCode == Init => CodeInv
  BY TokenAssumption DEF Init, CodeInv, Won, Opens

(* Steps that touch neither the exchanges nor the keys of the tokens.      *)
LEMMA QuietCode ==
    ASSUME TypeOK, CodeInv, UNCHANGED <<exchange, ttl, replay, codes>>,
           now' \in Nat, now' >= now
    PROVE  CodeInv'
<1>1. \A r \in Request : (Won(r)' <=> Won(r)) /\ (Opens(r)' <=> Opens(r))
  BY DEF Won, Opens
<1>2. \A r \in Request : ExpiryOf(r)' = ExpiryOf(r) /\ ttl[r] \in Nat
  BY DEF ExpiryOf, TypeOK
<1> QED BY <1>1, <1>2, ExpiryType DEF CodeInv, TypeOK

(* A step that ends the exchange of r, or moves it on without opening a    *)
(* code or winning.                                                        *)
LEMMA QuietExchange ==
    ASSUME TypeOK, CodeInv, NEW r \in Request, NEW s, SetStage(r, s),
           s \in Stage \ {"consuming", "consumed", "creating"},
           s = "lostConsume" => exchange[r] = "consuming",
           s = "lostCreate" => exchange[r] = "creating",
           UNCHANGED <<now, ttl, replay, codes>>
    PROVE  CodeInv'
<1>1. \A q \in Request : exchange'[q] = IF q = r THEN s ELSE exchange[q]
  BY DEF TypeOK, SetStage
<1>2. \A q \in Request : (Won(q)' => Won(q)) /\ (Opens(q)' => Opens(q))
  BY <1>1 DEF Won, Opens
<1>3. \A q \in Request : exchange'[q] \in {"consuming", "lostConsume"} =>
                            exchange[q] \in {"consuming", "lostConsume"}
  BY <1>1
<1> QED BY <1>2, <1>3 DEF CodeInv, ExpiryOf

LEMMA ExchangeCode ==
    ASSUME TypeOK, CodeInv, NEW r \in Request, Exchange(r)
    PROVE  CodeInv'
<1>1. CASE now >= ExpiryOf(r) /\ SetStage(r, "failed") /\ UNCHANGED ttl
  BY <1>1, QuietExchange DEF Exchange, redisVars, Stage
<1>2. CASE now < ExpiryOf(r) /\ SetStage(r, "consuming")
           /\ ttl' = [ttl EXCEPT ![r] = ExpiryOf(r) - now]
  <2>1. /\ exchange' = [exchange EXCEPT ![r] = "consuming"]
        /\ UNCHANGED <<now, replay, codes>>
    BY <1>2 DEF Exchange, redisVars, SetStage
  <2>2. \A q \in Request : (Won(q)' => Won(q)) /\ (Opens(q)' => Opens(q))
    BY <2>1 DEF Won, Opens, TypeOK
  <2>3. ASSUME NEW q \in Request, exchange'[q] \in {"consuming", "lostConsume"}
        PROVE  ExpiryOf(q) > 0 /\ now + ttl'[q] >= ExpiryOf(q)
    <3>1. CASE q = r
      BY <1>2, <3>1, ExpiryType DEF TypeOK
    <3>2. CASE q # r
      BY <1>2, <2>1, <2>3, <3>2 DEF TypeOK, CodeInv
    <3> QED BY <3>1, <3>2
  <2> QED BY <2>1, <2>2, <2>3 DEF CodeInv, ExpiryOf
<1> QED BY <1>1, <1>2 DEF Exchange

(* Redis lets the jti of r through only where nobody won, or too late.     *)
LEMMA ConsumeCode ==
    ASSUME TypeOK, CodeInv, NEW r \in Request, Consume(r)
    PROVE  CodeInv'
<1> DEFINE t == TokenOf[r]
           next == IF exchange[r] = "consuming" THEN "consumed" ELSE "failed"
<1>1. CASE replay[t] > now
  <2>1. t \in Token
    BY TokenAssumption
  <2>2. now \in Nat /\ replay[t] \in Nat
    BY <2>1 DEF TypeOK
  <2>3. /\ SetStage(r, IF exchange[r] = "consuming" THEN "replayed" ELSE "failed")
        /\ UNCHANGED <<now, ttl, replay, codes>>
    BY <1>1, <2>2 DEF Consume
  <2>4. CASE exchange[r] = "consuming"
    BY <2>3, <2>4, QuietExchange DEF Stage
  <2>5. CASE exchange[r] # "consuming"
    BY <2>3, <2>5, QuietExchange DEF Stage
  <2> QED BY <2>4, <2>5
<1>2. CASE replay[t] <= now
  <2>1. /\ t \in Token /\ now \in Nat /\ replay[t] \in Nat /\ ttl[r] \in Nat
        /\ ExpiryOf(r) \in Nat
    BY TokenAssumption, ExpiryType DEF TypeOK
  <2>2. /\ exchange[r] \in {"consuming", "lostConsume"}
        /\ replay' = [replay EXCEPT ![t] = now + ttl[r]]
        /\ exchange' = [exchange EXCEPT ![r] = next]
        /\ UNCHANGED <<now, ttl, codes>>
    BY <1>2, <2>1 DEF Consume, SetStage
  <2>3. ExpiryOf(r) > 0 /\ now + ttl[r] >= ExpiryOf(r)
    BY <2>2 DEF CodeInv
  <2>4. \A q \in Request : replay'[TokenOf[q]] =
          IF TokenOf[q] = t THEN now + ttl[r] ELSE replay[TokenOf[q]]
    BY <2>2, TokenAssumption DEF TypeOK
  <2>5. \A q \in Request : /\ Opens(q)' => Opens(q)
                           /\ Won(q)' => Won(q) \/ q = r
                           /\ exchange'[q] \in {"consuming", "lostConsume"} =>
                                exchange[q] \in {"consuming", "lostConsume"}
    BY <2>2 DEF Won, Opens, TypeOK
  <2>6. \A q \in Request : replay'[TokenOf[q]] = 0 \/ replay'[TokenOf[q]] >= ExpiryOf(q)
    BY <2>3, <2>4, SameExpiry DEF CodeInv
  <2>7. \A q \in Request : Won(q)' => replay'[TokenOf[q]] # 0
    BY <2>1, <2>3, <2>4, <2>5 DEF CodeInv
  <2>8. \A q \in Request : Won(q) /\ TokenOf[q] = t => now >= ExpiryOf(r)
    <3> SUFFICES ASSUME NEW q \in Request, Won(q), TokenOf[q] = t
                 PROVE  now >= ExpiryOf(r)
      OBVIOUS
    <3>1. replay[t] # 0
      BY DEF CodeInv
    <3>2. replay[t] >= ExpiryOf(r)
      BY <3>1 DEF CodeInv
    <3> QED BY <1>2, <2>1, <3>2
  <2>9. ASSUME NEW p \in Request, NEW q \in Request, Won(p)', Won(q)',
               TokenOf[p] = TokenOf[q], p # q
        PROVE  now >= ExpiryOf(p)
    <3>1. CASE p = r
      BY <2>5, <2>8, <2>9, <3>1
    <3>2. CASE q = r
      BY <2>5, <2>8, <2>9, <3>2, SameExpiry
    <3>3. CASE p # r /\ q # r
      BY <2>5, <2>9, <3>3 DEF CodeInv
    <3> QED BY <3>1, <3>2, <3>3
  <2> QED BY <2>2, <2>5, <2>6, <2>7, <2>9 DEF CodeInv, ExpiryOf
<1> QED BY <1>1, <1>2, TokenAssumption DEF TypeOK

(* Who creates a code does so before the token expires, and has no rival.  *)
LEMMA CreateCode ==
    ASSUME TypeOK, CodeInv, NEW r \in Request, Create(r)
    PROVE  CodeInv'
<1>1. CASE now >= ExpiryOf(r) /\ SetStage(r, "failed") /\ UNCHANGED ttl
  BY <1>1, QuietExchange DEF Create, redisVars, Stage
<1>2. CASE now < ExpiryOf(r) /\ SetStage(r, "creating")
           /\ ttl' = [ttl EXCEPT ![r] = RoundedUp(ExpiryOf(r) - now)]
  <2>1. /\ exchange[r] = "consumed"
        /\ exchange' = [exchange EXCEPT ![r] = "creating"]
        /\ UNCHANGED <<now, replay, codes>>
    BY <1>2 DEF Create, redisVars, SetStage
  <2>2. \A q \in Request : /\ Won(q)' => Won(q)
                           /\ Opens(q)' => Opens(q) \/ q = r
                           /\ Opens(q) => Won(q)
    BY <2>1 DEF Won, Opens, TypeOK
  <2>3. Won(r)
    BY <2>1 DEF Won
  <2>4. now \in Nat /\ ExpiryOf(r) \in Nat
    BY ExpiryType DEF TypeOK
  <2>5. \A q \in Request : Won(q) /\ TokenOf[q] = TokenOf[r] => q = r
    BY <1>2, <2>3, <2>4 DEF CodeInv
  <2>6. ASSUME NEW p \in Request, NEW q \in Request, Opens(p)', Opens(q)', TokenOf[p] = TokenOf[q]
        PROVE  p = q
    BY <2>2, <2>5, <2>6 DEF CodeInv
  <2>7. \A q \in Request : exchange'[q] \in {"consuming", "lostConsume"} =>
                              /\ exchange[q] \in {"consuming", "lostConsume"}
                              /\ ttl'[q] = ttl[q]
    BY <1>2, <2>1 DEF TypeOK
  <2> QED BY <2>1, <2>2, <2>6, <2>7 DEF CodeInv, ExpiryOf
<1> QED BY <1>1, <1>2 DEF Create

LEMMA StoreCode ==
    ASSUME TypeOK, CodeInv, NEW r \in Request, Store(r)
    PROVE  CodeInv'
<1>1. /\ exchange[r] \in {"creating", "lostCreate"}
      /\ exchange' = [exchange EXCEPT ![r] =
                        IF exchange[r] = "creating" THEN "created" ELSE "failed"]
      /\ codes' = codes \union {r}
      /\ UNCHANGED <<now, ttl, replay>>
  BY DEF Store, SetStage
<1>2. \A q \in Request : /\ Won(q)' => Won(q)
                         /\ Opens(q)' => Opens(q)
                         /\ exchange'[q] \in {"consuming", "lostConsume"} =>
                              exchange[q] \in {"consuming", "lostConsume"}
  BY <1>1 DEF Won, Opens, TypeOK
<1> QED BY <1>1, <1>2 DEF CodeInv, ExpiryOf

LEMMA NextCode ==
    ASSUME TypeOK, CodeInv, [Next]_vars
    PROVE  CodeInv'
<1>1. CASE Tick
  BY <1>1, QuietCode DEF Tick, TypeOK, redisVars
<1>2. ASSUME NEW r \in Request, Refuse(r) \/ Answer(r) \/ LoseExchange(r)
      PROVE  CodeInv'
  <2>1. CASE Refuse(r)
    BY <2>1, QuietExchange DEF Refuse, Stage, redisVars
  <2>2. CASE Answer(r)
    BY <2>2, QuietExchange DEF Answer, Stage, redisVars
  <2>3. CASE LoseExchange(r)
    BY <2>3, QuietExchange DEF LoseExchange, Stage, redisVars
  <2> QED BY <1>2, <2>1, <2>2, <2>3
<1>3. ASSUME UNCHANGED <<now, exchange, ttl, replay, codes>>
      PROVE  CodeInv'
  BY <1>3, QuietCode DEF TypeOK
<1>4. ASSUME NEW d \in Redemption,
             \/ \E r \in Request : Redeem(d, r)
             \/ GetDel(d) \/ Begin(d) \/ RefuseCode(d) \/ LoseRedemption(d)
      PROVE  CodeInv'
  BY <1>3, <1>4 DEF Redeem, GetDel, Begin, RefuseCode, LoseRedemption, redisVars
<1>5. ASSUME NEW s \in Socket, Connect(s) \/ Subscribe(s) \/ Unsubscribe(s)
      PROVE  CodeInv'
  BY <1>3, <1>5 DEF Connect, Subscribe, Unsubscribe, redisVars
<1>6. CASE UNCHANGED vars
  BY <1>3, <1>6 DEF vars, redisVars
<1> QED BY <1>1, <1>2, <1>4, <1>5, <1>6, ExchangeCode, ConsumeCode, CreateCode, StoreCode DEF Next

(* Typing and the ownership of codes hold in every reachable state. *)
THEOREM CodesCorrect == Spec => [](TypeOK /\ CodeInv)
<1>1. Init => TypeOK /\ CodeInv
  BY InitType, InitCode
<1>2. TypeOK /\ CodeInv /\ [Next]_vars => (TypeOK /\ CodeInv)'
  BY NextType, NextCode
<1> QED BY <1>1, <1>2, PTL DEF Spec

(* No token opens two codes, whatever replies are late or lost and however *)
(* near to its expiry it is presented.                                     *)
THEOREM TokenOpensOneCode == Spec => []OneCodePerToken
<1>1. TypeOK /\ CodeInv => OneCodePerToken
  BY DEF TypeOK, CodeInv, Opens, OneCodePerToken
<1> QED BY <1>1, CodesCorrect, PTL

-----------------------------------------------------------------------------
(* One session per code                                                    *)

LEMMA InitHolder == Init => HolderInv
  BY DEF Init, HolderInv, Holds

(* Steps of an exchange that store no code. *)
LEMMA ExchangeHolder ==
    ASSUME TypeOK, HolderInv, NEW r \in Request, NEW s, SetStage(r, s),
           s \in {"created", "done", "failed"} \/ exchange[r] \in {"new", "consuming", "consumed", "creating"},
           UNCHANGED <<code, codes, redemption, sessions>>
    PROVE  HolderInv'
<1>1. exchange' = [exchange EXCEPT ![r] = s]
  BY DEF SetStage
<1>2. \A q \in codes : exchange'[q] \in {"created", "done", "failed"}
  BY <1>1 DEF HolderInv, TypeOK
<1>3. \A d \in Redemption, q \in Request : Holds(d, q)' <=> Holds(d, q)
  BY DEF Holds
<1> QED BY <1>2, <1>3 DEF HolderInv

(* A code is stored once, under a name nobody held before. *)
LEMMA StoreHolder ==
    ASSUME TypeOK, HolderInv, NEW r \in Request, Store(r)
    PROVE  HolderInv' /\ r \notin codes
<1>1. /\ exchange[r] \in {"creating", "lostCreate"}
      /\ exchange' = [exchange EXCEPT ![r] =
                        IF exchange[r] = "creating" THEN "created" ELSE "failed"]
      /\ code' = [code EXCEPT ![r] = now + ttl[r]]
      /\ codes' = codes \union {r}
      /\ UNCHANGED <<redemption, sessions>>
  BY DEF Store, SetStage
<1>2. r \notin codes
  BY <1>1 DEF HolderInv
<1>3. \A q \in Request : q # r => code'[q] = code[q] /\ exchange'[q] = exchange[q]
  BY <1>1 DEF TypeOK
<1>4. exchange'[r] \in {"created", "done", "failed"}
  BY <1>1 DEF TypeOK
<1>5. \A q \in codes' : exchange'[q] \in {"created", "done", "failed"}
  BY <1>1, <1>3, <1>4 DEF HolderInv, TypeOK
<1>6. \A q \in Request : code'[q] # 0 => q \in codes'
  BY <1>1, <1>3 DEF HolderInv
<1>7. \A d \in Redemption, q \in Request : Holds(d, q)' <=> Holds(d, q)
  BY <1>1 DEF Holds
<1>8. \A d \in Redemption, q \in Request :
        Holds(d, q) => q \in codes' /\ code'[q] = 0 /\ \A s \in sessions : s.code # q
  BY <1>1, <1>2, <1>3 DEF HolderInv
<1>9. \A s \in sessions : s.code \in codes' /\ code'[s.code] = 0
  BY <1>1, <1>2, <1>3 DEF HolderInv, TypeOK
<1> QED BY <1>1, <1>2, <1>5, <1>6, <1>7, <1>8, <1>9 DEF HolderInv

(* Steps of a redemption that neither get a code nor begin a session: they *)
(* may drop a code, and what a redemption holds.                           *)
LEMMA DroppingHolder ==
    ASSUME TypeOK, HolderInv,
           \A d \in Redemption, r \in Request : Holds(d, r)' => Holds(d, r),
           \A r \in Request : code'[r] = code[r] \/ code'[r] = 0,
           UNCHANGED <<exchange, codes, sessions>>
    PROVE  HolderInv'
  BY DEF HolderInv, TypeOK

(* GETDEL hands the claims of a code to one redemption and removes it.     *)
LEMMA GetHolder ==
    ASSUME TypeOK, HolderInv, NEW d \in Redemption, GetDel(d)
    PROVE  HolderInv'
<1> DEFINE r == redemption[d].code
<1>1. /\ redemption[d].stage = "getting" /\ r \in Request
      /\ redemption' = [redemption EXCEPT ![d].stage = IF code[r] > now THEN "got" ELSE "none"]
      /\ code' = [code EXCEPT ![r] = 0]
      /\ UNCHANGED <<now, exchange, codes, sessions>>
  BY DEF GetDel, TypeOK
<1>2. \A q \in Request : code'[q] = IF q = r THEN 0 ELSE code[q]
  BY <1>1 DEF TypeOK
<1>3. \A e \in Redemption, q \in Request :
        Holds(e, q)' => Holds(e, q) \/ (e = d /\ q = r /\ code[r] > now)
  BY <1>1 DEF Holds, TypeOK, Redeeming
<1>4. CASE code[r] > now
  <2>1. code[r] # 0
    BY <1>1, <1>4 DEF TypeOK
  <2>2. /\ r \in codes /\ \A s \in sessions : s.code # r
        /\ \A e \in Redemption : ~Holds(e, r)
    BY <1>1, <2>1 DEF HolderInv
  <2>3. \A e \in Redemption, q \in Request :
          Holds(e, q)' => q \in codes /\ code'[q] = 0 /\ \A s \in sessions : s.code # q
    BY <1>2, <1>3, <2>2 DEF HolderInv
  <2>4. ASSUME NEW e \in Redemption, NEW g \in Redemption, NEW q \in Request,
               Holds(e, q)', Holds(g, q)'
        PROVE  e = g
    BY <1>3, <2>2, <2>4 DEF HolderInv
  <2>5. \A s \in sessions : s.code \in codes /\ code'[s.code] = 0
    BY <1>2 DEF HolderInv, TypeOK
  <2> QED BY <1>1, <1>2, <2>3, <2>4, <2>5 DEF HolderInv
<1>5. CASE ~(code[r] > now)
  BY <1>1, <1>2, <1>3, <1>5, DroppingHolder
<1> QED BY <1>4, <1>5

(* A session begins with a code that one redemption holds, and ends that.  *)
LEMMA BeginHolder ==
    ASSUME TypeOK, HolderInv, NEW d \in Redemption, Begin(d)
    PROVE  /\ HolderInv'
           /\ Holds(d, redemption[d].code) /\ redemption[d].code \in Request
<1> DEFINE r == redemption[d].code
<1>1. /\ redemption[d].stage = "got" /\ r \in Request
      /\ redemption' = [redemption EXCEPT ![d].stage = "done"]
      /\ UNCHANGED <<exchange, code, codes>>
  BY DEF Begin, TypeOK, redisVars
<1>2. Holds(d, r)
  BY <1>1 DEF Holds, TypeOK, Redeeming
<1>3. \A s \in sessions' : s \in sessions \/ s.code = r
  BY DEF Begin
<1>4. /\ r \in codes /\ code[r] = 0
      /\ \A e \in Redemption : Holds(e, r) => e = d
  BY <1>1, <1>2 DEF HolderInv
<1>5. \A e \in Redemption, q \in Request : Holds(e, q)' => Holds(e, q) /\ e # d
  BY <1>1 DEF Holds, TypeOK, Redeeming
<1>6. \A e \in Redemption, q \in Request :
        Holds(e, q)' => q \in codes /\ code[q] = 0 /\ \A s \in sessions' : s.code # q
  BY <1>3, <1>4, <1>5 DEF HolderInv
<1>7. \A s \in sessions' : s.code \in codes /\ code[s.code] = 0
  BY <1>3, <1>4 DEF HolderInv
<1> QED BY <1>1, <1>2, <1>5, <1>6, <1>7 DEF HolderInv

LEMMA NextHolder ==
    ASSUME TypeOK, HolderInv, [Next]_vars
    PROVE  HolderInv'
<1>1. ASSUME NEW r \in Request,
             \/ Exchange(r) \/ Consume(r) \/ Refuse(r) \/ Create(r) \/ Answer(r)
             \/ LoseExchange(r)
      PROVE  HolderInv'
  <2>1. CASE Exchange(r)
    BY <2>1, ExchangeHolder DEF Exchange, redisVars
  <2>2. CASE Consume(r)
    <3>1. CASE exchange[r] = "consuming"
      BY <2>2, <3>1, ExchangeHolder DEF Consume
    <3>2. CASE exchange[r] # "consuming"
      BY <2>2, <3>2, ExchangeHolder DEF Consume
    <3> QED BY <3>1, <3>2
  <2>3. CASE Refuse(r)
    BY <2>3, ExchangeHolder DEF Refuse, redisVars
  <2>4. CASE Create(r)
    BY <2>4, ExchangeHolder DEF Create, redisVars
  <2>5. CASE Answer(r)
    BY <2>5, ExchangeHolder DEF Answer, redisVars
  <2>6. CASE LoseExchange(r)
    BY <2>6, ExchangeHolder DEF LoseExchange, redisVars
  <2> QED BY <1>1, <2>1, <2>2, <2>3, <2>4, <2>5, <2>6
<1>2. ASSUME NEW d \in Redemption,
             (\E r \in Request : Redeem(d, r)) \/ RefuseCode(d) \/ LoseRedemption(d)
      PROVE  HolderInv'
  <2>1. \A e \in Redemption, q \in Request : Holds(e, q)' => Holds(e, q)
    BY <1>2 DEF Redeem, RefuseCode, LoseRedemption, Holds, TypeOK
  <2>2. /\ \A q \in Request : code'[q] = code[q] \/ code'[q] = 0
        /\ UNCHANGED <<exchange, codes, sessions>>
    BY <1>2 DEF Redeem, RefuseCode, LoseRedemption, TypeOK, redisVars
  <2> QED BY <2>1, <2>2, DroppingHolder
<1>3. ASSUME UNCHANGED <<exchange, code, codes, redemption, sessions>>
      PROVE  HolderInv'
  BY <1>3, DroppingHolder DEF Holds
<1>4. CASE Tick \/ UNCHANGED vars
  BY <1>3, <1>4 DEF Tick, vars, redisVars
<1>5. ASSUME NEW s \in Socket, Connect(s) \/ Subscribe(s) \/ Unsubscribe(s)
      PROVE  HolderInv'
  BY <1>3, <1>5 DEF Connect, Subscribe, Unsubscribe, redisVars
<1> QED BY <1>1, <1>2, <1>4, <1>5, StoreHolder, GetHolder, BeginHolder DEF Next

-----------------------------------------------------------------------------
(* The login implements the promise: a stored code is one that the promise *)
(* may open, a session one that it may begin.                              *)


LEMMA StoreRefines ==
    ASSUME TypeOK, CodeInv, HolderInv, NEW r \in Request, Store(r)
    PROVE  Login!Open(r)
<1>1. /\ exchange[r] \in {"creating", "lostCreate"}
      /\ codes' = codes \union {r}
      /\ sessions' = sessions
  BY DEF Store
<1>2. r \notin codes
  BY StoreHolder
<1>3. \A q \in codes : q \in Request /\ Opens(q) /\ Opens(r)
  BY <1>1 DEF Opens, TypeOK
<1>4. \A q \in codes : TokenOf[q] # TokenOf[r]
  BY <1>2, <1>3 DEF CodeInv
<1>5. Begun' = Begun
  BY <1>1 DEF Begun
<1> QED BY <1>1, <1>4, <1>5 DEF Login!Open

LEMMA BeginRefines ==
    ASSUME TypeOK, HolderInv, NEW d \in Redemption, Begin(d)
    PROVE  \E r \in Request : Login!Begin(r, d)
<1> DEFINE r == redemption[d].code
           session == [code |-> r, by |-> d,
                       expiresAt |-> now \div TicksPerSecond + Lifetime,
                       tenant |-> Returned(TenantOf[TokenOf[r]])]
<1>1. r \in Request /\ r \in codes /\ \A s \in sessions : s.code # r
  BY BeginHolder DEF HolderInv
<1>2. sessions' = sessions \union {session} /\ codes' = codes
  BY DEF Begin, redisVars
<1>3. session.code = r /\ session.by = d
  OBVIOUS
<1> HIDE DEF session
<1>4. Begun' = Begun \union {<<r, d>>}
  BY <1>2, <1>3 DEF Begun
<1>5. \A b \in Begun : b[1] # r
  BY <1>1 DEF Begun
<1> HIDE DEF r
<1>6. Login!Begin(r, d)
  BY <1>1, <1>2, <1>4, <1>5 DEF Login!Begin
<1> QED BY <1>1, <1>6

LEMMA StepRefines ==
    ASSUME TypeOK, CodeInv, HolderInv, [Next]_vars
    PROVE  [Login!LoginNext]_<<codes, Begun>>
<1>1. CASE \E r \in Request : Store(r)
  BY <1>1, StoreRefines DEF Login!LoginNext
<1>2. CASE \E d \in Redemption : Begin(d)
  <2>1. PICK d \in Redemption : Begin(d)
    BY <1>2
  <2>2. \E r \in Request : Login!Begin(r, d)
    BY <2>1, BeginRefines
  <2> QED BY <2>2 DEF Login!LoginNext
<1>3. ASSUME UNCHANGED <<codes, sessions>>
      PROVE  UNCHANGED <<codes, Begun>>
  BY <1>3 DEF Begun
<1>4. ASSUME NEW r \in Request,
             \/ Exchange(r) \/ Consume(r) \/ Refuse(r) \/ Create(r) \/ Answer(r)
             \/ LoseExchange(r)
      PROVE  UNCHANGED <<codes, sessions>>
  BY <1>4 DEF Exchange, Consume, Refuse, Create, Answer, LoseExchange, redisVars
<1>5. ASSUME NEW d \in Redemption,
             \/ \E r \in Request : Redeem(d, r)
             \/ GetDel(d) \/ RefuseCode(d) \/ LoseRedemption(d)
      PROVE  UNCHANGED <<codes, sessions>>
  BY <1>5 DEF Redeem, GetDel, RefuseCode, LoseRedemption, redisVars
<1>6. ASSUME NEW s \in Socket, Connect(s) \/ Subscribe(s) \/ Unsubscribe(s)
      PROVE  UNCHANGED <<codes, sessions>>
  BY <1>6 DEF Connect, Subscribe, Unsubscribe, redisVars
<1>7. CASE Tick \/ UNCHANGED vars
  BY <1>3, <1>7 DEF Tick, vars, redisVars
<1> QED BY <1>1, <1>2, <1>3, <1>4, <1>5, <1>6, <1>7 DEF Next

(* The keys in Redis, with the second look at the clock, keep the promise  *)
(* of the login: one code per token, one session per code.                 *)
THEOREM HandoffImplementsLogin == Spec => ImplementsLogin
<1>1. Init => Login!LoginInit
  BY DEF Init, Login!LoginInit, Begun
<1>2. Init => TypeOK /\ CodeInv /\ HolderInv
  BY InitType, InitCode, InitHolder
<1>3. TypeOK /\ CodeInv /\ HolderInv /\ [Next]_vars => (TypeOK /\ CodeInv /\ HolderInv)'
  BY NextType, NextCode, NextHolder
<1>4. TypeOK /\ CodeInv /\ HolderInv /\ [Next]_vars => [Login!LoginNext]_<<codes, Begun>>
  BY StepRefines
<1> QED BY <1>1, <1>2, <1>3, <1>4, PTL DEF Spec, ImplementsLogin, Login!LoginSpec

=============================================================================
