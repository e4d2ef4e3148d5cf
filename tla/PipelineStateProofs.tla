------------------------ MODULE PipelineStateProofs ------------------------
(***************************************************************************)
(* More proofs about EventPipeline: what the state in Redis, the history   *)
(* and the acknowledgements have to do with each other, for every value of *)
(* the constants.                                                          *)
(***************************************************************************)
EXTENDS EventPipelineProofs

-----------------------------------------------------------------------------
(* Sequences as sets                                                       *)

LEMMA InRange ==
    ASSUME NEW S, NEW s \in Seq(S)
    PROVE  /\ \A x : x \in Range(s) <=> \E n \in 1 .. Len(s) : x = s[n]
           /\ \A x \in Range(s) : x \in S
<1>1. DOMAIN s = 1 .. Len(s)
  BY LenProperties
<1>2. \A x : x \in Range(s) <=> \E n \in 1 .. Len(s) : x = s[n]
  BY <1>1, Zenon DEF Range
<1>3. \A n \in 1 .. Len(s) : s[n] \in S
  BY ElementOfSeq
<1> QED BY <1>2, <1>3, Zenon

LEMMA RangeAppend ==
    ASSUME NEW S, NEW s \in Seq(S), NEW x \in S
    PROVE  \A y : y \in Range(Append(s, x)) <=> y \in Range(s) \/ y = x
<1> DEFINE t == Append(s, x)
           k == Len(s)
<1>1. t \in Seq(S) /\ Len(t) = k + 1 /\ k \in Nat /\ t[k + 1] = x
      /\ \A n \in 1 .. k : t[n] = s[n]
  BY AppendProperties, LenProperties
<1>2. \A y : y \in Range(t) <=> \E n \in 1 .. Len(t) : y = t[n]
  BY <1>1, InRange, Zenon
<1>3. \A y : y \in Range(s) <=> \E n \in 1 .. k : y = s[n]
  BY InRange, Zenon
<1> HIDE DEF t, k
<1>4. ASSUME NEW y PROVE (\E n \in 1 .. (k + 1) : y = t[n]) <=> (\E n \in 1 .. k : y = s[n]) \/ y = x
  <2>1. \A n \in 1 .. (k + 1) : n \in 1 .. k \/ n = k + 1
    BY <1>1
  <2>2. k + 1 \in 1 .. (k + 1) /\ \A n \in 1 .. k : n \in 1 .. (k + 1)
    BY <1>1
  <2> QED BY <1>1, <2>1, <2>2, Zenon
<1>5. Len(t) = k + 1
  BY <1>1
<1>6. \A y : y \in Range(t) <=> y \in Range(s) \/ y = x
  BY <1>2, <1>3, <1>4, <1>5, Zenon
<1> QED BY <1>6 DEF t

LEMMA RangeTail ==
    ASSUME NEW S, NEW s \in Seq(S), s # <<>>
    PROVE  \A y : y \in Range(s) <=> y \in Range(Tail(s)) \/ y = Head(s)
<1> DEFINE t == Tail(s)
           k == Len(s)
<1>1. /\ t \in Seq(S) /\ k \in Nat \ {0} /\ Len(t) = k - 1
      /\ Head(s) = s[1] /\ \A n \in 1 .. (k - 1) : t[n] = s[n + 1]
  BY HeadTailProperties, EmptySeq, LenProperties
<1>2. \A y : y \in Range(t) <=> \E n \in 1 .. Len(t) : y = t[n]
  BY <1>1, InRange, Zenon
<1>3. \A y : y \in Range(s) <=> \E n \in 1 .. k : y = s[n]
  BY InRange, Zenon
<1> HIDE DEF t, k
<1>4. ASSUME NEW y PROVE (\E n \in 1 .. k : y = s[n]) <=> (\E n \in 1 .. (k - 1) : y = t[n]) \/ y = s[1]
  <2>1. ASSUME NEW n \in 1 .. k, n # 1 PROVE n - 1 \in 1 .. (k - 1) /\ t[n - 1] = s[n]
    BY <1>1, <2>1
  <2>2. ASSUME NEW n \in 1 .. (k - 1) PROVE n + 1 \in 1 .. k /\ t[n] = s[n + 1]
    BY <1>1, <2>2
  <2>3. 1 \in 1 .. k
    BY <1>1
  <2> QED BY <2>1, <2>2, <2>3, Zenon
<1>5. Len(t) = k - 1 /\ Head(s) = s[1]
  BY <1>1
<1>6. \A y : y \in Range(s) <=> y \in Range(t) \/ y = Head(s)
  BY <1>2, <1>3, <1>4, <1>5, Zenon
<1> QED BY <1>6 DEF t

(* Replies whose channel is gone are the same replies. *)
LEMMA RangeDetached ==
    ASSUME NEW s \in Seq(Reply), NEW r \in Range(Detached(s))
    PROVE  \E q \in Range(s) : q.msg = r.msg /\ q.status = r.status
<1>1. Detached(s) \in Seq(Reply) /\ Len(Detached(s)) = Len(s)
  BY DetachedReplies
<1>2. \A y : y \in Range(Detached(s)) <=> \E n \in 1 .. Len(Detached(s)) : y = Detached(s)[n]
  BY <1>1, InRange, Zenon
<1>3. PICK n \in 1 .. Len(s) : r = Detached(s)[n]
  BY <1>1, <1>2
<1>4. s[n] \in Range(s)
  BY InRange, Zenon
<1>5. s[n].msg = r.msg /\ s[n].status = r.status
  BY <1>3, DetachedReplies
<1> QED BY <1>4, <1>5

(* A reply is about an event. *)
LEMMA ReplyCarriesEvent ==
    ASSUME TypeOK, NEW i \in Instance, NEW r \in Range(replies[i])
    PROVE  r \in Reply /\ r.msg \in Valid /\ EventOf[r.msg] \in EventId
<1>1. r \in Reply
  BY InRange DEF TypeOK
<1> QED BY <1>1, ValidCarriesEvent DEF Reply

-----------------------------------------------------------------------------
(* The state in Redis                                                      *)

(* The projection agrees with the version key, whichever branches of the   *)
(* script wrote them; a purchase has an outcome, and Redis is as far as    *)
(* every event it remembers.                                               *)
RedisInv ==
    /\ \A k \in Key : projection[k].aggregateVersion = version[k]
    /\ \A k \in Key : projection[k].purchased => projection[k].final # None
    /\ \A e \in processed : VersionOf(e) <= version[KeyOf(e)]

(* The state has reached e; and has recorded the purchase, if e is one. *)
Reached(e) == VersionOf(e) <= version[KeyOf(e)]
Recorded(e) == Envelope[e].type = "AuctionPurchased" => projection[KeyOf(e)].purchased

LEMMA ProjectedPurchase ==
    ASSUME NEW p \in Projection, NEW e \in EventId, p.purchased => p.final # None
    PROVE  /\ Projected(p, Envelope[e]).aggregateVersion = VersionOf(e)
           /\ Projected(p, Envelope[e]).purchased => Projected(p, Envelope[e]).final # None
           /\ Envelope[e].type = "AuctionPurchased" => Projected(p, Envelope[e]).purchased
<1>1. Envelope[e].type = "AuctionPurchased" => Envelope[e].value # None
  BY EnvelopeType DEF ValidEnvelope
<1>2. Envelope[e].type \in EventType
  BY EnvelopeType DEF ValidEnvelope
<1>3. SetsOutcome(p, Envelope[e]) => Envelope[e].value # None
  BY <1>2, EnvelopeType DEF SetsOutcome, ValidEnvelope
<1>4. Projected(p, Envelope[e]).aggregateVersion = VersionOf(e)
  BY DEF Projected, VersionOf
<1>5. Envelope[e].type = "AuctionPurchased" => Projected(p, Envelope[e]).purchased
  BY DEF Projected
<1>6. ASSUME Projected(p, Envelope[e]).purchased PROVE Projected(p, Envelope[e]).final # None
  <2>1. p.purchased \/ Envelope[e].type = "AuctionPurchased"
    BY <1>6 DEF Projected
  <2>2. CASE SetsOutcome(p, Envelope[e])
    BY <1>3, <2>2 DEF Projected
  <2>3. CASE ~SetsOutcome(p, Envelope[e])
    <3>1. p.purchased
      BY <2>1, <2>3 DEF SetsOutcome
    <3> QED BY <2>3, <3>1 DEF Projected
  <2> QED BY <2>2, <2>3
<1> QED BY <1>4, <1>5, <1>6

(* Whatever the script answers, the state has then reached the event, and  *)
(* keeps what it had reached.                                              *)
LEMMA AcceptReaches ==
    ASSUME StateTypeOK, RedisInv, NEW e \in EventId, AcceptEvent(e)
    PROVE  /\ RedisInv'
           /\ Reached(e)'
           /\ Acceptance(e) \in Applied => Recorded(e)'
<1> USE EnvelopeType DEF StateTypeOK
<1>0. \A k \in Key : version[k] <= version'[k]
  BY AcceptEventStep
<1>1. CASE Acceptance(e) = "duplicate" /\ UNCHANGED redisVars
  <2>1. e \in processed
    BY <1>1 DEF Acceptance
  <2>2. RedisInv'
    BY <1>1 DEF RedisInv, redisVars, VersionOf, KeyOf
  <2> QED BY <1>1, <2>1, <2>2 DEF RedisInv, Reached, Applied, redisVars, VersionOf, KeyOf
<1>2. CASE /\ Acceptance(e) = "stale"
           /\ Remember(e)
           /\ UNCHANGED <<version, projection>>
  <2>1. VersionOf(e) <= version[KeyOf(e)]
    BY <1>2 DEF Acceptance
  <2>2. processed' = processed \union {e}
    BY <1>2 DEF Remember
  <2> QED BY <1>2, <2>1, <2>2 DEF RedisInv, Reached, Applied, VersionOf, KeyOf
<1>3. CASE /\ Acceptance(e) \in Applied
           /\ Remember(e)
           /\ version' = [version EXCEPT ![KeyOf(e)] = VersionOf(e)]
           /\ projection' = [projection EXCEPT ![KeyOf(e)] = Projected(@, Envelope[e])]
  <2> DEFINE q == Projected(projection[KeyOf(e)], Envelope[e])
  <2>1. projection'[KeyOf(e)] = q /\ version'[KeyOf(e)] = VersionOf(e)
        /\ \A k \in Key : k # KeyOf(e) => projection'[k] = projection[k] /\ version'[k] = version[k]
    BY <1>3
  <2>2. /\ q.aggregateVersion = VersionOf(e) /\ (q.purchased => q.final # None)
        /\ Envelope[e].type = "AuctionPurchased" => q.purchased
    BY ProjectedPurchase DEF RedisInv
  <2> HIDE DEF q
  <2>3. processed' = processed \union {e}
    BY <1>3 DEF Remember
  <2>4. \A f \in processed' : VersionOf(f) <= version'[KeyOf(f)]
    <3>1. \A f \in processed : VersionOf(f) <= version'[KeyOf(f)]
      <4> SUFFICES ASSUME NEW f \in processed PROVE VersionOf(f) <= version'[KeyOf(f)]
        OBVIOUS
      <4>1. f \in EventId
        OBVIOUS
      <4>2. VersionOf(f) \in Nat /\ version[KeyOf(f)] \in Nat /\ version'[KeyOf(f)] \in Nat
        BY <4>1, AcceptEventStep
      <4>3. VersionOf(f) <= version[KeyOf(f)] /\ version[KeyOf(f)] <= version'[KeyOf(f)]
        BY <1>0, <4>1 DEF RedisInv
      <4> QED BY <4>2, <4>3
    <3> QED BY <2>1, <2>3, <3>1
  <2>5. RedisInv'
    BY <2>1, <2>2, <2>4 DEF RedisInv, VersionOf, KeyOf
  <2> QED BY <2>1, <2>2, <2>5 DEF Reached, Recorded, VersionOf, KeyOf
<1> QED BY <1>1, <1>2, <1>3 DEF AcceptEvent

(* Nothing that the state has reached or recorded is taken back. *)
LEMMA KeepsReached ==
    ASSUME TypeOK, NEW e \in EventId,
           \A k \in Key : version[k] <= version'[k] /\ (projection[k].purchased => projection'[k].purchased),
           StateTypeOK'
    PROVE  (Reached(e) => Reached(e)') /\ (Recorded(e) => Recorded(e)')
  BY EnvelopeType DEF Reached, Recorded, TypeOK, StateTypeOK, VersionOf, KeyOf

-----------------------------------------------------------------------------
(* What a step does to the replies                                         *)

(* The event whose command the step executes is one of the pipeline's.     *)
LEMMA EvaluatedEvent ==
    ASSUME TypeOK, NEW i \in Instance, Evaluate(i)
    PROVE  \E e \in EventId : \E r \in Reply :
             /\ AcceptEvent(e)
             /\ EventOf[r.msg] = e /\ r.status = Acceptance(e)
             /\ \A j \in Instance : \A q \in Range(replies'[j]) : q \in Range(replies[j]) \/ q = r
<1> DEFINE c == Head(commands[i])
           e == EventOf[c.msg]
           r == [msg |-> c.msg, live |-> c.live, status |-> Acceptance(e)]
<1>1. c \in Command
  BY HeadTailProperties DEF TypeOK, Evaluate
<1>2. e \in EventId
  BY <1>1, ValidCarriesEvent DEF Command
<1>3. r \in Reply /\ EventOf[r.msg] = e /\ r.status = Acceptance(e)
  BY <1>1, <1>2, AcceptanceType DEF Command, Reply
<1>4. AcceptEvent(e) /\ replies' = [replies EXCEPT ![i] = Append(@, r)]
  BY DEF Evaluate
<1> HIDE DEF c, e, r
<1>5. ASSUME NEW j \in Instance, NEW q \in Range(replies'[j]) PROVE q \in Range(replies[j]) \/ q = r
  <2>1. replies[j] \in Seq(Reply)
    BY DEF TypeOK
  <2>2. replies'[j] = (IF j = i THEN Append(replies[j], r) ELSE replies[j])
    BY <1>4 DEF TypeOK
  <2>3. \A y : y \in Range(Append(replies[j], r)) <=> y \in Range(replies[j]) \/ y = r
    BY <1>3, <2>1, RangeAppend
  <2> QED BY <1>5, <2>2, <2>3
<1> QED BY <1>2, <1>3, <1>4, <1>5

(* The handler that resumes takes its reply off the queue. *)
LEMMA ResumedReply ==
    ASSUME TypeOK, NEW i \in Instance, Publish(i) \/ Ignore(i)
    PROVE  /\ Head(replies[i]) \in Range(replies[i])
           /\ \A j \in Instance : \A q \in Range(replies'[j]) : q \in Range(replies[j])
<1>1. replies[i] \in Seq(Reply) /\ replies[i] # <<>>
      /\ \A j \in Instance : replies'[j] = (IF j = i THEN Tail(replies[i]) ELSE replies[j])
  BY DEF TypeOK, Publish, Ignore
<1>2. \A y : y \in Range(replies[i]) <=> y \in Range(Tail(replies[i])) \/ y = Head(replies[i])
  BY <1>1, RangeTail
<1> QED BY <1>1, <1>2

(* Every other step only drops replies, or takes their channel away. *)
LEMMA OtherReplies ==
    ASSUME TypeOK, [Next]_vars, ~ \E i \in Instance : Evaluate(i) \/ Publish(i) \/ Ignore(i),
           NEW j \in Instance, NEW r \in Range(replies'[j])
    PROVE  \E q \in Range(replies[j]) : q.msg = r.msg /\ q.status = r.status
<1>1. CASE replies' = replies
  BY <1>1
<1>2. ASSUME NEW i \in Instance,
             \/ replies' = [replies EXCEPT ![i] = Detached(@)]
             \/ replies' = [replies EXCEPT ![i] = <<>>]
      PROVE  \E q \in Range(replies[j]) : q.msg = r.msg /\ q.status = r.status
  <2>1. replies'[j] \in {replies[j], Detached(replies[j]), <<>>}
    BY <1>2 DEF TypeOK
  <2>2. replies[j] \in Seq(Reply)
    BY DEF TypeOK
  <2>3. CASE replies'[j] = Detached(replies[j])
    BY <2>2, <2>3, RangeDetached
  <2>4. CASE replies'[j] = <<>>
    BY <2>4 DEF Range
  <2> QED BY <2>1, <2>3, <2>4
<1> QED
  BY <1>1, <1>2
  DEF Next, vars, pipelineVars, Deliver, RejectInvalid, Settle, LoseChannel, LoseRedis, Crash,
      EvaluateOrphan, ExpireKey, Insert

(* What Redis keeps: every step preserves the invariant, and no event that *)
(* was reached or recorded ceases to be.                                   *)
LEMMA RedisStep ==
    ASSUME TypeOK, RedisInv, [Next]_vars
    PROVE  /\ RedisInv'
           /\ \A e \in EventId : (Reached(e) => Reached(e)') /\ (Recorded(e) => Recorded(e)')
<1> DEFINE Kept == \A k \in Key :
             version[k] <= version'[k] /\ (projection[k].purchased => projection'[k].purchased)
<1>0. TypeOK' /\ StateTypeOK /\ StateTypeOK'
  BY NextType DEF TypeOK
<1>1. ASSUME NEW e \in EventId, AcceptEvent(e) PROVE RedisInv' /\ Kept
  BY <1>0, <1>1, AcceptReaches, AcceptNeverRegresses
<1>2. ASSUME UNCHANGED <<version, projection>>, processed' \subseteq processed PROVE RedisInv' /\ Kept
  BY <1>0, <1>2 DEF RedisInv, StateTypeOK, VersionOf, KeyOf
<1>3. RedisInv' /\ Kept
  <2>1. CASE \E i \in Instance : Evaluate(i)
    BY <1>1, <2>1, EvaluatedEvent
  <2>2. CASE \E e \in EventId : EvaluateOrphan(e)
    BY <1>1, <2>2 DEF EvaluateOrphan
  <2>3. CASE \E e \in EventId : ExpireKey(e)
    BY <1>2, <2>3 DEF ExpireKey, Expire
  <2>4. CASE UNCHANGED redisVars
    BY <1>2, <2>4 DEF redisVars
  <2> HIDE DEF Kept
  <2> QED
    BY <2>1, <2>2, <2>3, <2>4
    DEF Next, vars, Deliver, RejectInvalid, Settle, Publish, Ignore, LoseChannel, LoseRedis, Crash, Insert
<1>4. ASSUME NEW e \in EventId
      PROVE  (Reached(e) => Reached(e)') /\ (Recorded(e) => Recorded(e)')
  BY <1>0, <1>3, KeepsReached
<1> QED BY <1>3, <1>4

-----------------------------------------------------------------------------
(* Acknowledgements and broadcasts                                         *)

(* An acknowledgement and a broadcast are decided by the reply, so what    *)
(* holds of them has to hold of the reply: its event was reached, and if   *)
(* it may be broadcast, recorded.                                          *)
AckInv ==
    /\ \A i \in Instance : \A r \in Range(replies[i]) :
          /\ Reached(EventOf[r.msg])
          /\ r.status \in Applied => Recorded(EventOf[r.msg])
    /\ \A e \in Broadcast : Reached(e) /\ Recorded(e)
    /\ AckedIsApplied

LEMMA BroadcastStep ==
    ASSUME TypeOK, [Next]_vars
    PROVE  /\ Broadcast \subseteq EventId
           /\ \A e \in Broadcast' :
                \/ e \in Broadcast
                \/ \E i \in Instance : Publish(i) /\ e = EventOf[Head(replies[i]).msg]
           /\ Broadcast \subseteq Broadcast'
           /\ \A i \in Instance : Publish(i) => EventOf[Head(replies[i]).msg] \in Broadcast'
<1>1. \A j \in Instance : feed[j] \in Seq(EventId)
  BY DEF TypeOK
<1>2. Broadcast \subseteq EventId
  BY <1>1, InRange DEF Broadcast
<1>3. ASSUME NEW i \in Instance, Publish(i)
      PROVE  \A e : e \in Broadcast' <=> e \in Broadcast \/ e = EventOf[Head(replies[i]).msg]
  <2> DEFINE f == EventOf[Head(replies[i]).msg]
  <2>1. f \in EventId
    BY <1>3, ResumedReply, ReplyCarriesEvent
  <2>2. \A j \in Instance : feed'[j] = (IF j = i THEN Append(feed[j], f) ELSE feed[j])
    BY <1>3 DEF Publish, TypeOK
  <2> HIDE DEF f
  <2>3. \A y : y \in Range(Append(feed[i], f)) <=> y \in Range(feed[i]) \/ y = f
    BY <1>1, <2>1, RangeAppend
  <2>4. \A y : (\E j \in Instance : y \in Range(feed'[j])) <=> (\E j \in Instance : y \in Range(feed[j])) \/ y = f
    BY <2>2, <2>3
  <2>5. \A y : y \in Broadcast' <=> y \in Broadcast \/ y = f
    BY <2>4 DEF Broadcast
  <2> QED BY <2>5 DEF f
<1>4. ASSUME ~ \E i \in Instance : Publish(i) PROVE feed' = feed
  BY <1>4
  DEF Next, vars, pipelineVars, Deliver, RejectInvalid, Settle, Evaluate, Ignore, LoseChannel, LoseRedis,
      Crash, EvaluateOrphan, ExpireKey, Insert
<1>5. feed' = feed => Broadcast' = Broadcast
  BY DEF Broadcast
<1> QED BY <1>2, <1>3, <1>4, <1>5

(* Only a handler that resumes acknowledges, and only its own message. *)
LEMMA AckStep ==
    ASSUME TypeOK, [Next]_vars, NEW m \in Valid, broker'[m] \in {"acking", "acked"}
    PROVE  \/ broker[m] \in {"acking", "acked"}
           \/ \E i \in Instance : (Publish(i) \/ Ignore(i)) /\ m = Head(replies[i]).msg
<1> SUFFICES ASSUME broker[m] \notin {"acking", "acked"}
             PROVE  \E i \in Instance : (Publish(i) \/ Ignore(i)) /\ m = Head(replies[i]).msg
  OBVIOUS
<1>0. m \in Message
  BY ValidCarriesEvent
<1> USE <1>0 DEF TypeOK
<1>1. ~ \E i \in Instance, l \in Message : Deliver(i, l) \/ RejectInvalid(i, l)
  BY DEF Deliver, RejectInvalid
<1>2. ~ \E l \in Message : Settle(l)
  BY DEF Settle
<1>3. ~ \E i \in Instance : LoseChannel(i) \/ LoseRedis(i) \/ Crash(i)
  BY DEF LoseChannel, LoseRedis, Crash, Requeued
<1>4. broker' # broker
  OBVIOUS
<1>5. PICK i \in Instance : Publish(i) \/ Ignore(i)
  BY <1>1, <1>2, <1>3, <1>4
  DEF Next, vars, pipelineVars, Evaluate, EvaluateOrphan, ExpireKey, Insert
<1>6. m = Head(replies[i]).msg
  BY <1>4, <1>5 DEF Publish, Ignore, Ack
<1> QED BY <1>5, <1>6

LEMMA AckInvStep ==
    ASSUME TypeOK, RedisInv, AckInv, [Next]_vars
    PROVE  AckInv'
<1>1. \A e \in EventId : (Reached(e) => Reached(e)') /\ (Recorded(e) => Recorded(e)')
  BY RedisStep
<1>2. ASSUME NEW i \in Instance, NEW r \in Range(replies'[i])
      PROVE  /\ Reached(EventOf[r.msg])'
             /\ r.status \in Applied => Recorded(EventOf[r.msg])'
  <2>1. ASSUME NEW q \in Range(replies[i]), q.msg = r.msg, q.status = r.status
        PROVE  /\ Reached(EventOf[r.msg])'
               /\ r.status \in Applied => Recorded(EventOf[r.msg])'
    BY <1>1, <2>1, ReplyCarriesEvent DEF AckInv
  <2>2. ASSUME NEW j \in Instance, Evaluate(j)
        PROVE  /\ Reached(EventOf[r.msg])'
               /\ r.status \in Applied => Recorded(EventOf[r.msg])'
    <3>1. PICK e \in EventId : \E s \in Reply :
             /\ AcceptEvent(e)
             /\ EventOf[s.msg] = e /\ s.status = Acceptance(e)
             /\ \A l \in Instance : \A q \in Range(replies'[l]) : q \in Range(replies[l]) \/ q = s
      BY <2>2, EvaluatedEvent
    <3>2. CASE r \in Range(replies[i])
      BY <2>1, <3>2
    <3>3. CASE r \notin Range(replies[i])
      <4>1. EventOf[r.msg] = e /\ r.status = Acceptance(e) /\ AcceptEvent(e)
        BY <3>1, <3>3
      <4>2. Reached(e)' /\ (Acceptance(e) \in Applied => Recorded(e)')
        BY <4>1, AcceptReaches DEF TypeOK
      <4> QED BY <4>1, <4>2 DEF Reached, Recorded, VersionOf, KeyOf
    <3> QED BY <3>2, <3>3
  <2>3. ASSUME NEW j \in Instance, Publish(j) \/ Ignore(j)
        PROVE  r \in Range(replies[i])
    BY <2>3, ResumedReply
  <2> QED BY <2>1, <2>2, <2>3, OtherReplies
<1>3. ASSUME NEW e \in Broadcast' PROVE Reached(e)' /\ Recorded(e)'
  <2>1. CASE e \in Broadcast
    BY <1>1, <2>1, BroadcastStep DEF AckInv
  <2>2. ASSUME NEW i \in Instance, Publish(i), e = EventOf[Head(replies[i]).msg]
        PROVE  Reached(e)' /\ Recorded(e)'
    <3>1. Head(replies[i]) \in Range(replies[i]) /\ e \in EventId
      BY <2>2, ResumedReply, ReplyCarriesEvent
    <3>2. Head(replies[i]).status \in Applied
      BY <2>2 DEF Publish
    <3> QED BY <1>1, <2>2, <3>1, <3>2 DEF AckInv
  <2> QED BY <2>1, <2>2, BroadcastStep
<1>4. ASSUME NEW m \in Valid, broker'[m] \in {"acking", "acked"}
      PROVE  VersionOf(EventOf[m]) <= version'[KeyOf(EventOf[m])]
  <2>0. EventOf[m] \in EventId
    BY ValidCarriesEvent
  <2>1. CASE broker[m] \in {"acking", "acked"}
    BY <1>1, <2>0, <2>1 DEF AckInv, AckedIsApplied, Reached, VersionOf, KeyOf
  <2>2. ASSUME NEW i \in Instance, Publish(i) \/ Ignore(i), m = Head(replies[i]).msg
        PROVE  VersionOf(EventOf[m]) <= version'[KeyOf(EventOf[m])]
    BY <1>1, <2>0, <2>2, ResumedReply DEF AckInv, Reached, VersionOf, KeyOf
  <2> QED BY <1>4, <2>1, <2>2, AckStep
<1>5. AckedIsApplied'
  BY <1>4 DEF AckedIsApplied, VersionOf, KeyOf
<1> QED BY <1>2, <1>3, <1>5 DEF AckInv

LEMMA AckInvInit == Init => RedisInv /\ AckInv
<1> SUFFICES ASSUME Init PROVE RedisInv /\ AckInv
  OBVIOUS
<1>1. RedisInv
  BY DEF Init, StateInit, EmptyProjection, RedisInv
<1>2. \A i \in Instance : Range(replies[i]) = {} /\ Range(feed[i]) = {}
  BY DEF Init, Range
<1>3. Broadcast = {}
  BY <1>2 DEF Broadcast
<1>4. AckedIsApplied
  BY ValidCarriesEvent DEF Init, AckedIsApplied
<1> QED BY <1>1, <1>2, <1>3, <1>4 DEF AckInv

(* The two invariants hold in every behaviour, expiry included. *)
THEOREM StateCorrect == Spec => [](RedisInv /\ AckInv)
<1>1. TypeOK /\ RedisInv /\ AckInv /\ [Next]_vars => RedisInv' /\ AckInv'
  BY RedisStep, AckInvStep
<1> QED BY <1>1, AckInvInit, TypeCorrect, PTL DEF Spec

(* A message is acknowledged only when the state has reached its event,    *)
(* whatever crashes, lost replies and redeliveries preceded the ack.       *)
THEOREM AcksFollowEffects == Spec => []AckedIsApplied
<1>1. AckInv => AckedIsApplied
  BY DEF AckInv
<1> QED BY <1>1, StateCorrect, PTL

(* What clients were told is in the projection that a subscriber reads     *)
(* afterwards, also when the processed keys expire.                        *)
THEOREM FeedIsBacked == Spec => []FeedIsBackedByProjection
<1>1. TypeOK /\ RedisInv /\ AckInv => FeedIsBackedByProjection
  <2> SUFFICES ASSUME TypeOK, RedisInv, AckInv, NEW e \in Broadcast
               PROVE  /\ VersionOf(e) <= projection[KeyOf(e)].aggregateVersion
                      /\ projection[KeyOf(e)].aggregateVersion = version[KeyOf(e)]
                      /\ Envelope[e].type = "AuctionPurchased" =>
                            projection[KeyOf(e)].purchased /\ projection[KeyOf(e)].final # None
    BY DEF FeedIsBackedByProjection
  <2>1. e \in EventId
    <3>1. \A i \in Instance : \A f \in Range(feed[i]) : f \in EventId
      BY InRange DEF TypeOK
    <3> QED BY <3>1 DEF Broadcast
  <2>2. KeyOf(e) \in Key /\ Reached(e) /\ Recorded(e)
    BY <2>1, EnvelopeType DEF AckInv
  <2> QED BY <2>2 DEF RedisInv, Reached, Recorded
<1> QED BY <1>1, StateCorrect, TypeCorrect, PTL

-----------------------------------------------------------------------------
(* The history                                                             *)

(* A row is an insert that was started, and an insert that says applied    *)
(* was started by the handler that broadcast.                              *)
HistoryInv ==
    \A e \in EventId :
        /\ <<e, "applied">> \in inserts => e \in Broadcast
        /\ history[e] # None => <<e, history[e]>> \in inserts

LEMMA InsertStep ==
    ASSUME TypeOK, [Next]_vars, NEW e \in EventId, NEW o, <<e, o>> \in inserts'
    PROVE  \/ <<e, o>> \in inserts
           \/ \E i \in Instance :
                /\ EventOf[Head(replies[i]).msg] = e
                /\ \/ Publish(i) /\ o = "applied"
                   \/ Ignore(i) /\ o = IgnoredOutcome(Head(replies[i]).status)
<1>1. ASSUME NEW i \in Instance, Publish(i) \/ Ignore(i)
      PROVE  \/ <<e, o>> \in inserts
             \/ /\ EventOf[Head(replies[i]).msg] = e
                /\ \/ Publish(i) /\ o = "applied"
                   \/ Ignore(i) /\ o = IgnoredOutcome(Head(replies[i]).status)
  BY <1>1 DEF Publish, Ignore, Record
<1>2. ASSUME ~ \E i \in Instance : Publish(i) \/ Ignore(i) PROVE inserts' = inserts
  BY <1>2
  DEF Next, vars, pipelineVars, Deliver, RejectInvalid, Settle, Evaluate, LoseChannel, LoseRedis, Crash,
      EvaluateOrphan, ExpireKey, Insert
<1> QED BY <1>1, <1>2

LEMMA HistoryInvStep ==
    ASSUME TypeOK, HistoryInv, [Next]_vars
    PROVE  HistoryInv'
<1>1. ASSUME NEW e \in EventId, <<e, "applied">> \in inserts' PROVE e \in Broadcast'
  <2>1. ~ \E status : IgnoredOutcome(status) = "applied"
    BY DEF IgnoredOutcome
  <2>2. CASE <<e, "applied">> \in inserts
    BY <2>2, BroadcastStep DEF HistoryInv
  <2>3. ASSUME NEW i \in Instance, Publish(i), EventOf[Head(replies[i]).msg] = e PROVE e \in Broadcast'
    BY <2>3, BroadcastStep
  <2>4. \/ <<e, "applied">> \in inserts
        \/ \E i \in Instance : Publish(i) /\ EventOf[Head(replies[i]).msg] = e
    BY <1>1, <2>1, InsertStep
  <2> QED BY <2>2, <2>3, <2>4
<1>2. ASSUME NEW e \in EventId, history'[e] # None PROVE <<e, history'[e]>> \in inserts'
  <2>1. inserts \subseteq inserts'
    BY DEF Next, vars, pipelineVars, Deliver, RejectInvalid, Settle, Evaluate, Publish, Ignore, Record,
           LoseChannel, LoseRedis, Crash, EvaluateOrphan, ExpireKey, Insert
  <2>2. CASE history'[e] = history[e]
    BY <1>2, <2>1, <2>2 DEF HistoryInv
  <2>3. CASE history'[e] # history[e]
    <3>1. PICK f \in EventId, outcome \in Outcome : Insert(f, outcome)
      BY <2>3
      DEF Next, vars, pipelineVars, Deliver, RejectInvalid, Settle, Evaluate, Publish, Ignore,
          LoseChannel, LoseRedis, Crash, EvaluateOrphan, ExpireKey
    <3>2. e = f /\ history'[e] = outcome /\ <<f, outcome>> \in inserts
      BY <2>3, <3>1 DEF Insert, TypeOK
    <3> QED BY <2>1, <3>2
  <2> QED BY <2>2, <2>3
<1> QED BY <1>1, <1>2 DEF HistoryInv

(* Events that were, or will be, broadcast; events that were, or will be,  *)
(* recorded as stale.                                                      *)
Sent(e) ==
    \/ e \in Broadcast
    \/ \E i \in Instance : \E r \in Range(replies[i]) : EventOf[r.msg] = e /\ r.status \in Applied
Overtaken(e) ==
    \/ <<e, "stale">> \in inserts
    \/ \E i \in Instance : \E r \in Range(replies[i]) : EventOf[r.msg] = e /\ r.status = "stale"

(* No event is both, as Redis remembers it after its first run. *)
StaleInv ==
    \A e \in EventId :
        /\ Sent(e) \/ Overtaken(e) => e \in processed
        /\ ~(Sent(e) /\ Overtaken(e))

(* Only the script makes an event one of these. *)
LEMMA SentStep ==
    ASSUME TypeOK, [Next]_vars, ~ \E i \in Instance : Evaluate(i), NEW e \in EventId
    PROVE  (Sent(e)' => Sent(e)) /\ (Overtaken(e)' => Overtaken(e))
<1>1. ASSUME NEW i \in Instance, NEW r \in Range(replies'[i])
      PROVE  \E q \in Range(replies[i]) : q.msg = r.msg /\ q.status = r.status
  BY <1>1, ResumedReply, OtherReplies
<1>2. Sent(e)' => Sent(e)
  <2>1. ASSUME NEW i \in Instance, Publish(i), e = EventOf[Head(replies[i]).msg] PROVE Sent(e)
    <3>1. Head(replies[i]) \in Range(replies[i]) /\ Head(replies[i]).status \in Applied
      BY <2>1, ResumedReply DEF Publish
    <3> QED BY <2>1, <3>1 DEF Sent
  <2>2. e \in Broadcast' => Sent(e)
    BY <2>1, BroadcastStep DEF Sent
  <2> QED BY <1>1, <2>2 DEF Sent
<1>3. Overtaken(e)' => Overtaken(e)
  <2>1. ASSUME NEW i \in Instance, Ignore(i), e = EventOf[Head(replies[i]).msg],
               IgnoredOutcome(Head(replies[i]).status) = "stale"
        PROVE  Overtaken(e)
    <3>1. Head(replies[i]) \in Range(replies[i]) /\ Head(replies[i]).status = "stale"
      BY <2>1, ResumedReply DEF IgnoredOutcome
    <3> QED BY <2>1, <3>1 DEF Overtaken
  <2>2. <<e, "stale">> \in inserts' => Overtaken(e)
    BY <2>1, InsertStep DEF Overtaken
  <2> QED BY <1>1, <2>2 DEF Overtaken
<1> QED BY <1>2, <1>3

LEMMA StaleInvStep ==
    ASSUME TypeOK, StaleInv, [Next]_vars, ~CanExpire
    PROVE  StaleInv'
<1>1. CASE ~ \E i \in Instance : Evaluate(i)
  <2>1. processed \subseteq processed'
    <3>1. \A e \in EventId : EvaluateOrphan(e) => processed \subseteq processed'
      BY AcceptEventStep DEF EvaluateOrphan, TypeOK
    <3>2. ~ \E e \in EventId : ExpireKey(e)
      BY DEF ExpireKey, Expire
    <3> QED
      BY <1>1, <3>1, <3>2
      DEF Next, vars, redisVars, Deliver, RejectInvalid, Settle, Publish, Ignore, LoseChannel,
          LoseRedis, Crash, Insert
  <2> QED BY <1>1, <2>1, SentStep DEF StaleInv
<1>2. ASSUME NEW i \in Instance, Evaluate(i) PROVE StaleInv'
  <2>1. PICK f \in EventId : \E s \in Reply :
             /\ AcceptEvent(f)
             /\ EventOf[s.msg] = f /\ s.status = Acceptance(f)
             /\ \A l \in Instance : \A q \in Range(replies'[l]) : q \in Range(replies[l]) \/ q = s
    BY <1>2, EvaluatedEvent
  <2>2. processed' = processed \union {f}
    BY <2>1, AcceptEventStep DEF TypeOK
  <2>3. UNCHANGED <<inserts, feed>> /\ Broadcast' = Broadcast
    BY <1>2 DEF Evaluate, Broadcast
  <2>4. \A e \in EventId : Sent(e)' => Sent(e) \/ (e = f /\ Acceptance(f) \in Applied)
    BY <2>1, <2>3 DEF Sent
  <2>5. \A e \in EventId : Overtaken(e)' => Overtaken(e) \/ (e = f /\ Acceptance(f) = "stale")
    BY <2>1, <2>3 DEF Overtaken
  <2>6. Acceptance(f) \in Applied \union {"stale"} => f \notin processed
    BY DEF Acceptance, Applied
  <2>7. "stale" \notin Applied
    BY DEF Applied
  <2> QED BY <2>2, <2>4, <2>5, <2>6, <2>7 DEF StaleInv
<1> QED BY <1>1, <1>2

LEMMA HistoryInit == Init => HistoryInv /\ StaleInv
<1> SUFFICES ASSUME Init PROVE HistoryInv /\ StaleInv
  OBVIOUS
<1>1. \A i \in Instance : Range(replies[i]) = {} /\ Range(feed[i]) = {}
  BY DEF Init, Range
<1>2. Broadcast = {} /\ inserts = {} /\ \A e \in EventId : history[e] = None
  BY <1>1 DEF Broadcast, Init
<1> QED BY <1>1, <1>2 DEF HistoryInv, StaleInv, Sent, Overtaken

(* A row of the history that says applied belongs to a broadcast event,    *)
(* and one that says stale to an event nobody was sent, whichever insert   *)
(* of an event came first; processed keys must not expire.                 *)
THEOREM HistoryTellsTheTruth ==
    ASSUME ~CanExpire
    PROVE  Spec => []HistoryIsTruthful
<1>1. TypeOK /\ HistoryInv /\ StaleInv /\ [Next]_vars => HistoryInv' /\ StaleInv'
  BY HistoryInvStep, StaleInvStep
<1>2. HistoryInv /\ StaleInv => HistoryIsTruthful
  <2> SUFFICES ASSUME HistoryInv, StaleInv, NEW e \in EventId
               PROVE  /\ history[e] = "applied" => e \in Broadcast
                      /\ history[e] = "stale" => e \notin Broadcast
    BY DEF HistoryIsTruthful
  <2>1. None # "applied" /\ None # "stale"
    BY OutcomeAssumption DEF Outcome
  <2> QED BY <2>1 DEF HistoryInv, StaleInv, Sent, Overtaken
<1> QED BY <1>1, <1>2, HistoryInit, TypeCorrect, PTL DEF Spec

-----------------------------------------------------------------------------
(* Settling                                                                *)

(* Deliveries are told apart by their places, as two of them may be equal: *)
(* those that instance i can still settle are of messages that wait for    *)
(* it, each of another one.                                                *)
SettleAt(i) ==
    /\ \A n \in 1 .. Len(commands[i]) :
          commands[i][n].live =>
              broker[commands[i][n].msg] = "unacked" /\ owner[commands[i][n].msg] = i
    /\ \A n \in 1 .. Len(replies[i]) :
          replies[i][n].live =>
              broker[replies[i][n].msg] = "unacked" /\ owner[replies[i][n].msg] = i
    /\ \A n, p \in 1 .. Len(commands[i]) :
          commands[i][n].live /\ commands[i][p].live /\ commands[i][n].msg = commands[i][p].msg
            => n = p
    /\ \A n, p \in 1 .. Len(replies[i]) :
          replies[i][n].live /\ replies[i][p].live /\ replies[i][n].msg = replies[i][p].msg
            => n = p
    /\ \A n \in 1 .. Len(commands[i]), p \in 1 .. Len(replies[i]) :
          commands[i][n].live /\ replies[i][p].live => commands[i][n].msg # replies[i][p].msg

SettleInv == \A i \in Instance : SettleAt(i)

LEMMA PlaceType ==
    ASSUME TypeOK, NEW i \in Instance
    PROVE  /\ Len(commands[i]) \in Nat /\ Len(replies[i]) \in Nat
           /\ commands[i] \in Seq(Command) /\ replies[i] \in Seq(Reply)
           /\ \A n \in 1 .. Len(commands[i]) :
                commands[i][n].msg \in Message /\ commands[i][n].live \in BOOLEAN
           /\ \A n \in 1 .. Len(replies[i]) :
                replies[i][n].msg \in Message /\ replies[i][n].live \in BOOLEAN
<1>1. commands[i] \in Seq(Command) /\ replies[i] \in Seq(Reply)
  BY DEF TypeOK
<1>2. /\ \A n \in 1 .. Len(commands[i]) : commands[i][n] \in Command
      /\ \A n \in 1 .. Len(replies[i]) : replies[i][n] \in Reply
  BY <1>1, ElementOfSeq
<1> QED BY <1>1, <1>2, LenProperties, ValidCarriesEvent DEF Command, Reply

(* An instance that a step leaves alone. *)
LEMMA SettleElsewhere ==
    ASSUME TypeOK, NEW j \in Instance, SettleAt(j),
           commands'[j] = commands[j], replies'[j] = replies[j],
           \A m \in Message : broker[m] = "unacked" /\ owner[m] = j =>
               broker'[m] = "unacked" /\ owner'[m] = j
    PROVE  SettleAt(j)'
<1>1. /\ \A n \in 1 .. Len(commands'[j]) :
            commands'[j][n].live =>
                broker'[commands'[j][n].msg] = "unacked" /\ owner'[commands'[j][n].msg] = j
      /\ \A n \in 1 .. Len(replies'[j]) :
            replies'[j][n].live =>
                broker'[replies'[j][n].msg] = "unacked" /\ owner'[replies'[j][n].msg] = j
  BY PlaceType DEF SettleAt
<1> QED BY <1>1 DEF SettleAt

(* An instance all of whose deliveries lost their channel. *)
LEMMA NothingLive ==
    ASSUME NEW i \in Instance,
           \A n \in 1 .. Len(commands'[i]) : ~commands'[i][n].live,
           \A n \in 1 .. Len(replies'[i]) : ~replies'[i][n].live
    PROVE  SettleAt(i)'
  BY DEF SettleAt

LEMMA DetachedIsDead ==
    ASSUME NEW s, s \in Seq(Command) \/ s \in Seq(Reply),
           NEW n \in 1 .. Len(Detached(s))
    PROVE  ~Detached(s)[n].live
<1>1. ASSUME NEW S, S = Command \/ S = Reply, s \in Seq(S) PROVE ~Detached(s)[n].live
  <2>1. DOMAIN s = 1 .. Len(s) /\ Len(s) \in Nat /\ \A p \in 1 .. Len(s) : s[p] \in S
    BY <1>1, LenProperties, ElementOfSeq
  <2>2. n \in 1 .. Len(s)
    BY <1>1, DetachedReplies, DetachedCommands, <2>1, LenProperties DEF Detached
  <2> QED BY <1>1, <2>1, <2>2 DEF Detached, Command, Reply
<1> QED BY <1>1

LEMMA SettleFaults ==
    ASSUME TypeOK, SettleInv, NEW i \in Instance, LoseChannel(i) \/ LoseRedis(i) \/ Crash(i)
    PROVE  SettleInv'
<1>1. \/ commands'[i] = Detached(commands[i]) /\ replies'[i] = Detached(replies[i])
      \/ commands'[i] = <<>> /\ replies'[i] = <<>>
  BY DEF TypeOK, LoseChannel, LoseRedis, Crash
<1>2. SettleAt(i)'
  <2>1. CASE commands'[i] = Detached(commands[i]) /\ replies'[i] = Detached(replies[i])
    BY <2>1, PlaceType, NothingLive, DetachedIsDead
  <2>2. CASE commands'[i] = <<>> /\ replies'[i] = <<>>
    BY <2>2, NothingLive
  <2> QED BY <1>1, <2>1, <2>2
<1>3. ASSUME NEW m \in Message, m \in LiveMessages(commands[i]) \union LiveMessages(replies[i])
      PROVE  owner[m] = i
  <2>1. /\ DOMAIN commands[i] = 1 .. Len(commands[i])
        /\ DOMAIN replies[i] = 1 .. Len(replies[i])
    BY PlaceType, LenProperties
  <2> QED BY <1>3, <2>1 DEF LiveMessages, SettleInv, SettleAt
<1>4. ASSUME NEW j \in Instance, j # i, NEW m \in Message, broker[m] = "unacked", owner[m] = j
      PROVE  broker'[m] = "unacked" /\ owner'[m] = j
  <2>1. m \notin Unsettled(i)
    BY <1>4 DEF Unsettled
  <2>2. m \notin LiveMessages(commands[i]) \union LiveMessages(replies[i])
    BY <1>3, <1>4
  <2> QED BY <1>4, <2>1, <2>2 DEF LoseChannel, LoseRedis, Crash, Requeued
<1>5. ASSUME NEW j \in Instance, j # i PROVE commands'[j] = commands[j] /\ replies'[j] = replies[j]
  BY <1>5 DEF TypeOK, LoseChannel, LoseRedis, Crash
<1> QED BY <1>2, <1>4, <1>5, SettleElsewhere DEF SettleInv

(* A handler that resumes settles its own delivery and no other. *)
LEMMA SettleResumed ==
    ASSUME TypeOK, SettleInv, NEW i \in Instance, Publish(i) \/ Ignore(i)
    PROVE  SettleInv'
<1> DEFINE r == replies[i][1]
<1>1. /\ replies[i] # <<>> /\ replies'[i] = Tail(replies[i]) /\ UNCHANGED <<commands, owner>>
      /\ \A j \in Instance : j # i => replies'[j] = replies[j]
  BY DEF TypeOK, Publish, Ignore
<1>2. /\ Len(replies'[i]) = Len(replies[i]) - 1 /\ 1 \in 1 .. Len(replies[i])
      /\ \A n \in 1 .. Len(replies'[i]) : replies'[i][n] = replies[i][n + 1]
  BY <1>1, PlaceType, HeadTailProperties, EmptySeq
<1>3. Head(replies[i]) = r
  OBVIOUS
<1>4. \A m \in Message : broker'[m] = IF r.live /\ m = r.msg THEN "acking" ELSE broker[m]
  BY <1>3 DEF Publish, Ignore, Ack, TypeOK
<1>5. r.live => broker[r.msg] = "unacked" /\ owner[r.msg] = i
  BY <1>2 DEF SettleInv, SettleAt
<1>6. ASSUME NEW n \in 1 .. Len(replies'[i])
      PROVE  n + 1 \in 1 .. Len(replies[i]) /\ n + 1 # 1 /\ replies'[i][n] = replies[i][n + 1]
  BY <1>2, PlaceType
<1> HIDE DEF r
<1>7. SettleAt(i)'
  <2>1. ASSUME NEW n \in 1 .. Len(commands'[i]), commands'[i][n].live
        PROVE  broker'[commands'[i][n].msg] = "unacked" /\ owner'[commands'[i][n].msg] = i
    <3>1. n \in 1 .. Len(commands[i]) /\ commands'[i][n] = commands[i][n]
      BY <1>1
    <3>2. r.live => commands[i][n].msg # r.msg
      BY <1>2, <2>1, <3>1 DEF SettleInv, SettleAt, r
    <3>3. broker[commands[i][n].msg] = "unacked" /\ owner[commands[i][n].msg] = i /\ commands[i][n].msg \in Message
      BY <2>1, <3>1, PlaceType DEF SettleInv, SettleAt
    <3> QED BY <1>1, <1>4, <3>1, <3>2, <3>3
  <2>2. ASSUME NEW n \in 1 .. Len(replies'[i]), replies'[i][n].live
        PROVE  broker'[replies'[i][n].msg] = "unacked" /\ owner'[replies'[i][n].msg] = i
    <3>1. n + 1 \in 1 .. Len(replies[i]) /\ n + 1 # 1 /\ replies'[i][n] = replies[i][n + 1]
      BY <1>6
    <3>2. r.live => replies[i][n + 1].msg # r.msg
      BY <1>2, <2>2, <3>1 DEF SettleInv, SettleAt, r
    <3>3. broker[replies[i][n + 1].msg] = "unacked" /\ owner[replies[i][n + 1].msg] = i
          /\ replies[i][n + 1].msg \in Message
      BY <2>2, <3>1, PlaceType DEF SettleInv, SettleAt
    <3> QED BY <1>1, <1>4, <3>1, <3>2, <3>3
  <2>3. ASSUME NEW n \in 1 .. Len(replies'[i]), NEW p \in 1 .. Len(replies'[i]),
               replies'[i][n].live, replies'[i][p].live, replies'[i][n].msg = replies'[i][p].msg
        PROVE  n = p
    <3>1. \A a, b \in 1 .. Len(replies[i]) :
            replies[i][a].live /\ replies[i][b].live /\ replies[i][a].msg = replies[i][b].msg => a = b
      BY DEF SettleInv, SettleAt
    <3>2. /\ n + 1 \in 1 .. Len(replies[i]) /\ replies'[i][n] = replies[i][n + 1]
          /\ p + 1 \in 1 .. Len(replies[i]) /\ replies'[i][p] = replies[i][p + 1]
      BY <1>6
    <3>3. n + 1 = p + 1
      BY <2>3, <3>1, <3>2
    <3> QED BY <3>3, <1>2, PlaceType
  <2>4. ASSUME NEW n \in 1 .. Len(commands'[i]), NEW p \in 1 .. Len(replies'[i]),
               commands'[i][n].live, replies'[i][p].live
        PROVE  commands'[i][n].msg # replies'[i][p].msg
    BY <1>1, <1>6, <2>4 DEF SettleInv, SettleAt
  <2>5. \A n, p \in 1 .. Len(commands'[i]) :
          commands'[i][n].live /\ commands'[i][p].live /\ commands'[i][n].msg = commands'[i][p].msg
            => n = p
    BY <1>1 DEF SettleInv, SettleAt
  <2> QED BY <2>1, <2>2, <2>3, <2>4, <2>5 DEF SettleAt
<1>8. ASSUME NEW j \in Instance, j # i PROVE SettleAt(j)'
  <2>1. \A m \in Message : broker[m] = "unacked" /\ owner[m] = j =>
          broker'[m] = "unacked" /\ owner'[m] = j
    BY <1>1, <1>4, <1>5, <1>8
  <2> QED BY <1>1, <1>8, <2>1, SettleElsewhere DEF SettleInv
<1> QED BY <1>7, <1>8 DEF SettleInv

(* A message that is delivered waits for nobody else. *)
LEMMA SettleDelivered ==
    ASSUME TypeOK, SettleInv, NEW i \in Instance, NEW m \in Message, Deliver(i, m)
    PROVE  SettleInv'
<1> DEFINE c == [msg |-> m, live |-> TRUE]
           k == Len(commands[i])
<1>1. /\ commands'[i] = Append(commands[i], c) /\ replies' = replies /\ broker[m] = "ready"
      /\ \A j \in Instance : j # i => commands'[j] = commands[j]
      /\ \A l \in Message : broker'[l] = IF l = m THEN "unacked" ELSE broker[l]
      /\ \A l \in Message : owner'[l] = IF l = m THEN i ELSE owner[l]
  BY DEF TypeOK, Deliver, Receive
<1>2. c \in Command
  BY DEF Deliver, Command
<1>3. /\ Len(commands'[i]) = k + 1 /\ k \in Nat /\ commands'[i][k + 1] = c
      /\ \A n \in 1 .. k : commands'[i][n] = commands[i][n]
  BY <1>1, <1>2, PlaceType, AppendProperties
<1>4. c.msg = m /\ c.live
  OBVIOUS
<1> HIDE DEF c
<1>5. \A n \in 1 .. Len(commands'[i]) :
        (n \in 1 .. k /\ commands'[i][n] = commands[i][n]) \/ (n = k + 1 /\ commands'[i][n] = c)
  BY <1>3
<1>6. /\ \A n \in 1 .. k : commands[i][n].live => commands[i][n].msg # m
      /\ \A n \in 1 .. Len(replies[i]) : replies[i][n].live => replies[i][n].msg # m
  BY <1>1 DEF SettleInv, SettleAt
<1>7. SettleAt(i)'
  <2>1. ASSUME NEW n \in 1 .. Len(commands'[i]), commands'[i][n].live
        PROVE  broker'[commands'[i][n].msg] = "unacked" /\ owner'[commands'[i][n].msg] = i
    BY <1>1, <1>4, <1>5, <2>1, PlaceType DEF SettleInv, SettleAt
  <2>2. ASSUME NEW n \in 1 .. Len(replies'[i]), replies'[i][n].live
        PROVE  broker'[replies'[i][n].msg] = "unacked" /\ owner'[replies'[i][n].msg] = i
    BY <1>1, <1>6, <2>2, PlaceType DEF SettleInv, SettleAt
  <2>3. ASSUME NEW n \in 1 .. Len(commands'[i]), NEW p \in 1 .. Len(commands'[i]),
               commands'[i][n].live, commands'[i][p].live, commands'[i][n].msg = commands'[i][p].msg
        PROVE  n = p
    BY <1>4, <1>5, <1>6, <2>3 DEF SettleInv, SettleAt
  <2>4. ASSUME NEW n \in 1 .. Len(commands'[i]), NEW p \in 1 .. Len(replies'[i]),
               commands'[i][n].live, replies'[i][p].live
        PROVE  commands'[i][n].msg # replies'[i][p].msg
    BY <1>1, <1>4, <1>5, <1>6, <2>4 DEF SettleInv, SettleAt
  <2>5. \A n, p \in 1 .. Len(replies'[i]) :
          replies'[i][n].live /\ replies'[i][p].live /\ replies'[i][n].msg = replies'[i][p].msg
            => n = p
    BY <1>1 DEF SettleInv, SettleAt
  <2> QED BY <2>1, <2>2, <2>3, <2>4, <2>5 DEF SettleAt
<1>8. ASSUME NEW j \in Instance, j # i PROVE SettleAt(j)'
  BY <1>1, <1>8, SettleElsewhere DEF SettleInv
<1> QED BY <1>7, <1>8 DEF SettleInv

(* A command that is executed becomes the last reply. *)
LEMMA SettleEvaluated ==
    ASSUME TypeOK, SettleInv, NEW i \in Instance, Evaluate(i)
    PROVE  SettleInv'
<1> DEFINE c == commands[i][1]
           r == [msg |-> c.msg, live |-> c.live, status |-> Acceptance(EventOf[c.msg])]
           k == Len(replies[i])
<1>1. /\ commands[i] # <<>> /\ commands'[i] = Tail(commands[i]) /\ replies'[i] = Append(replies[i], r)
      /\ \A j \in Instance : j # i => commands'[j] = commands[j] /\ replies'[j] = replies[j]
      /\ UNCHANGED <<broker, owner>>
  BY DEF TypeOK, Evaluate
<1>2. /\ Len(commands'[i]) = Len(commands[i]) - 1 /\ 1 \in 1 .. Len(commands[i])
      /\ \A n \in 1 .. Len(commands'[i]) : commands'[i][n] = commands[i][n + 1]
  BY <1>1, PlaceType, HeadTailProperties, EmptySeq
<1>3. r \in Reply
  <2>1. c \in Command
    BY <1>2, PlaceType, ElementOfSeq
  <2> QED BY <2>1, ValidCarriesEvent, AcceptanceType DEF Command, Reply
<1>4. /\ Len(replies'[i]) = k + 1 /\ k \in Nat /\ replies'[i][k + 1] = r
      /\ \A n \in 1 .. k : replies'[i][n] = replies[i][n]
  BY <1>1, <1>3, PlaceType, AppendProperties
<1>5. r.msg = c.msg /\ r.live = c.live
  OBVIOUS
<1> HIDE DEF c, r
<1>6. \A n \in 1 .. Len(commands'[i]) :
        n + 1 \in 1 .. Len(commands[i]) /\ n + 1 # 1 /\ commands'[i][n] = commands[i][n + 1]
  BY <1>2, PlaceType
<1>7. \A n \in 1 .. Len(replies'[i]) :
        (n \in 1 .. k /\ replies'[i][n] = replies[i][n]) \/ (n = k + 1 /\ replies'[i][n] = r)
  BY <1>4
<1>8. c.live =>
        /\ broker[c.msg] = "unacked" /\ owner[c.msg] = i
        /\ \A n \in 1 .. Len(commands[i]) : commands[i][n].live /\ n # 1 => commands[i][n].msg # c.msg
        /\ \A n \in 1 .. k : replies[i][n].live => replies[i][n].msg # c.msg
  BY <1>2 DEF SettleInv, SettleAt, c
<1>9. SettleAt(i)'
  <2>1. ASSUME NEW n \in 1 .. Len(commands'[i]), commands'[i][n].live
        PROVE  broker'[commands'[i][n].msg] = "unacked" /\ owner'[commands'[i][n].msg] = i
    BY <1>1, <1>6, <2>1 DEF SettleInv, SettleAt
  <2>2. ASSUME NEW n \in 1 .. Len(replies'[i]), replies'[i][n].live
        PROVE  broker'[replies'[i][n].msg] = "unacked" /\ owner'[replies'[i][n].msg] = i
    BY <1>1, <1>5, <1>7, <1>8, <2>2 DEF SettleInv, SettleAt
  <2>3. ASSUME NEW n \in 1 .. Len(commands'[i]), NEW p \in 1 .. Len(commands'[i]),
               commands'[i][n].live, commands'[i][p].live, commands'[i][n].msg = commands'[i][p].msg
        PROVE  n = p
    <3>1. \A a, b \in 1 .. Len(commands[i]) :
            commands[i][a].live /\ commands[i][b].live /\ commands[i][a].msg = commands[i][b].msg => a = b
      BY DEF SettleInv, SettleAt
    <3>2. /\ n + 1 \in 1 .. Len(commands[i]) /\ commands'[i][n] = commands[i][n + 1]
          /\ p + 1 \in 1 .. Len(commands[i]) /\ commands'[i][p] = commands[i][p + 1]
      BY <1>6
    <3>3. n + 1 = p + 1
      BY <2>3, <3>1, <3>2
    <3> QED BY <3>3, <1>2, PlaceType
  <2>4. ASSUME NEW n \in 1 .. Len(replies'[i]), NEW p \in 1 .. Len(replies'[i]),
               replies'[i][n].live, replies'[i][p].live, replies'[i][n].msg = replies'[i][p].msg
        PROVE  n = p
    BY <1>5, <1>7, <1>8, <2>4 DEF SettleInv, SettleAt
  <2>5. ASSUME NEW n \in 1 .. Len(commands'[i]), NEW p \in 1 .. Len(replies'[i]),
               commands'[i][n].live, replies'[i][p].live
        PROVE  commands'[i][n].msg # replies'[i][p].msg
    <3>1. n + 1 \in 1 .. Len(commands[i]) /\ n + 1 # 1 /\ commands[i][n + 1].live
          /\ commands'[i][n].msg = commands[i][n + 1].msg
      BY <1>6, <2>5
    <3>2. CASE p \in 1 .. k /\ replies'[i][p] = replies[i][p]
      BY <2>5, <3>1, <3>2 DEF SettleInv, SettleAt
    <3>3. CASE replies'[i][p] = r
      BY <1>5, <1>8, <2>5, <3>1, <3>3
    <3> QED BY <1>7, <3>2, <3>3
  <2> QED BY <2>1, <2>2, <2>3, <2>4, <2>5 DEF SettleAt
<1>10. ASSUME NEW j \in Instance, j # i PROVE SettleAt(j)'
  BY <1>1, <1>10, SettleElsewhere DEF SettleInv
<1> QED BY <1>9, <1>10 DEF SettleInv

LEMMA SettleStep ==
    ASSUME TypeOK, SettleInv, [Next]_vars
    PROVE  SettleInv'
<1>1. ASSUME UNCHANGED <<commands, replies>>,
             \A m \in Message : broker[m] = "unacked" => broker'[m] = "unacked" /\ owner'[m] = owner[m]
      PROVE  SettleInv'
  BY <1>1, SettleElsewhere DEF SettleInv
<1>2. ASSUME NEW i \in Instance, NEW m \in Message, RejectInvalid(i, m) PROVE SettleInv'
  BY <1>1, <1>2 DEF RejectInvalid, Receive, TypeOK
<1>3. ASSUME NEW m \in Message, Settle(m) PROVE SettleInv'
  BY <1>1, <1>3 DEF Settle, TypeOK
<1>4. CASE UNCHANGED <<broker, owner, commands, replies>>
  BY <1>1, <1>4
<1> QED
  BY <1>2, <1>3, <1>4, SettleDelivered, SettleEvaluated, SettleResumed, SettleFaults
  DEF Next, vars, pipelineVars, EvaluateOrphan, ExpireKey, Insert

LEMMA SettleInit == Init => SettleInv
  BY DEF Init, SettleInv, SettleAt

(* A handler that can still settle its delivery is the only one that can,  *)
(* and the broker is waiting for it, whatever was lost and redelivered.    *)
THEOREM SettlesOnce == Spec => []SettledOnce
<1>1. TypeOK /\ SettleInv => SettledOnce
  <2> SUFFICES ASSUME TypeOK, SettleInv,
                      NEW i \in Instance, NEW c \in Pending(i), c.live
               PROVE  /\ broker[c.msg] = "unacked" /\ owner[c.msg] = i
                      /\ \A j \in Instance : \A d \in Pending(j) :
                            d.live /\ d.msg = c.msg => i = j /\ c = d
    BY DEF SettledOnce
  <2>1. \A j \in Instance : \A d \in Pending(j) :
          \/ \E n \in 1 .. Len(commands[j]) : d = commands[j][n]
          \/ \E n \in 1 .. Len(replies[j]) : d = replies[j][n]
    BY PlaceType, InRange DEF Pending
  <2>2. \A j \in Instance : \A d \in Pending(j) :
          d.live => broker[d.msg] = "unacked" /\ owner[d.msg] = j
    BY <2>1 DEF SettleInv, SettleAt
  <2>3. ASSUME NEW d \in Pending(i), d.live, d.msg = c.msg PROVE c = d
    <3>1. SettleAt(i)
      BY DEF SettleInv
    <3>2. ASSUME NEW n \in 1 .. Len(commands[i]), c = commands[i][n] PROVE c = d
      BY <2>1, <2>3, <3>1, <3>2 DEF SettleAt
    <3>3. ASSUME NEW n \in 1 .. Len(replies[i]), c = replies[i][n] PROVE c = d
      BY <2>1, <2>3, <3>1, <3>3 DEF SettleAt
    <3> QED BY <2>1, <3>2, <3>3
  <2> QED BY <2>2, <2>3
<1>2. TypeOK /\ SettleInv /\ [Next]_vars => SettleInv'
  BY SettleStep
<1> QED BY <1>1, <1>2, SettleInit, TypeCorrect, PTL DEF Spec

-----------------------------------------------------------------------------
(* Nothing is skipped                                                      *)

(* An event whose fate is settled: it was or will be broadcast, or a newer *)
(* version of its auction was accepted before it.                          *)
Behind(e) == VersionOf(e) < version[KeyOf(e)]
Accounted(e) == Sent(e) \/ Behind(e)

(* While no connection was lost and no instance died, every event Redis    *)
(* has seen is accounted for, and a valid message is never rejected.       *)
SkipInv ==
    /\ \A m \in Valid : broker[m] \notin {"rejecting", "dead"}
    /\ faults = 0 =>
         /\ orphans = {}
         /\ \A e \in processed : Accounted(e)
         /\ \A i \in Instance : \A r \in Range(replies[i]) : Accounted(EventOf[r.msg])
         /\ \A m \in Valid : broker[m] \in {"acking", "acked"} => Accounted(EventOf[m])

LEMMA VersionGrows ==
    ASSUME TypeOK, [Next]_vars
    PROVE  \A k \in Key : version[k] <= version'[k]
<1>0. StateTypeOK
  BY DEF TypeOK
<1>1. ASSUME NEW e \in EventId, AcceptEvent(e) PROVE \A k \in Key : version[k] <= version'[k]
  BY <1>0, <1>1, AcceptNeverRegresses
<1>2. version' = version => \A k \in Key : version[k] <= version'[k]
  BY <1>0 DEF StateTypeOK
<1>3. CASE \E i \in Instance : Evaluate(i)
  BY <1>1, <1>3, EvaluatedEvent
<1>4. CASE \E e \in EventId : EvaluateOrphan(e)
  BY <1>1, <1>4 DEF EvaluateOrphan
<1>5. CASE \E e \in EventId : ExpireKey(e)
  BY <1>2, <1>5 DEF ExpireKey, Expire
<1>6. CASE UNCHANGED redisVars
  BY <1>2, <1>6 DEF redisVars
<1> QED
  BY <1>3, <1>4, <1>5, <1>6
  DEF Next, vars, Deliver, RejectInvalid, Settle, Publish, Ignore, LoseChannel, LoseRedis, Crash, Insert

(* Without a failure, a reply waits until its handler resumes on it.       *)
LEMMA RepliesWait ==
    ASSUME TypeOK, [Next]_vars, faults' = faults,
           NEW i \in Instance, NEW r \in Range(replies[i])
    PROVE  \/ r \in Range(replies'[i])
           \/ (Publish(i) \/ Ignore(i)) /\ r = Head(replies[i])
<1>1. replies \in [Instance -> Seq(Reply)] /\ replies[i] \in Seq(Reply)
  BY DEF TypeOK
<1>2. ASSUME NEW j \in Instance, Evaluate(j) PROVE r \in Range(replies'[i])
  <2>1. PICK s \in Reply : replies' = [replies EXCEPT ![j] = Append(@, s)]
    <3> DEFINE c == Head(commands[j])
    <3>1. c \in Command
      BY <1>2, HeadTailProperties DEF TypeOK, Evaluate
    <3>2. [msg |-> c.msg, live |-> c.live, status |-> Acceptance(EventOf[c.msg])] \in Reply
      BY <3>1, ValidCarriesEvent, AcceptanceType DEF Command, Reply
    <3> QED BY <1>2, <3>2 DEF Evaluate
  <2>2. replies'[i] \in {replies[i], Append(replies[i], s)}
    BY <1>1, <2>1
  <2>3. r \in Range(Append(replies[i], s))
    BY <1>1, RangeAppend
  <2> QED BY <2>2, <2>3
<1>3. ASSUME NEW j \in Instance, Publish(j) \/ Ignore(j)
      PROVE  \/ r \in Range(replies'[i])
             \/ (Publish(i) \/ Ignore(i)) /\ r = Head(replies[i])
  <2>1. replies[j] # <<>> /\ replies' = [replies EXCEPT ![j] = Tail(@)]
    BY <1>3 DEF Publish, Ignore
  <2>2. CASE i # j
    BY <1>1, <2>1, <2>2
  <2>3. CASE i = j
    <3>1. replies'[i] = Tail(replies[i]) /\ replies[i] # <<>>
      BY <1>1, <2>1, <2>3
    <3>2. r \in Range(Tail(replies[i])) \/ r = Head(replies[i])
      BY <1>1, <3>1, RangeTail
    <3> QED BY <1>3, <2>3, <3>1, <3>2
  <2> QED BY <2>2, <2>3
<1>4. ~ \E j \in Instance : LoseChannel(j) \/ LoseRedis(j) \/ Crash(j)
  BY DEF LoseChannel, LoseRedis, Crash, Fault, TypeOK
<1>5. CASE replies' = replies
  BY <1>5
<1> QED
  BY <1>2, <1>3, <1>4, <1>5
  DEF Next, vars, pipelineVars, Deliver, RejectInvalid, Settle, EvaluateOrphan, ExpireKey, Insert

(* An event that is accounted for remains so. *)
LEMMA StaysAccounted ==
    ASSUME TypeOK, [Next]_vars, faults' = faults, NEW e \in EventId, Accounted(e)
    PROVE  Accounted(e)'
<1>1. CASE Behind(e)
  <2>1. KeyOf(e) \in Key /\ VersionOf(e) \in Nat
    BY EnvelopeType
  <2>2. version[KeyOf(e)] \in Nat /\ version'[KeyOf(e)] \in Nat
    BY <2>1, NextType DEF TypeOK, StateTypeOK, KeyOf
  <2>3. Behind(e)'
    BY <1>1, <2>1, <2>2, VersionGrows DEF Behind, VersionOf, KeyOf
  <2> QED BY <2>3 DEF Accounted
<1>2. CASE e \in Broadcast
  BY <1>2, BroadcastStep DEF Accounted, Sent
<1>3. ASSUME NEW i \in Instance, NEW r \in Range(replies[i]), EventOf[r.msg] = e, r.status \in Applied
      PROVE  Accounted(e)'
  <2>1. CASE r \in Range(replies'[i])
    BY <1>3, <2>1 DEF Accounted, Sent
  <2>2. CASE Publish(i) /\ r = Head(replies[i])
    BY <1>3, <2>2, BroadcastStep DEF Accounted, Sent
  <2>3. ~(Ignore(i) /\ r = Head(replies[i]))
    BY <1>3 DEF Ignore
  <2> QED BY <2>1, <2>2, <2>3, RepliesWait
<1> QED BY <1>1, <1>2, <1>3 DEF Accounted, Sent

(* The event whose command was executed is accounted for. *)
LEMMA EvaluatedAccounted ==
    ASSUME TypeOK, NEW i \in Instance, Evaluate(i), \A e \in processed : Accounted(e)
    PROVE  \E e \in EventId : \E r \in Reply :
             /\ AcceptEvent(e) /\ EventOf[r.msg] = e
             /\ \A j \in Instance : \A q \in Range(replies'[j]) : q \in Range(replies[j]) \/ q = r
             /\ Accounted(e) \/ Accounted(e)'
<1>1. PICK e \in EventId, r \in Reply :
        /\ EventOf[r.msg] = e /\ r.status = Acceptance(e) /\ AcceptEvent(e)
        /\ replies' = [replies EXCEPT ![i] = Append(@, r)]
  <2> DEFINE c == Head(commands[i])
             s == [msg |-> c.msg, live |-> c.live, status |-> Acceptance(EventOf[c.msg])]
  <2>1. c \in Command
    BY HeadTailProperties DEF TypeOK, Evaluate
  <2>2. EventOf[c.msg] \in EventId
    BY <2>1, ValidCarriesEvent DEF Command
  <2>3. s \in Reply /\ s.msg = c.msg /\ s.status = Acceptance(EventOf[c.msg])
    BY <2>1, <2>2, AcceptanceType DEF Command, Reply
  <2>4. AcceptEvent(EventOf[c.msg]) /\ replies' = [replies EXCEPT ![i] = Append(@, s)]
    BY DEF Evaluate
  <2> HIDE DEF c, s
  <2> QED BY <2>2, <2>3, <2>4
<1>2. \A j \in Instance : replies'[j] = (IF j = i THEN Append(replies[j], r) ELSE replies[j])
  BY <1>1 DEF TypeOK
<1>3. \A j \in Instance : \A y : y \in Range(Append(replies[j], r)) <=> y \in Range(replies[j]) \/ y = r
  BY RangeAppend DEF TypeOK
<1>4. \A j \in Instance : \A q \in Range(replies'[j]) : q \in Range(replies[j]) \/ q = r
  BY <1>2, <1>3
<1>5. r \in Range(replies'[i])
  BY <1>2, <1>3
<1>6. Accounted(e) \/ Accounted(e)'
  <2>1. CASE r.status \in Applied
    BY <1>1, <1>5, <2>1 DEF Accounted, Sent
  <2>2. CASE r.status = "duplicate"
    <3>1. e \in processed
      BY <1>1, <2>2 DEF Acceptance
    <3> QED BY <3>1
  <2>3. CASE r.status = "stale"
    <3>1. Behind(e)
      BY <1>1, <2>3 DEF Acceptance, Behind
    <3> QED BY <3>1 DEF Accounted
  <2>4. r.status \in AcceptanceStatus
    BY DEF Reply
  <2> QED BY <2>1, <2>2, <2>3, <2>4 DEF AcceptanceStatus, Applied
<1> QED BY <1>1, <1>4, <1>6

LEMMA SkipInvStep ==
    ASSUME TypeOK, SkipInv, [Next]_vars
    PROVE  SkipInv'
<1>1. \A m \in Valid : broker'[m] \notin {"rejecting", "dead"}
  <2> SUFFICES ASSUME NEW m \in Valid PROVE broker'[m] \notin {"rejecting", "dead"}
    OBVIOUS
  <2>0. m \in Message /\ broker[m] \notin {"rejecting", "dead"}
    BY ValidCarriesEvent DEF SkipInv
  <2> USE <2>0 DEF TypeOK
  <2>1. ASSUME NEW i \in Instance, NEW l \in Message, Deliver(i, l) \/ RejectInvalid(i, l)
        PROVE  broker'[m] \notin {"rejecting", "dead"}
    BY <2>1 DEF Deliver, RejectInvalid
  <2>2. ASSUME NEW l \in Message, Settle(l) PROVE broker'[m] \notin {"rejecting", "dead"}
    BY <2>2 DEF Settle
  <2>3. ASSUME NEW i \in Instance, Publish(i) \/ Ignore(i)
        PROVE  broker'[m] \notin {"rejecting", "dead"}
    BY <2>3 DEF Publish, Ignore, Ack
  <2>4. ASSUME NEW i \in Instance, LoseChannel(i) \/ LoseRedis(i) \/ Crash(i)
        PROVE  broker'[m] \notin {"rejecting", "dead"}
    BY <2>4 DEF LoseChannel, LoseRedis, Crash, Requeued
  <2>5. CASE broker' = broker
    BY <2>5
  <2> QED
    BY <2>1, <2>2, <2>3, <2>4, <2>5
    DEF Next, vars, pipelineVars, Evaluate, EvaluateOrphan, ExpireKey, Insert
<1>2. ASSUME faults' = 0
      PROVE  /\ orphans' = {}
             /\ \A e \in processed' : Accounted(e)'
             /\ \A i \in Instance : \A r \in Range(replies'[i]) : Accounted(EventOf[r.msg])'
             /\ \A m \in Valid : broker'[m] \in {"acking", "acked"} => Accounted(EventOf[m])'
  <2>1. ~ \E i \in Instance : LoseChannel(i) \/ LoseRedis(i) \/ Crash(i)
    BY <1>2 DEF LoseChannel, LoseRedis, Crash, Fault, TypeOK
  <2>2. faults' = faults
    BY <2>1
    DEF Next, vars, pipelineVars, Deliver, RejectInvalid, Settle, Evaluate, Publish, Ignore,
        EvaluateOrphan, ExpireKey, Insert
  <2>3. /\ orphans = {}
        /\ \A e \in processed : Accounted(e)
        /\ \A i \in Instance : \A r \in Range(replies[i]) : Accounted(EventOf[r.msg])
        /\ \A m \in Valid : broker[m] \in {"acking", "acked"} => Accounted(EventOf[m])
    BY <1>2, <2>2 DEF SkipInv
  <2>4. \A e \in EventId : Accounted(e) => Accounted(e)'
    BY <2>2, StaysAccounted
  <2>5. processed \subseteq EventId
    BY DEF TypeOK, StateTypeOK
  <2>6. ASSUME NEW i \in Instance, Evaluate(i)
        PROVE  /\ orphans' = {}
               /\ \A e \in processed' : Accounted(e)'
               /\ \A j \in Instance : \A r \in Range(replies'[j]) : Accounted(EventOf[r.msg])'
    <3>1. PICK e \in EventId : \E r \in Reply :
             /\ AcceptEvent(e) /\ EventOf[r.msg] = e
             /\ \A j \in Instance : \A q \in Range(replies'[j]) : q \in Range(replies[j]) \/ q = r
             /\ Accounted(e) \/ Accounted(e)'
      BY <2>3, <2>6, EvaluatedAccounted
    <3>2. Accounted(e)'
      BY <2>4, <3>1
    <3>3. processed' = processed \union {e}
      BY <3>1, AcceptEventStep DEF TypeOK
    <3>4. ASSUME NEW j \in Instance, NEW q \in Range(replies[j]) PROVE Accounted(EventOf[q.msg])'
      BY <2>3, <2>4, ReplyCarriesEvent
    <3> QED BY <2>3, <2>4, <2>5, <2>6, <3>1, <3>2, <3>3, <3>4 DEF Evaluate
  <2>7. ASSUME ~ \E i \in Instance : Evaluate(i)
        PROVE  /\ orphans' = {}
               /\ \A e \in processed' : Accounted(e)'
               /\ \A i \in Instance : \A r \in Range(replies'[i]) : Accounted(EventOf[r.msg])'
    <3>1. orphans' = {} /\ processed' \subseteq processed
      BY <2>1, <2>3, <2>7
      DEF Next, vars, redisVars, pipelineVars, Deliver, RejectInvalid, Settle, Publish, Ignore,
          EvaluateOrphan, ExpireKey, Expire, Insert
    <3>2. ASSUME NEW i \in Instance, NEW r \in Range(replies'[i]) PROVE Accounted(EventOf[r.msg])'
      <4>1. PICK q \in Range(replies[i]) : q.msg = r.msg
        BY <2>7, ResumedReply, OtherReplies
      <4>2. Accounted(EventOf[q.msg]) /\ EventOf[q.msg] \in EventId
        BY <2>3, ReplyCarriesEvent
      <4>3. Accounted(EventOf[q.msg])'
        BY <2>4, <4>2
      <4> QED BY <4>1, <4>3
    <3> QED BY <2>3, <2>4, <2>5, <3>1, <3>2
  <2>8. ASSUME NEW m \in Valid, broker'[m] \in {"acking", "acked"} PROVE Accounted(EventOf[m])'
    <3>1. EventOf[m] \in EventId
      BY ValidCarriesEvent
    <3>2. Accounted(EventOf[m])
      BY <2>3, <2>8, AckStep, ResumedReply
    <3> QED BY <2>4, <3>1, <3>2
  <2> QED BY <2>6, <2>7, <2>8
<1> QED BY <1>1, <1>2 DEF SkipInv

LEMMA SkipInit == Init => SkipInv
<1> SUFFICES ASSUME Init PROVE SkipInv
  OBVIOUS
<1>1. \A i \in Instance : Range(replies[i]) = {}
  BY DEF Init, Range
<1>2. processed = {} /\ orphans = {} /\ \A m \in Message : broker[m] = "ready"
  BY DEF Init, StateInit
<1> QED BY <1>1, <1>2, ValidCarriesEvent DEF SkipInv

(* Once the queue is drained without a failure, every event was broadcast  *)
(* unless a newer version of its auction got ahead of it, also when        *)
(* processed keys expire: neither duplicates nor siblings swallow one.     *)
THEOREM NothingIsSkipped == Spec => []NothingSkippedWithoutFaults
<1>1. TypeOK /\ SkipInv => NothingSkippedWithoutFaults
  <2> SUFFICES ASSUME TypeOK, SkipInv, Drained, faults = 0, NEW m \in Valid
               PROVE  EventOf[m] \in Broadcast \/ Behind(EventOf[m])
    BY DEF NothingSkippedWithoutFaults, Behind
  <2>1. \A i \in Instance : Range(replies[i]) = {}
    BY DEF Drained, Pending
  <2>2. broker[m] = "acked"
    BY ValidCarriesEvent DEF Drained, SkipInv
  <2>3. Accounted(EventOf[m])
    BY <2>2 DEF SkipInv
  <2> QED BY <2>1, <2>3 DEF Accounted, Sent
<1>2. TypeOK /\ SkipInv /\ [Next]_vars => SkipInv'
  BY SkipInvStep
<1> QED BY <1>1, <1>2, SkipInit, TypeCorrect, PTL DEF Spec

-----------------------------------------------------------------------------
(* The drained pipeline stands at the newest version                       *)

Closing == {"AuctionClosed", "WinnerSelected", "AuctionPurchased"}

(* A cancellation is among the siblings of e. *)
Contested(e) ==
    \E f \in EventsOf(KeyOf(e)) :
        VersionOf(f) = VersionOf(e) /\ Envelope[f].type = "AuctionCancelled"

(* The projection holds what e says; a status of which two siblings say    *)
(* different things may be that of either.                                 *)
Effect(e) ==
    LET p == projection[KeyOf(e)] IN
    /\ Envelope[e].type = "BidAccepted" => p.currentBid = Envelope[e].value
    /\ Envelope[e].type = "AuctionPurchased" => p.purchased /\ p.final = Envelope[e].value
    /\ Envelope[e].type \in Closing => p.status = "Closed" \/ Contested(e)

Done(e) ==
    \/ Behind(e)
    \/ VersionOf(e) = version[KeyOf(e)] /\ Effect(e)

(* Every version is that of an event on the queue, and a purchased auction *)
(* stays closed, with the outcome of its purchase.                         *)
SourceInv ==
    \A k \in Key :
        /\ version[k] # 0 => \E f \in EventsOf(k) : version[k] = VersionOf(f)
        /\ projection[k].purchased =>
              /\ projection[k].status = "Closed"
              /\ \E f \in EventsOf(k) :
                    /\ Envelope[f].type = "AuctionPurchased" /\ VersionOf(f) <= version[k]
                    /\ projection[k].final = Envelope[f].value

(* Whatever Redis remembers, replied to or had acknowledged has its effect *)
(* in the projection, unless a newer version took its place.               *)
EffectInv ==
    /\ orphans \subseteq Range(EventOf)
    /\ SourceInv
    /\ \A e \in processed : Done(e)
    /\ \A i \in Instance : \A r \in Range(replies[i]) : Done(EventOf[r.msg])
    /\ \A m \in Valid : broker[m] \in {"acking", "acked"} => Done(EventOf[m])

(* The sources of versions are events. *)
LEMMA SourceEvents ==
    ASSUME NEW k \in Key
    PROVE  /\ EventsOf(k) \subseteq EventId
           /\ \A e \in EventId : e \in Range(EventOf) /\ KeyOf(e) = k => e \in EventsOf(k)
<1>1. Range(EventOf) \subseteq EventId \union {None}
  BY EventOfAssumption DEF Range
<1>2. None \notin EventId
  BY NoneAssumption
<1> QED BY <1>1, <1>2 DEF EventsOf

LEMMA DeliveredEvent ==
    ASSUME NEW m \in Valid
    PROVE  EventOf[m] \in Range(EventOf)
  BY EventOfAssumption, ValidCarriesEvent DEF Range

(* The projection after e, next to the one before it. *)
LEMMA ProjectedOver ==
    ASSUME CoherentEnvelopes, StateTypeOK, SourceInv, NEW e \in EventId,
           version[KeyOf(e)] <= VersionOf(e)
    PROVE  LET p == projection[KeyOf(e)]
               q == Projected(p, Envelope[e])
           IN /\ p.purchased =>
                   /\ q.purchased /\ q.final = p.final /\ q.status = "Closed"
                   /\ Envelope[e].type = "AuctionPurchased" => p.final = Envelope[e].value
              /\ ~p.purchased /\ q.purchased =>
                   /\ Envelope[e].type = "AuctionPurchased"
                   /\ q.final = Envelope[e].value /\ q.status = "Closed"
              /\ Envelope[e].type = "AuctionPurchased" => q.purchased
              /\ q.currentBid = IF Envelope[e].type = "BidAccepted" THEN Envelope[e].value ELSE p.currentBid
              /\ q.status \in {"Closed", p.status} \/ Envelope[e].type = "AuctionCancelled"
              /\ Envelope[e].type \in Closing => q.status = "Closed"
<1> DEFINE p == projection[KeyOf(e)]
           q == Projected(p, Envelope[e])
<1>0. KeyOf(e) \in Key /\ VersionOf(e) \in Nat /\ version[KeyOf(e)] \in Nat
  BY EnvelopeType DEF StateTypeOK
<1>1. ASSUME p.purchased
      PROVE  /\ p.status = "Closed" /\ Envelope[e].type # "AuctionCancelled"
             /\ Envelope[e].type = "AuctionPurchased" => p.final = Envelope[e].value
  <2>1. p.status = "Closed"
    BY <1>0, <1>1 DEF SourceInv
  <2>2. PICK g \in EventsOf(KeyOf(e)) :
          /\ Envelope[g].type = "AuctionPurchased" /\ VersionOf(g) <= version[KeyOf(e)]
          /\ p.final = Envelope[g].value
    BY <1>0, <1>1 DEF SourceInv
  <2>3. g \in EventId /\ KeyOf(g) = KeyOf(e)
    BY <1>0, <2>2, SourceEvents DEF EventsOf
  <2>4. VersionOf(g) \in Nat
    BY <2>3, EnvelopeType
  <2>5. VersionOf(g) <= VersionOf(e)
    BY <1>0, <2>2, <2>4
  <2>6. ~(VersionOf(e) < VersionOf(g))
    BY <1>0, <2>4, <2>5
  <2>7. Envelope[e].type # "AuctionCancelled"
    BY <2>2, <2>3, <2>6 DEF CoherentEnvelopes
  <2>8. Envelope[e].type = "AuctionPurchased" => p.final = Envelope[e].value
    BY <2>2, <2>3 DEF CoherentEnvelopes
  <2> QED BY <2>1, <2>7, <2>8
<1>2. /\ q.purchased = (p.purchased \/ Envelope[e].type = "AuctionPurchased")
      /\ q.final = (IF SetsOutcome(p, Envelope[e]) THEN Envelope[e].value ELSE p.final)
      /\ q.status = NewStatus(p, Envelope[e])
      /\ q.currentBid = (IF Envelope[e].type = "BidAccepted" THEN Envelope[e].value ELSE p.currentBid)
  BY DEF Projected
<1>3. p.purchased \in BOOLEAN
  BY <1>0 DEF StateTypeOK, Projection
<1> HIDE DEF q, p
<1>4. p.purchased => q.status = "Closed"
  BY <1>1, <1>2 DEF NewStatus
<1>5. /\ q.status \in {"Closed", p.status} \/ Envelope[e].type = "AuctionCancelled"
      /\ Envelope[e].type \in Closing => q.status = "Closed"
  BY <1>2, <1>4 DEF NewStatus, Closing
<1>6. p.purchased => q.purchased /\ q.final = p.final
  BY <1>2, <1>3 DEF SetsOutcome
<1>7. ~p.purchased /\ q.purchased =>
        /\ Envelope[e].type = "AuctionPurchased"
        /\ q.final = Envelope[e].value /\ q.status = "Closed"
  BY <1>2, <1>3, <1>5 DEF SetsOutcome, Closing
<1>8. Envelope[e].type = "AuctionPurchased" => q.purchased
  BY <1>2, <1>3
<1> QED BY <1>1, <1>2, <1>4, <1>5, <1>6, <1>7, <1>8 DEF p, q

(* An event that the script applies has its effect, and takes that of no   *)
(* other event away, unless its version is newer.                          *)
LEMMA AppliedHasEffect ==
    ASSUME CoherentEnvelopes, StateTypeOK, SourceInv, NEW e \in EventId, e \in Range(EventOf),
           version[KeyOf(e)] <= VersionOf(e),
           version' = [version EXCEPT ![KeyOf(e)] = VersionOf(e)],
           projection' = [projection EXCEPT ![KeyOf(e)] = Projected(@, Envelope[e])]
    PROVE  /\ SourceInv'
           /\ Done(e)'
           /\ \A f \in EventId : Done(f) => Done(f)'
<1> DEFINE p == projection[KeyOf(e)]
           q == Projected(p, Envelope[e])
<1>0. KeyOf(e) \in Key /\ VersionOf(e) \in Nat \ {0} /\ version[KeyOf(e)] \in Nat
  BY EnvelopeType DEF StateTypeOK
<1>1. /\ projection'[KeyOf(e)] = q /\ version'[KeyOf(e)] = VersionOf(e)
      /\ \A k \in Key : k # KeyOf(e) => projection'[k] = projection[k] /\ version'[k] = version[k]
  BY <1>0 DEF StateTypeOK
<1>2. /\ p.purchased =>
           /\ q.purchased /\ q.final = p.final /\ q.status = "Closed"
           /\ Envelope[e].type = "AuctionPurchased" => p.final = Envelope[e].value
      /\ ~p.purchased /\ q.purchased =>
           /\ Envelope[e].type = "AuctionPurchased"
           /\ q.final = Envelope[e].value /\ q.status = "Closed"
      /\ Envelope[e].type = "AuctionPurchased" => q.purchased
      /\ q.currentBid = IF Envelope[e].type = "BidAccepted" THEN Envelope[e].value ELSE p.currentBid
      /\ q.status \in {"Closed", p.status} \/ Envelope[e].type = "AuctionCancelled"
      /\ Envelope[e].type \in Closing => q.status = "Closed"
  BY ProjectedOver
<1>3. e \in EventsOf(KeyOf(e))
  BY <1>0, SourceEvents
<1> HIDE DEF q
<1>4. ASSUME NEW k \in Key
      PROVE  /\ version'[k] # 0 => \E f \in EventsOf(k) : version'[k] = VersionOf(f)
             /\ projection'[k].purchased =>
                   /\ projection'[k].status = "Closed"
                   /\ \E f \in EventsOf(k) :
                         /\ Envelope[f].type = "AuctionPurchased" /\ VersionOf(f) <= version'[k]
                         /\ projection'[k].final = Envelope[f].value
  <2>1. CASE k # KeyOf(e)
    BY <1>1, <2>1 DEF SourceInv
  <2>2. ASSUME k = KeyOf(e), p.purchased, q.purchased
        PROVE  \E f \in EventsOf(k) :
                 /\ Envelope[f].type = "AuctionPurchased" /\ VersionOf(f) <= version'[k]
                 /\ q.final = Envelope[f].value
    <3>1. PICK f \in EventsOf(k) :
            /\ Envelope[f].type = "AuctionPurchased" /\ VersionOf(f) <= version[k]
            /\ p.final = Envelope[f].value
      BY <2>2 DEF SourceInv
    <3>2. VersionOf(f) \in Nat
      BY SourceEvents, EnvelopeType
    <3>3. VersionOf(f) <= version'[k]
      BY <1>0, <1>1, <2>2, <3>1, <3>2
    <3> QED BY <1>2, <2>2, <3>1, <3>3
  <2>3. ASSUME k = KeyOf(e), ~p.purchased, q.purchased
        PROVE  \E f \in EventsOf(k) :
                 /\ Envelope[f].type = "AuctionPurchased" /\ VersionOf(f) <= version'[k]
                 /\ q.final = Envelope[f].value
    <3>1. VersionOf(e) <= version'[k]
      BY <1>0, <1>1, <2>3
    <3> QED BY <1>2, <1>3, <2>3, <3>1
  <2>4. CASE k = KeyOf(e)
    <3>1. q.purchased => q.status = "Closed"
      BY <1>2
    <3> QED BY <1>1, <1>3, <2>2, <2>3, <2>4, <3>1
  <2> QED BY <2>1, <2>4
<1>5. SourceInv'
  BY <1>4 DEF SourceInv, VersionOf, EventsOf
<1>6. Done(e)'
  <2>1. Effect(e)'
    BY <1>1, <1>2 DEF Effect, KeyOf
  <2> QED BY <1>1, <2>1 DEF Done, VersionOf, KeyOf
<1>7. ASSUME NEW f \in EventId, Done(f) PROVE Done(f)'
  <2>0. KeyOf(f) \in Key /\ VersionOf(f) \in Nat
    BY EnvelopeType
  <2>1. CASE KeyOf(f) # KeyOf(e)
    BY <1>1, <1>7, <2>0, <2>1 DEF Done, Effect, Behind, Contested, EventsOf, VersionOf, KeyOf
  <2>2. CASE KeyOf(f) = KeyOf(e) /\ VersionOf(f) < VersionOf(e)
    BY <1>1, <2>2 DEF Done, Behind, VersionOf, KeyOf
  <2>3. CASE KeyOf(f) = KeyOf(e) /\ ~(VersionOf(f) < VersionOf(e))
    <3>1. VersionOf(f) = version[KeyOf(e)] /\ VersionOf(f) = VersionOf(e) /\ ~Behind(f)
      BY <1>0, <1>7, <2>0, <2>3 DEF Done, Behind
    <3>2. Effect(f)
      BY <1>7, <3>1 DEF Done
    <3>3. Envelope[f].type = "BidAccepted" => q.currentBid = Envelope[f].value
      BY <1>2, <2>3, <3>1, <3>2 DEF Effect, CoherentEnvelopes
    <3>4. Envelope[f].type = "AuctionPurchased" => q.purchased /\ q.final = Envelope[f].value
      BY <1>2, <2>3, <3>2 DEF Effect
    <3>5. Envelope[f].type \in Closing => q.status = "Closed" \/ Contested(f)
      BY <1>2, <1>3, <2>3, <3>1, <3>2 DEF Effect, Contested
    <3>6. Effect(f)'
      BY <1>1, <2>3, <3>3, <3>4, <3>5 DEF Effect, Contested, EventsOf, VersionOf, KeyOf
    <3> QED BY <1>1, <2>3, <3>1, <3>6 DEF Done, VersionOf, KeyOf
  <2> QED BY <2>1, <2>2, <2>3
<1> QED BY <1>5, <1>6, <1>7

(* Whatever the script answers, the event then has its effect, or a newer  *)
(* version took its place.                                                 *)
LEMMA AcceptHasEffect ==
    ASSUME CoherentEnvelopes, StateTypeOK, SourceInv, \A f \in processed : Done(f),
           NEW e \in EventId, e \in Range(EventOf), AcceptEvent(e)
    PROVE  /\ SourceInv'
           /\ Done(e)'
           /\ \A f \in EventId : Done(f) => Done(f)'
<1>1. UNCHANGED <<version, projection>> => SourceInv' /\ \A f \in EventId : Done(f) <=> Done(f)'
  BY DEF SourceInv, Done, Behind, Effect, Contested, EventsOf, VersionOf, KeyOf
<1>2. CASE Acceptance(e) = "duplicate" /\ UNCHANGED redisVars
  <2>1. e \in processed
    BY <1>2 DEF Acceptance
  <2> QED BY <1>1, <1>2, <2>1 DEF redisVars
<1>3. CASE Acceptance(e) = "stale" /\ UNCHANGED <<version, projection>>
  <2>1. Behind(e)
    BY <1>3 DEF Acceptance, Behind
  <2>2. Done(e)
    BY <2>1 DEF Done
  <2> QED BY <1>1, <1>3, <2>2
<1>4. CASE /\ Acceptance(e) \in Applied
           /\ version' = [version EXCEPT ![KeyOf(e)] = VersionOf(e)]
           /\ projection' = [projection EXCEPT ![KeyOf(e)] = Projected(@, Envelope[e])]
  BY <1>4, AcceptEventStep, AppliedHasEffect
<1> QED BY <1>2, <1>3, <1>4 DEF AcceptEvent

(* Every step keeps what Redis holds of the events, and the effects. *)
LEMMA EffectStep ==
    ASSUME CoherentEnvelopes, TypeOK, EffectInv, [Next]_vars
    PROVE  /\ orphans' \subseteq Range(EventOf)
           /\ SourceInv'
           /\ \A f \in EventId : Done(f) => Done(f)'
           /\ \A f \in processed' : Done(f)'
<1> DEFINE Kept == /\ SourceInv'
                   /\ \A f \in EventId : Done(f) => Done(f)'
                   /\ \A f \in processed' : Done(f)'
<1>0. StateTypeOK /\ processed \subseteq EventId
  BY DEF TypeOK, StateTypeOK
<1>1. ASSUME NEW e \in EventId, e \in Range(EventOf), AcceptEvent(e) PROVE Kept
  <2>1. SourceInv' /\ Done(e)' /\ \A f \in EventId : Done(f) => Done(f)'
    BY <1>0, <1>1, AcceptHasEffect DEF EffectInv
  <2>2. processed' = processed \union {e}
    BY <1>0, <1>1, AcceptEventStep
  <2> QED BY <1>0, <2>1, <2>2 DEF EffectInv
<1>2. ASSUME UNCHANGED <<version, projection>>, processed' \subseteq processed PROVE Kept
  <2>1. SourceInv' /\ \A f \in EventId : Done(f) <=> Done(f)'
    BY <1>2 DEF EffectInv, SourceInv, Done, Behind, Effect, Contested, EventsOf, VersionOf, KeyOf
  <2> QED BY <1>0, <1>2, <2>1 DEF EffectInv
<1> HIDE DEF Kept
<1>3. Kept
  <2>1. ASSUME NEW i \in Instance, Evaluate(i) PROVE Kept
    <3>1. PICK e \in EventId : \E r \in Reply : AcceptEvent(e) /\ EventOf[r.msg] = e
      BY <2>1, EvaluatedEvent
    <3>2. e \in Range(EventOf)
      BY <3>1, DeliveredEvent DEF Reply
    <3> QED BY <1>1, <3>1, <3>2
  <2>2. CASE \E e \in EventId : EvaluateOrphan(e)
    BY <1>1, <2>2 DEF EvaluateOrphan, EffectInv
  <2>3. CASE \E e \in EventId : ExpireKey(e)
    BY <1>2, <2>3 DEF ExpireKey, Expire
  <2>4. CASE UNCHANGED redisVars
    BY <1>2, <2>4 DEF redisVars
  <2> QED
    BY <2>1, <2>2, <2>3, <2>4
    DEF Next, vars, Deliver, RejectInvalid, Settle, Publish, Ignore, LoseChannel, LoseRedis, Crash, Insert
<1>4. orphans' \subseteq Range(EventOf)
  <2>1. \A i \in Instance : SentEvents(i) \subseteq Range(EventOf)
    <3> SUFFICES ASSUME NEW i \in Instance, NEW n \in DOMAIN commands[i]
                 PROVE  EventOf[commands[i][n].msg] \in Range(EventOf)
      BY DEF SentEvents
    <3>1. commands[i][n] \in Command
      BY ElementOfSeq, LenProperties DEF TypeOK
    <3> QED BY <3>1, DeliveredEvent DEF Command
  <2>2. orphans \subseteq Range(EventOf)
    BY DEF EffectInv
  <2> QED
    BY <2>1, <2>2
    DEF Next, vars, pipelineVars, Deliver, RejectInvalid, Settle, Evaluate, Publish, Ignore, LoseChannel,
        LoseRedis, Crash, EvaluateOrphan, ExpireKey, Insert
<1> QED BY <1>3, <1>4 DEF Kept

LEMMA EffectInvStep ==
    ASSUME CoherentEnvelopes, TypeOK, EffectInv, [Next]_vars
    PROVE  EffectInv'
<1>1. \A f \in EventId : Done(f) => Done(f)'
  BY EffectStep
<1>2. ASSUME NEW j \in Instance, NEW r \in Range(replies'[j]) PROVE Done(EventOf[r.msg])'
  <2>1. ASSUME NEW q \in Range(replies[j]), q.msg = r.msg PROVE Done(EventOf[r.msg])'
    BY <1>1, <2>1, ReplyCarriesEvent DEF EffectInv
  <2>2. ASSUME NEW i \in Instance, Evaluate(i) PROVE Done(EventOf[r.msg])'
    <3>1. PICK e \in EventId : \E s \in Reply :
             /\ AcceptEvent(e) /\ EventOf[s.msg] = e
             /\ \A l \in Instance : \A q \in Range(replies'[l]) : q \in Range(replies[l]) \/ q = s
      BY <2>2, EvaluatedEvent
    <3>2. e \in Range(EventOf)
      BY <3>1, DeliveredEvent DEF Reply
    <3>3. Done(e)'
      BY <3>1, <3>2, AcceptHasEffect DEF EffectInv, TypeOK
    <3> QED BY <1>2, <2>1, <3>1, <3>3
  <2> QED BY <1>2, <2>1, <2>2, ResumedReply, OtherReplies
<1>3. ASSUME NEW m \in Valid, broker'[m] \in {"acking", "acked"} PROVE Done(EventOf[m])'
  <2>1. EventOf[m] \in EventId
    BY ValidCarriesEvent
  <2>2. Done(EventOf[m])
    BY <1>3, AckStep, ResumedReply DEF EffectInv
  <2> QED BY <1>1, <2>1, <2>2
<1> QED BY <1>2, <1>3, EffectStep DEF EffectInv

LEMMA EffectInit == Init => EffectInv
<1> SUFFICES ASSUME Init PROVE EffectInv
  OBVIOUS
<1>1. \A i \in Instance : Range(replies[i]) = {}
  BY DEF Init, Range
<1>2. processed = {} /\ orphans = {} /\ \A m \in Message : broker[m] = "ready"
  BY DEF Init, StateInit
<1>3. SourceInv
  BY DEF Init, StateInit, EmptyProjection, SourceInv
<1> QED BY <1>1, <1>2, <1>3, ValidCarriesEvent DEF EffectInv

(* Every event of a drained queue has its effect.                          *)
LEMMA DrainedIsDone ==
    ASSUME TypeOK, SkipInv, EffectInv, Drained, NEW k \in Key, NEW e \in EventsOf(k)
    PROVE  e \in EventId /\ KeyOf(e) = k /\ Done(e)
<1>1. e \in EventId /\ KeyOf(e) = k
  BY SourceEvents DEF EventsOf
<1>2. PICK m \in Message : EventOf[m] = e
  BY EventOfAssumption DEF EventsOf, Range
<1>3. m \in Valid
  BY <1>1, <1>2, NoneAssumption DEF Valid
<1>4. broker[m] = "acked"
  BY <1>3 DEF Drained, SkipInv
<1> QED BY <1>1, <1>2, <1>3, <1>4 DEF EffectInv

(* Once the queue is drained, each auction stands at its newest version,   *)
(* and the projection holds what that version says, whatever was lost,     *)
(* repeated, reordered or forgotten on the way; provided that the Bidding  *)
(* Service does not contradict itself.                                     *)
THEOREM StateConverges ==
    ASSUME CoherentEnvelopes
    PROVE  Spec => []Converges
<1>1. TypeOK /\ SkipInv /\ EffectInv => Converges
  <2> SUFFICES ASSUME TypeOK, SkipInv, EffectInv, Drained, NEW k \in Key, NEW e \in Latest(k)
               PROVE  LET p == projection[k]
                          siblings == {Envelope[f].type : f \in Latest(k)} IN
                      /\ version[k] = VersionOf(e)
                      /\ Envelope[e].type = "BidAccepted" => p.currentBid = Envelope[e].value
                      /\ Envelope[e].type = "AuctionPurchased" =>
                            p.purchased /\ p.final = Envelope[e].value
                      /\ siblings \intersect Closing # {} /\ "AuctionCancelled" \notin siblings
                            => p.status = "Closed"
    BY DEF Converges, Closing
  <2>1. /\ Latest(k) \subseteq EventsOf(k) /\ EventsOf(k) \subseteq EventId
        /\ \A f \in EventsOf(k) : KeyOf(f) = k /\ Done(f) /\ VersionOf(f) \in Nat \ {0}
    BY DrainedIsDone, EnvelopeType DEF Latest
  <2>2. version[k] \in Nat
    BY DEF TypeOK, StateTypeOK
  <2>3. ASSUME NEW f \in Latest(k) PROVE VersionOf(f) = version[k] /\ Effect(f)
    <3>1. VersionOf(f) <= version[k]
      BY <2>1, <2>2 DEF Done, Behind
    <3>2. version[k] # 0
      BY <2>1, <2>2, <3>1
    <3>3. PICK g \in EventsOf(k) : version[k] = VersionOf(g)
      BY <3>2 DEF EffectInv, SourceInv
    <3>4. version[k] <= VersionOf(f)
      BY <3>3 DEF Latest
    <3>5. VersionOf(f) = version[k]
      BY <2>1, <2>2, <3>1, <3>4
    <3> QED BY <2>1, <2>2, <3>5 DEF Done, Behind
  <2>4. ASSUME NEW f \in Latest(k), Envelope[f].type \in Closing, projection[k].status # "Closed"
        PROVE  \E g \in Latest(k) : Envelope[g].type = "AuctionCancelled"
    <3>1. Contested(f)
      BY <2>1, <2>3, <2>4 DEF Effect
    <3>2. PICK g \in EventsOf(k) : VersionOf(g) = VersionOf(f) /\ Envelope[g].type = "AuctionCancelled"
      BY <2>1, <3>1 DEF Contested
    <3>3. g \in Latest(k)
      BY <3>2 DEF Latest
    <3> QED BY <3>2, <3>3
  <2> QED BY <2>1, <2>3, <2>4 DEF Effect
<1>2. TypeOK /\ SkipInv /\ EffectInv /\ [Next]_vars => SkipInv' /\ EffectInv'
  BY SkipInvStep, EffectInvStep
<1> QED BY <1>1, <1>2, SkipInit, EffectInit, TypeCorrect, PTL DEF Spec

=============================================================================
