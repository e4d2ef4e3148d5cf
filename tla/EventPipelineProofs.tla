------------------------ MODULE EventPipelineProofs ------------------------
(***************************************************************************)
(* Proofs about EventPipeline, for every value of its constants.           *)
(***************************************************************************)
EXTENDS EventPipeline, SequenceTheorems, TLAPS

USE DEF Valid, AcceptanceStatus

-----------------------------------------------------------------------------
(* The accept script                                                       *)

(* The fields of an envelope have their types, and so has its key. *)
LEMMA EnvelopeType ==
    ASSUME NEW e \in EventId
    PROVE  /\ Envelope[e] \in ValidEnvelope
           /\ Envelope[e].tenant \in Tenant
           /\ Envelope[e].auction \in Auction
           /\ Envelope[e].value \in Value \union {None}
           /\ VersionOf(e) \in Nat \ {0}
           /\ KeyOf(e) \in Key
  BY EnvelopeAssumption DEF ValidEnvelope, VersionOf, KeyOf, Key

(* Projecting an envelope yields a projection. *)
LEMMA ProjectedType ==
    ASSUME NEW p \in Projection, NEW e \in EventId
    PROVE  Projected(p, Envelope[e]) \in Projection
<1> DEFINE env == Envelope[e]
<1>1. NewStatus(p, env) \in {"none", "Closed", "Cancelled"}
  BY DEF NewStatus, Projection
<1>2. env.version \in Nat
  BY EnvelopeType DEF VersionOf
<1>3. env.value \in Value \union {None}
  BY EnvelopeType
<1>4. p.currentBid \in Value \union {None} /\ p.final \in Value \union {None} /\ p.purchased \in BOOLEAN
  BY DEF Projection
<1> HIDE DEF env
<1>5. Projected(p, env) \in Projection
  BY <1>1, <1>2, <1>3, <1>4 DEF Projected, Projection
<1> QED BY <1>5 DEF env

(* The reply of the script is one of the five that parseAcceptanceResult   *)
(* accepts.                                                                *)
LEMMA AcceptanceType ==
    ASSUME NEW e \in EventId
    PROVE  Acceptance(e) \in AcceptanceStatus
  BY DEF Acceptance

(* The script keeps the types, raises no version but that of its event,    *)
(* and lets an event through only if it is new and not overtaken.          *)
LEMMA AcceptEventStep ==
    ASSUME StateTypeOK, NEW e \in EventId, AcceptEvent(e)
    PROVE  /\ StateTypeOK'
           /\ \A k \in Key : version[k] <= version'[k]
           /\ processed' = processed \union {e}
           /\ Acceptance(e) \in Applied =>
                /\ e \notin processed
                /\ version[KeyOf(e)] <= VersionOf(e)
                /\ version'[KeyOf(e)] = VersionOf(e)
<1> USE EnvelopeType DEF StateTypeOK
<1>1. CASE Acceptance(e) = "duplicate" /\ UNCHANGED redisVars
  <2>1. e \in processed
    BY <1>1 DEF Acceptance
  <2> QED BY <1>1, <2>1 DEF redisVars, Applied
<1>2. CASE /\ Acceptance(e) = "stale"
           /\ Remember(e)
           /\ UNCHANGED <<version, projection>>
  BY <1>2 DEF Remember, Applied
<1>3. CASE /\ Acceptance(e) \in Applied
           /\ Remember(e)
           /\ version' = [version EXCEPT ![KeyOf(e)] = VersionOf(e)]
           /\ projection' = [projection EXCEPT ![KeyOf(e)] = Projected(@, Envelope[e])]
  <2>1. e \notin processed /\ version[KeyOf(e)] <= VersionOf(e)
    BY <1>3 DEF Acceptance, Applied
  <2>2. version' \in [Key -> Nat] /\ \A k \in Key : version[k] <= version'[k]
    BY <1>3, <2>1
  <2>3. projection' \in [Key -> Projection]
    BY <1>3, ProjectedType
  <2> QED BY <1>3, <2>1, <2>2, <2>3 DEF Remember
<1> QED BY <1>1, <1>2, <1>3 DEF AcceptEvent

-----------------------------------------------------------------------------
(* Type correctness                                                        *)

(* Losing the channel keeps the deliveries and their order. *)
LEMMA DetachedCommands ==
    ASSUME NEW s \in Seq(Command)
    PROVE  Detached(s) \in Seq(Command)
<1>1. PICK k \in Nat : s \in [1 .. k -> Command]
  BY SeqDef
<1>2. Detached(s) \in [1 .. k -> Command]
  BY <1>1 DEF Detached, Command
<1> QED BY <1>2, SeqDef

LEMMA DetachedReplies ==
    ASSUME NEW s \in Seq(Reply)
    PROVE  /\ Detached(s) \in Seq(Reply)
           /\ Len(Detached(s)) = Len(s)
           /\ \A n \in 1 .. Len(s) :
                /\ Detached(s)[n].msg = s[n].msg
                /\ Detached(s)[n].status = s[n].status
<1>1. DOMAIN s = 1 .. Len(s) /\ Len(s) \in Nat /\ \A n \in 1 .. Len(s) : s[n] \in Reply
  BY LenProperties, ElementOfSeq
<1>2. Detached(s) \in [1 .. Len(s) -> Reply]
  BY <1>1 DEF Detached, Reply
<1>3. Detached(s) \in Seq(Reply)
  BY <1>1, <1>2, SeqDef
<1>4. Len(Detached(s)) = Len(s)
  BY <1>1, <1>2, <1>3, LenProperties
<1>5. ASSUME NEW n \in 1 .. Len(s)
      PROVE  Detached(s)[n].msg = s[n].msg /\ Detached(s)[n].status = s[n].status
  BY <1>1, <1>5 DEF Detached, Reply
<1> QED BY <1>3, <1>4, <1>5

(* A valid message carries an event. *)
LEMMA ValidCarriesEvent ==
    ASSUME NEW m \in Valid
    PROVE  m \in Message /\ EventOf[m] \in EventId
  BY EventOfAssumption

(* Every command and reply is about a valid message. *)
LEMMA CommandEvent ==
    ASSUME TypeOK, NEW i \in Instance, NEW n \in DOMAIN commands[i]
    PROVE  EventOf[commands[i][n].msg] \in EventId
<1>1. commands[i] \in Seq(Command)
  BY DEF TypeOK
<1>2. commands[i][n] \in Command
  BY <1>1, LenProperties, ElementOfSeq
<1> QED BY <1>2, ValidCarriesEvent DEF Command

(* The initial states have their types. *)
LEMMA InitType == Init => TypeOK
<1> SUFFICES ASSUME Init PROVE TypeOK
  OBVIOUS
<1>1. StateTypeOK
  BY DEF Init, StateInit, StateTypeOK, EmptyProjection, Projection
<1>2. <<>> \in Seq(Command) /\ <<>> \in Seq(Reply) /\ <<>> \in Seq(EventId)
  BY EmptySeq
<1> QED BY <1>1, <1>2 DEF Init, TypeOK

(* Every step keeps the types. *)
LEMMA NextType == TypeOK /\ [Next]_vars => TypeOK'
<1> SUFFICES ASSUME TypeOK, [Next]_vars PROVE TypeOK'
  OBVIOUS
<1> USE DEF TypeOK, Outcome
<1>1. UNCHANGED redisVars => StateTypeOK'
  BY DEF redisVars, StateTypeOK
<1>2. ASSUME NEW i \in Instance, NEW m \in Message, Deliver(i, m)
      PROVE  TypeOK'
  <2>1. [msg |-> m, live |-> TRUE] \in Command
    BY <1>2 DEF Deliver, Command
  <2>2. commands' \in [Instance -> Seq(Command)]
    BY <1>2, <2>1, AppendProperties DEF Deliver
  <2> QED BY <1>1, <1>2, <2>2 DEF Deliver, Receive
<1>3. ASSUME NEW i \in Instance, NEW m \in Message, RejectInvalid(i, m)
      PROVE  TypeOK'
  BY <1>1, <1>3 DEF RejectInvalid, Receive
<1>4. ASSUME NEW m \in Message, Settle(m)
      PROVE  TypeOK'
  BY <1>1, <1>4 DEF Settle
<1>5. ASSUME NEW i \in Instance, Evaluate(i)
      PROVE  TypeOK'
  <2> DEFINE c == Head(commands[i])
             e == EventOf[c.msg]
             r == [msg |-> c.msg, live |-> c.live, status |-> Acceptance(e)]
  <2>1. c \in Command /\ Tail(commands[i]) \in Seq(Command)
    BY <1>5, HeadTailProperties DEF Evaluate
  <2>2. e \in EventId
    BY <2>1, ValidCarriesEvent DEF Command
  <2>3. r \in Reply
    BY <2>1, <2>2, AcceptanceType DEF Command, Reply
  <2>4. StateTypeOK'
    BY <1>5, <2>2, AcceptEventStep DEF Evaluate
  <2>5. commands' \in [Instance -> Seq(Command)]
    BY <1>5, <2>1 DEF Evaluate
  <2>6. replies' \in [Instance -> Seq(Reply)]
    BY <1>5, <2>3, AppendProperties DEF Evaluate
  <2> QED BY <1>5, <2>4, <2>5, <2>6 DEF Evaluate
<1>6. ASSUME NEW i \in Instance, Publish(i) \/ Ignore(i)
      PROVE  TypeOK'
  <2> DEFINE r == Head(replies[i])
             e == EventOf[r.msg]
  <2>1. r \in Reply /\ Tail(replies[i]) \in Seq(Reply)
    BY <1>6, HeadTailProperties DEF Publish, Ignore
  <2>2. e \in EventId /\ r.msg \in Message
    BY <2>1, ValidCarriesEvent DEF Reply
  <2>3. replies' \in [Instance -> Seq(Reply)]
    BY <1>6, <2>1 DEF Publish, Ignore
  <2>4. broker' \in [Message -> {"ready", "unacked", "acking", "rejecting", "acked", "dead"}]
    BY <1>6, <2>2 DEF Publish, Ignore, Ack
  <2>5. feed' \in [Instance -> Seq(EventId)]
    <3>1. feed[i] \in Seq(EventId)
      OBVIOUS
    <3>2. Append(feed[i], e) \in Seq(EventId)
      BY <2>2, <3>1, AppendProperties
    <3>3. feed' = [feed EXCEPT ![i] = Append(@, e)] \/ feed' = feed
      BY <1>6 DEF Publish, Ignore
    <3> QED BY <3>2, <3>3
  <2>6. inserts' \subseteq EventId \X Outcome
    BY <1>6, <2>2 DEF Publish, Ignore, Record, IgnoredOutcome, Outcome
  <2> QED BY <1>1, <1>6, <2>3, <2>4, <2>5, <2>6 DEF Publish, Ignore
<1>7. ASSUME NEW i \in Instance, LoseChannel(i)
      PROVE  TypeOK'
  <2>1. commands' \in [Instance -> Seq(Command)] /\ replies' \in [Instance -> Seq(Reply)]
    BY <1>7, DetachedCommands, DetachedReplies DEF LoseChannel
  <2> QED BY <1>1, <1>7, <2>1 DEF LoseChannel, Fault, Requeued
<1>8. ASSUME NEW i \in Instance, LoseRedis(i) \/ Crash(i)
      PROVE  TypeOK'
  <2>1. orphans' \subseteq EventId
    <3>1. SentEvents(i) \subseteq EventId
      BY CommandEvent DEF SentEvents
    <3> QED BY <1>8, <3>1 DEF LoseRedis, Crash
  <2>2. commands' \in [Instance -> Seq(Command)] /\ replies' \in [Instance -> Seq(Reply)]
    <3>1. <<>> \in Seq(Command) /\ <<>> \in Seq(Reply)
      BY EmptySeq
    <3> QED BY <1>8, <3>1 DEF LoseRedis, Crash
  <2> QED BY <1>1, <1>8, <2>1, <2>2 DEF LoseRedis, Crash, Fault, Requeued
<1>9. ASSUME NEW e \in EventId, EvaluateOrphan(e)
      PROVE  TypeOK'
  BY <1>9, AcceptEventStep DEF EvaluateOrphan
<1>10. ASSUME NEW e \in EventId, ExpireKey(e)
       PROVE  TypeOK'
  BY <1>10 DEF ExpireKey, Expire, pipelineVars, StateTypeOK
<1>11. ASSUME NEW e \in EventId, NEW outcome \in Outcome, Insert(e, outcome)
       PROVE  TypeOK'
  BY <1>1, <1>11 DEF Insert
<1>12. CASE UNCHANGED vars
  BY <1>1, <1>12 DEF vars, pipelineVars
<1> QED
  BY <1>2, <1>3, <1>4, <1>5, <1>6, <1>7, <1>8, <1>9, <1>10, <1>11, <1>12 DEF Next

(* Every reachable state has the types the code gives its state. *)
THEOREM TypeCorrect == Spec => []TypeOK
  BY InitType, NextType, PTL DEF Spec

-----------------------------------------------------------------------------
(* The state in Redis never regresses                                      *)

(* One run of the script raises no version back, and leaves the outcome of *)
(* a purchased auction alone.                                              *)
LEMMA AcceptNeverRegresses ==
    ASSUME StateTypeOK, NEW e \in EventId, AcceptEvent(e), NEW k \in Key
    PROVE  /\ version[k] <= version'[k]
           /\ projection[k].purchased =>
                projection'[k].purchased /\ projection'[k].final = projection[k].final
<1>1. version[k] <= version'[k]
  BY AcceptEventStep
<1>2. CASE UNCHANGED projection
  BY <1>1, <1>2
<1>3. CASE projection' = [projection EXCEPT ![KeyOf(e)] = Projected(@, Envelope[e])]
  <2>1. projection'[k] \in {projection[k], Projected(projection[k], Envelope[e])}
    BY <1>3, EnvelopeType DEF StateTypeOK
  <2>2. ASSUME NEW p, p.purchased
        PROVE  /\ Projected(p, Envelope[e]).purchased
               /\ Projected(p, Envelope[e]).final = p.final
    BY <2>2 DEF Projected, SetsOutcome
  <2> QED BY <1>1, <2>1, <2>2
<1> QED BY <1>1, <1>2, <1>3 DEF AcceptEvent, redisVars

(* No step of any instance lowers the version of an auction or changes the *)
(* outcome of a purchased one.                                             *)
THEOREM NeverRegresses == Spec => StateNeverRegresses
<1> DEFINE Kept == \A k \in Key :
        /\ version[k] <= version'[k]
        /\ projection[k].purchased =>
              projection'[k].purchased /\ projection'[k].final = projection[k].final
<1>1. TypeOK /\ [Next]_vars => [Kept]_vars
  <2> SUFFICES ASSUME TypeOK, [Next]_vars PROVE Kept
    OBVIOUS
  <2> USE DEF TypeOK
  <2>1. UNCHANGED <<version, projection>> => Kept
    BY DEF StateTypeOK
  <2>2. ASSUME NEW e \in EventId, AcceptEvent(e) PROVE Kept
    BY <2>2, AcceptNeverRegresses
  <2>3. ASSUME NEW i \in Instance, Evaluate(i) PROVE Kept
    <3>1. EventOf[Head(commands[i]).msg] \in EventId
      <4>1. commands[i] \in Seq(Command) /\ commands[i] # <<>>
        BY <2>3 DEF Evaluate
      <4>2. Head(commands[i]) \in Command
        BY <4>1, HeadTailProperties
      <4> QED BY <4>2, ValidCarriesEvent DEF Command
    <3> QED BY <2>2, <2>3, <3>1 DEF Evaluate
  <2>4. ASSUME NEW e \in EventId, EvaluateOrphan(e) PROVE Kept
    BY <2>2, <2>4 DEF EvaluateOrphan
  <2> HIDE DEF Kept
  <2> QED
    BY <2>1, <2>3, <2>4
    DEF Next, vars, redisVars, Deliver, RejectInvalid, Settle, Publish, Ignore,
        LoseChannel, LoseRedis, Crash, ExpireKey, Expire, Insert
<1> QED BY <1>1, TypeCorrect, PTL DEF Spec, StateNeverRegresses

-----------------------------------------------------------------------------
(* At most one broadcast of an event, in the order of versions             *)

(* Event ids and keys of what was broadcast and of what was replied. *)
LEMMA SeqElements ==
    ASSUME TypeOK, NEW i \in Instance
    PROVE  /\ Len(feed[i]) \in Nat /\ Len(replies[i]) \in Nat
           /\ \A n \in 1 .. Len(feed[i]) : feed[i][n] \in EventId
           /\ \A n \in 1 .. Len(replies[i]) : ReplyEvent(i, n) \in EventId
<1>1. feed[i] \in Seq(EventId) /\ replies[i] \in Seq(Reply)
  BY DEF TypeOK
<1>2. \A n \in 1 .. Len(replies[i]) : replies[i][n] \in Reply
  BY <1>1, ElementOfSeq
<1> QED BY <1>1, <1>2, LenProperties, ElementOfSeq, ValidCarriesEvent DEF ReplyEvent, Reply

(* A step that only drops replies from the front of the queues, or keeps   *)
(* them, and lets Redis remember and advance more, preserves both parts.   *)
LEMMA DroppingReplies ==
    ASSUME TypeOK, OrderInv, feed' = feed,
           \A k \in Key : version[k] <= version'[k],
           version \in [Key -> Nat], version' \in [Key -> Nat],
           NEW shift \in [Instance -> Nat],
           \A i \in Instance :
             /\ Len(replies'[i]) \in Nat
             /\ \A n \in 1 .. Len(replies'[i]) :
                  /\ n + shift[i] \in 1 .. Len(replies[i])
                  /\ replies'[i][n].msg = replies[i][n + shift[i]].msg
                  /\ replies'[i][n].status = replies[i][n + shift[i]].status
    PROVE  /\ OrderInv'
           /\ OnceInv /\ processed \subseteq processed' => OnceInv'
<1>1. \A i \in Instance : \A n \in 1 .. Len(replies'[i]) :
        /\ ReplyEvent(i, n)' = ReplyEvent(i, n + shift[i])
        /\ Allowed(i, n)' = Allowed(i, n + shift[i])
  BY DEF ReplyEvent, Allowed
<1>2. \A e \in EventId : VersionOf(e) <= version[KeyOf(e)] => VersionOf(e) <= version'[KeyOf(e)]
  BY EnvelopeType
<1>3. OrderInv'
  <2> SUFFICES ASSUME NEW i \in Instance
               PROVE  /\ \A n \in 1 .. Len(feed[i]) :
                           VersionOf(feed[i][n]) <= version'[KeyOf(feed[i][n])]
                      /\ \A n \in 1 .. Len(replies'[i]) : Allowed(i, n)' =>
                           VersionOf(ReplyEvent(i, n)') <= version'[KeyOf(ReplyEvent(i, n)')]
                      /\ \A n, p \in 1 .. Len(feed[i]) : n < p => InOrder(feed[i][n], feed[i][p])
                      /\ \A n \in 1 .. Len(feed[i]), p \in 1 .. Len(replies'[i]) :
                           Allowed(i, p)' => InOrder(feed[i][n], ReplyEvent(i, p)')
                      /\ \A n, p \in 1 .. Len(replies'[i]) :
                           n < p /\ Allowed(i, n)' /\ Allowed(i, p)'
                             => InOrder(ReplyEvent(i, n)', ReplyEvent(i, p)')
    BY DEF OrderInv, InOrder, KeyOf, VersionOf
  <2>1. \A n \in 1 .. Len(feed[i]) : VersionOf(feed[i][n]) <= version'[KeyOf(feed[i][n])]
    BY <1>2, SeqElements DEF OrderInv
  <2>2. \A n \in 1 .. Len(replies'[i]) : Allowed(i, n)' =>
          VersionOf(ReplyEvent(i, n)') <= version'[KeyOf(ReplyEvent(i, n)')]
    BY <1>1, <1>2, SeqElements DEF OrderInv
  <2>3. \A n \in 1 .. Len(feed[i]), p \in 1 .. Len(replies'[i]) :
          Allowed(i, p)' => InOrder(feed[i][n], ReplyEvent(i, p)')
    BY <1>1 DEF OrderInv
  <2>4. \A n, p \in 1 .. Len(replies'[i]) :
          n < p /\ Allowed(i, n)' /\ Allowed(i, p)'
            => InOrder(ReplyEvent(i, n)', ReplyEvent(i, p)')
    <3> SUFFICES ASSUME NEW n \in 1 .. Len(replies'[i]), NEW p \in 1 .. Len(replies'[i]),
                        n < p, Allowed(i, n)', Allowed(i, p)'
                 PROVE  InOrder(ReplyEvent(i, n)', ReplyEvent(i, p)')
      OBVIOUS
    <3>1. n + shift[i] < p + shift[i]
      OBVIOUS
    <3> QED BY <1>1, <3>1 DEF OrderInv
  <2> QED BY <2>1, <2>2, <2>3, <2>4 DEF OrderInv
<1>4. ASSUME OnceInv, processed \subseteq processed'
      PROVE  OnceInv'
  <2>1. \A i \in Instance : \A n \in 1 .. Len(feed'[i]) : feed'[i][n] \in processed'
    BY <1>4 DEF OnceInv
  <2>2. \A i \in Instance : \A n \in 1 .. Len(replies'[i]) :
          Allowed(i, n)' => ReplyEvent(i, n)' \in processed'
    <3> SUFFICES ASSUME NEW i \in Instance, NEW n \in 1 .. Len(replies'[i]), Allowed(i, n)'
                 PROVE  ReplyEvent(i, n)' \in processed'
      OBVIOUS
    <3>1. ReplyEvent(i, n + shift[i]) \in processed
      BY <1>1, <1>4 DEF OnceInv
    <3> QED BY <1>1, <1>4, <3>1
  <2>3. AtMostOnce'
    <3>1. AtMostOnce
      BY <1>4 DEF OnceInv
    <3> SUFFICES ASSUME NEW i \in Instance, NEW j \in Instance,
                        NEW n \in 1 .. Len(feed[i]), NEW p \in 1 .. Len(feed[j]),
                        feed[i][n] = feed[j][p]
                 PROVE  i = j /\ n = p
      BY DEF AtMostOnce
    <3> QED BY <3>1 DEF AtMostOnce
  <2>4. \A i, j \in Instance :
          \A n \in 1 .. Len(replies'[i]), p \in 1 .. Len(feed'[j]) :
            Allowed(i, n)' => ReplyEvent(i, n)' # feed'[j][p]
    <3> SUFFICES ASSUME NEW i \in Instance, NEW j \in Instance,
                        NEW n \in 1 .. Len(replies'[i]), NEW p \in 1 .. Len(feed[j]),
                        Allowed(i, n)'
                 PROVE  ReplyEvent(i, n)' # feed[j][p]
      OBVIOUS
    <3>1. /\ n + shift[i] \in 1 .. Len(replies[i])
          /\ Allowed(i, n + shift[i])
          /\ ReplyEvent(i, n)' = ReplyEvent(i, n + shift[i])
      BY <1>1
    <3>2. ReplyEvent(i, n + shift[i]) # feed[j][p]
      BY <1>4, <3>1 DEF OnceInv
    <3> QED BY <3>1, <3>2
  <2>5. \A i, j \in Instance :
          \A n \in 1 .. Len(replies'[i]), p \in 1 .. Len(replies'[j]) :
            Allowed(i, n)' /\ Allowed(j, p)' /\ ReplyEvent(i, n)' = ReplyEvent(j, p)'
              => i = j /\ n = p
    <3> SUFFICES ASSUME NEW i \in Instance, NEW j \in Instance,
                        NEW n \in 1 .. Len(replies'[i]), NEW p \in 1 .. Len(replies'[j]),
                        Allowed(i, n)', Allowed(j, p)',
                        ReplyEvent(i, n)' = ReplyEvent(j, p)'
                 PROVE  i = j /\ n = p
      OBVIOUS
    <3>1. /\ n + shift[i] \in 1 .. Len(replies[i])
          /\ p + shift[j] \in 1 .. Len(replies[j])
          /\ Allowed(i, n + shift[i]) /\ Allowed(j, p + shift[j])
          /\ ReplyEvent(i, n + shift[i]) = ReplyEvent(j, p + shift[j])
      BY <1>1
    <3>2. i = j /\ n + shift[i] = p + shift[j]
      BY <1>4, <3>1 DEF OnceInv
    <3>3. n + shift[i] = p + shift[i]
      BY <3>2
    <3> QED BY <3>2, <3>3
  <2> QED BY <2>1, <2>2, <2>3, <2>4, <2>5 DEF OnceInv
<1> QED BY <1>3, <1>4

(* Lengths and the next state's version, from type correctness. *)
LEMMA NextLengths ==
    ASSUME TypeOK'
    PROVE  /\ version' \in [Key -> Nat]
           /\ \A i \in Instance : Len(replies'[i]) \in Nat
<1>1. \A i \in Instance : replies'[i] \in Seq(Reply)
  BY DEF TypeOK
<1> QED BY <1>1, LenProperties DEF TypeOK, StateTypeOK

(* Steps that neither add a reply nor broadcast. *)
LEMMA QuietKeeps ==
    ASSUME TypeOK, OrderInv, [Next]_vars,
           ~ \E i \in Instance : Evaluate(i) \/ Publish(i)
    PROVE  /\ OrderInv'
           /\ OnceInv /\ ~CanExpire => OnceInv'
<1> DEFINE Zero == [i \in Instance |-> 0]
<1>1. TypeOK'
  BY NextType
<1>2. Zero \in [Instance -> Nat]
  OBVIOUS
<1>3. version \in [Key -> Nat] /\ \A k \in Key : version[k] <= version[k]
  BY DEF TypeOK, StateTypeOK
<1>4. ASSUME UNCHANGED <<feed, replies>>, \A k \in Key : version[k] <= version'[k]
      PROVE  OrderInv' /\ (OnceInv /\ processed \subseteq processed' => OnceInv')
  <2>1. \A i \in Instance :
          /\ Len(replies'[i]) \in Nat
          /\ \A n \in 1 .. Len(replies'[i]) :
               /\ n + Zero[i] \in 1 .. Len(replies[i])
               /\ replies'[i][n].msg = replies[i][n + Zero[i]].msg
               /\ replies'[i][n].status = replies[i][n + Zero[i]].status
    BY <1>4, SeqElements
  <2> HIDE DEF Zero
  <2> QED BY <1>1, <1>2, <1>3, <1>4, <2>1, NextLengths, DroppingReplies
<1>5. ASSUME NEW i \in Instance, Ignore(i)
      PROVE  OrderInv' /\ (OnceInv => OnceInv')
  <2> DEFINE One == [j \in Instance |-> IF j = i THEN 1 ELSE 0]
  <2>1. replies[i] \in Seq(Reply) /\ replies[i] # <<>> /\ replies' = [replies EXCEPT ![i] = Tail(@)]
    BY <1>5 DEF Ignore, TypeOK
  <2>2. Len(Tail(replies[i])) = Len(replies[i]) - 1
        /\ \A n \in 1 .. Len(Tail(replies[i])) : Tail(replies[i])[n] = replies[i][n + 1]
    BY <2>1, HeadTailProperties
  <2>3. \A j \in Instance :
          /\ Len(replies'[j]) \in Nat
          /\ \A n \in 1 .. Len(replies'[j]) :
               /\ n + One[j] \in 1 .. Len(replies[j])
               /\ replies'[j][n].msg = replies[j][n + One[j]].msg
               /\ replies'[j][n].status = replies[j][n + One[j]].status
    <3> SUFFICES ASSUME NEW j \in Instance, NEW n \in 1 .. Len(replies'[j])
                 PROVE  /\ n + One[j] \in 1 .. Len(replies[j])
                        /\ replies'[j][n] = replies[j][n + One[j]]
      BY <1>1, NextLengths
    <3>1. CASE j = i
      <4>1. replies'[j] = Tail(replies[i])
        BY <2>1, <3>1 DEF TypeOK
      <4> QED BY <2>2, <3>1, <4>1, SeqElements
    <3>2. CASE j # i
      <4>1. replies'[j] = replies[j]
        BY <2>1, <3>2 DEF TypeOK
      <4> QED BY <3>2, <4>1, SeqElements
    <3> QED BY <3>1, <3>2
  <2>4. One \in [Instance -> Nat]
    OBVIOUS
  <2>5. feed' = feed /\ version' = version /\ processed' = processed
    BY <1>5 DEF Ignore, redisVars
  <2> HIDE DEF One
  <2> QED BY <1>3, <2>3, <2>4, <2>5, DroppingReplies
<1>6. ASSUME NEW i \in Instance, LoseChannel(i) \/ LoseRedis(i) \/ Crash(i)
      PROVE  OrderInv' /\ (OnceInv => OnceInv')
  <2>1. \/ replies' = [replies EXCEPT ![i] = Detached(@)]
        \/ replies' = [replies EXCEPT ![i] = <<>>]
    BY <1>6 DEF LoseChannel, LoseRedis, Crash
  <2>2. \A j \in Instance :
          /\ Len(replies'[j]) \in Nat
          /\ \A n \in 1 .. Len(replies'[j]) :
               /\ n + Zero[j] \in 1 .. Len(replies[j])
               /\ replies'[j][n].msg = replies[j][n + Zero[j]].msg
               /\ replies'[j][n].status = replies[j][n + Zero[j]].status
    <3> SUFFICES ASSUME NEW j \in Instance, NEW n \in 1 .. Len(replies'[j])
                 PROVE  /\ n \in 1 .. Len(replies[j])
                        /\ replies'[j][n].msg = replies[j][n].msg
                        /\ replies'[j][n].status = replies[j][n].status
      BY <1>1, NextLengths, SeqElements
    <3>1. replies[j] \in Seq(Reply)
      BY DEF TypeOK
    <3>2. replies'[j] \in {replies[j], Detached(replies[j]), <<>>}
      BY <2>1 DEF TypeOK
    <3>3. Len(<<>>) = 0
      OBVIOUS
    <3> QED BY <3>1, <3>2, <3>3, DetachedReplies
  <2>3. feed' = feed /\ version' = version /\ processed' = processed
    BY <1>6 DEF LoseChannel, LoseRedis, Crash, redisVars
  <2> HIDE DEF Zero
  <2> QED BY <1>2, <1>3, <2>2, <2>3, DroppingReplies
<1>7. ASSUME NEW e \in EventId, EvaluateOrphan(e)
      PROVE  OrderInv' /\ (OnceInv => OnceInv')
  <2>1. processed \subseteq processed' /\ \A k \in Key : version[k] <= version'[k]
    BY <1>7, AcceptEventStep DEF EvaluateOrphan, TypeOK
  <2>2. UNCHANGED <<feed, replies>>
    BY <1>7 DEF EvaluateOrphan
  <2> QED BY <1>4, <2>1, <2>2
<1>8. ASSUME NEW e \in EventId, ExpireKey(e)
      PROVE  OrderInv' /\ CanExpire
  <2>1. UNCHANGED <<feed, replies, version>> /\ CanExpire
    BY <1>8 DEF ExpireKey, Expire, pipelineVars
  <2> QED BY <1>3, <1>4, <2>1
<1>9. ASSUME UNCHANGED <<feed, replies, processed, version>>
      PROVE  OrderInv' /\ (OnceInv => OnceInv')
  BY <1>3, <1>4, <1>9
<1>10. \/ \E i \in Instance : Ignore(i) \/ LoseChannel(i) \/ LoseRedis(i) \/ Crash(i)
       \/ \E e \in EventId : EvaluateOrphan(e) \/ ExpireKey(e)
       \/ UNCHANGED <<feed, replies, processed, version>>
  BY DEF Next, vars, redisVars, pipelineVars, Deliver, RejectInvalid, Settle, Insert
<1> QED BY <1>5, <1>6, <1>7, <1>8, <1>9, <1>10

(* The reply appended by the script: it is allowed only for an event Redis *)
(* had not seen and that is at least as new as all it had.                 *)
LEMMA EvaluateEffect ==
    ASSUME TypeOK, NEW i \in Instance, Evaluate(i)
    PROVE  \E e \in EventId :
             /\ AcceptEvent(e)
             /\ \A j \in Instance :
                  Len(replies'[j]) = IF j = i THEN Len(replies[j]) + 1 ELSE Len(replies[j])
             /\ \A j \in Instance : \A n \in 1 .. Len(replies[j]) :
                  ReplyEvent(j, n)' = ReplyEvent(j, n) /\ Allowed(j, n)' = Allowed(j, n)
             /\ \A n \in Nat : n = Len(replies[i]) + 1 =>
                  /\ ReplyEvent(i, n)' = e
                  /\ Allowed(i, n)' => Acceptance(e) \in Applied
<1> DEFINE c == Head(commands[i])
           e == EventOf[c.msg]
           r == [msg |-> c.msg, live |-> c.live, status |-> Acceptance(e)]
<1>1. commands[i] \in Seq(Command) /\ commands[i] # <<>>
  BY DEF TypeOK, Evaluate
<1>2. c \in Command
  BY <1>1, HeadTailProperties
<1>3. e \in EventId
  BY <1>2, ValidCarriesEvent DEF Command
<1>4. r \in Reply
  BY <1>2, <1>3, AcceptanceType DEF Command, Reply
<1>5. replies[i] \in Seq(Reply) /\ replies'[i] = Append(replies[i], r)
      /\ \A j \in Instance : j # i => replies'[j] = replies[j]
  BY DEF TypeOK, Evaluate
<1>6. /\ Len(replies'[i]) = Len(replies[i]) + 1
      /\ \A n \in 1 .. Len(replies[i]) : replies'[i][n] = replies[i][n]
      /\ replies'[i][Len(replies[i]) + 1] = r
  BY <1>4, <1>5, AppendProperties
<1>7. AcceptEvent(e)
  BY DEF Evaluate
<1>8. ASSUME NEW n \in Nat, n = Len(replies[i]) + 1
      PROVE  /\ ReplyEvent(i, n)' = e
             /\ Allowed(i, n)' => Acceptance(e) \in Applied
  <2>1. replies'[i][n] = r
    BY <1>6, <1>8
  <2> QED BY <2>1 DEF ReplyEvent, Allowed
<1>10. \A j \in Instance : \A n \in 1 .. Len(replies[j]) : replies'[j][n] = replies[j][n]
  BY <1>5, <1>6
<1>11. \A j \in Instance : \A n \in 1 .. Len(replies[j]) :
         ReplyEvent(j, n)' = ReplyEvent(j, n) /\ Allowed(j, n)' = Allowed(j, n)
  BY <1>10 DEF ReplyEvent, Allowed
<1> HIDE DEF c, e, r
<1> QED BY <1>3, <1>5, <1>6, <1>7, <1>8, <1>11

(* Executing a command preserves the invariant. *)
LEMMA EvaluateKeeps ==
    ASSUME TypeOK, OrderInv, NEW i \in Instance, Evaluate(i)
    PROVE  /\ OrderInv'
           /\ OnceInv => OnceInv'
<1>1. PICK e \in EventId :
        /\ AcceptEvent(e)
        /\ \A j \in Instance :
             Len(replies'[j]) = IF j = i THEN Len(replies[j]) + 1 ELSE Len(replies[j])
        /\ \A j \in Instance : \A n \in 1 .. Len(replies[j]) :
             ReplyEvent(j, n)' = ReplyEvent(j, n) /\ Allowed(j, n)' = Allowed(j, n)
        /\ \A n \in Nat : n = Len(replies[i]) + 1 =>
             /\ ReplyEvent(i, n)' = e
             /\ Allowed(i, n)' => Acceptance(e) \in Applied
  BY EvaluateEffect
<1>2. feed' = feed
  BY DEF Evaluate
<1>3. /\ \A k \in Key : version[k] <= version'[k]
      /\ processed' = processed \union {e}
      /\ Acceptance(e) \in Applied =>
           /\ e \notin processed
           /\ version[KeyOf(e)] <= VersionOf(e)
           /\ version'[KeyOf(e)] = VersionOf(e)
  BY <1>1, AcceptEventStep DEF TypeOK
<1>4. version \in [Key -> Nat] /\ version' \in [Key -> Nat]
  BY <1>1, AcceptEventStep DEF TypeOK, StateTypeOK
<1>5. \A f \in EventId : VersionOf(f) <= version[KeyOf(f)] =>
        /\ VersionOf(f) <= version'[KeyOf(f)]
        /\ Acceptance(e) \in Applied => InOrder(f, e)
  BY <1>3, <1>4, EnvelopeType DEF InOrder
<1>6. \A j \in Instance : \A n \in 1 .. Len(replies'[j]) :
        n \in 1 .. Len(replies[j]) \/ (j = i /\ n = Len(replies[i]) + 1)
  BY <1>1, SeqElements
<1>7. OrderInv'
  <2> SUFFICES ASSUME NEW j \in Instance
               PROVE  /\ \A n \in 1 .. Len(feed[j]) :
                           VersionOf(feed[j][n]) <= version'[KeyOf(feed[j][n])]
                      /\ \A n \in 1 .. Len(replies'[j]) : Allowed(j, n)' =>
                           VersionOf(ReplyEvent(j, n)') <= version'[KeyOf(ReplyEvent(j, n)')]
                      /\ \A n, p \in 1 .. Len(feed[j]) : n < p => InOrder(feed[j][n], feed[j][p])
                      /\ \A n \in 1 .. Len(feed[j]), p \in 1 .. Len(replies'[j]) :
                           Allowed(j, p)' => InOrder(feed[j][n], ReplyEvent(j, p)')
                      /\ \A n, p \in 1 .. Len(replies'[j]) :
                           n < p /\ Allowed(j, n)' /\ Allowed(j, p)'
                             => InOrder(ReplyEvent(j, n)', ReplyEvent(j, p)')
    BY <1>2 DEF OrderInv, InOrder, KeyOf, VersionOf
  <2>1. \A n \in 1 .. Len(feed[j]) : VersionOf(feed[j][n]) <= version'[KeyOf(feed[j][n])]
    BY <1>5, SeqElements DEF OrderInv
  <2>2. ASSUME NEW n \in 1 .. Len(replies'[j]), Allowed(j, n)'
        PROVE  VersionOf(ReplyEvent(j, n)') <= version'[KeyOf(ReplyEvent(j, n)')]
    <3>1. CASE n \in 1 .. Len(replies[j])
      BY <1>1, <1>5, <2>2, <3>1, SeqElements DEF OrderInv
    <3>2. CASE j = i /\ n = Len(replies[i]) + 1
      BY <1>1, <1>3, <2>2, <3>2, EnvelopeType
    <3> QED BY <1>6, <3>1, <3>2
  <2>3. ASSUME NEW n \in 1 .. Len(feed[j]), NEW p \in 1 .. Len(replies'[j]), Allowed(j, p)'
        PROVE  InOrder(feed[j][n], ReplyEvent(j, p)')
    <3>1. CASE p \in 1 .. Len(replies[j])
      BY <1>1, <2>3, <3>1 DEF OrderInv
    <3>2. CASE j = i /\ p = Len(replies[i]) + 1
      BY <1>1, <1>5, <2>3, <3>2, SeqElements DEF OrderInv
    <3> QED BY <1>6, <3>1, <3>2
  <2>4. ASSUME NEW n \in 1 .. Len(replies'[j]), NEW p \in 1 .. Len(replies'[j]),
               n < p, Allowed(j, n)', Allowed(j, p)'
        PROVE  InOrder(ReplyEvent(j, n)', ReplyEvent(j, p)')
    <3>1. n \in 1 .. Len(replies[j])
      BY <1>1, <2>4, SeqElements
    <3>2. CASE p \in 1 .. Len(replies[j])
      BY <1>1, <2>4, <3>1, <3>2 DEF OrderInv
    <3>3. CASE j = i /\ p = Len(replies[i]) + 1
      BY <1>1, <1>5, <2>4, <3>1, <3>3, SeqElements DEF OrderInv
    <3> QED BY <1>6, <3>2, <3>3
  <2> QED BY <2>1, <2>2, <2>3, <2>4 DEF OrderInv
<1>8. ASSUME OnceInv
      PROVE  OnceInv'
  <2>1. \A j \in Instance : \A n \in 1 .. Len(feed'[j]) : feed'[j][n] \in processed'
    BY <1>2, <1>3, <1>8 DEF OnceInv
  <2>2. ASSUME NEW j \in Instance, NEW n \in 1 .. Len(replies'[j]), Allowed(j, n)'
        PROVE  ReplyEvent(j, n)' \in processed'
    <3>1. CASE n \in 1 .. Len(replies[j])
      BY <1>1, <1>3, <1>8, <2>2, <3>1 DEF OnceInv
    <3>2. CASE j = i /\ n = Len(replies[i]) + 1
      BY <1>1, <1>3, <3>2
    <3> QED BY <1>6, <3>1, <3>2
  <2>3. AtMostOnce'
    <3>1. AtMostOnce
      BY <1>8 DEF OnceInv
    <3> SUFFICES ASSUME NEW j \in Instance, NEW l \in Instance,
                        NEW n \in 1 .. Len(feed[j]), NEW p \in 1 .. Len(feed[l]),
                        feed[j][n] = feed[l][p]
                 PROVE  j = l /\ n = p
      BY <1>2 DEF AtMostOnce
    <3> QED BY <3>1 DEF AtMostOnce
  <2>4. ASSUME NEW j \in Instance, NEW l \in Instance,
               NEW n \in 1 .. Len(replies'[j]), NEW p \in 1 .. Len(feed'[l]), Allowed(j, n)'
        PROVE  ReplyEvent(j, n)' # feed'[l][p]
    <3>1. CASE n \in 1 .. Len(replies[j])
      BY <1>1, <1>2, <1>8, <2>4, <3>1 DEF OnceInv
    <3>2. CASE j = i /\ n = Len(replies[i]) + 1
      BY <1>1, <1>2, <1>3, <1>8, <2>4, <3>2 DEF OnceInv
    <3> QED BY <1>6, <3>1, <3>2
  <2>5. ASSUME NEW j \in Instance, NEW l \in Instance,
               NEW n \in 1 .. Len(replies'[j]), NEW p \in 1 .. Len(replies'[l]),
               Allowed(j, n)', Allowed(l, p)', ReplyEvent(j, n)' = ReplyEvent(l, p)'
        PROVE  j = l /\ n = p
    <3>1. CASE n \in 1 .. Len(replies[j]) /\ p \in 1 .. Len(replies[l])
      BY <1>1, <1>8, <2>5, <3>1 DEF OnceInv
    <3>2. CASE n \in 1 .. Len(replies[j]) /\ l = i /\ p = Len(replies[i]) + 1
      BY <1>1, <1>3, <1>8, <2>5, <3>2 DEF OnceInv
    <3>3. CASE j = i /\ n = Len(replies[i]) + 1 /\ p \in 1 .. Len(replies[l])
      BY <1>1, <1>3, <1>8, <2>5, <3>3 DEF OnceInv
    <3> QED BY <1>6, <3>1, <3>2, <3>3
  <2> QED BY <2>1, <2>2, <2>3, <2>4, <2>5 DEF OnceInv
<1> QED BY <1>7, <1>8

(* A broadcast takes the first reply of one instance, which allowed it, to *)
(* the end of its feed.                                                    *)
LEMMA PublishEffect ==
    ASSUME TypeOK, NEW i \in Instance, Publish(i)
    PROVE  /\ version' = version /\ processed' = processed
           /\ 1 \in 1 .. Len(replies[i]) /\ Allowed(i, 1)
           /\ feed' = [feed EXCEPT ![i] = Append(@, ReplyEvent(i, 1))]
           /\ \A j \in Instance : \A n \in 1 .. Len(feed'[j]) :
                \/ n \in 1 .. Len(feed[j]) /\ feed'[j][n] = feed[j][n]
                \/ j = i /\ n = Len(feed[i]) + 1 /\ feed'[j][n] = ReplyEvent(i, 1)
           /\ \A n \in Nat : n \in 1 .. Len(replies'[i]) =>
                /\ n + 1 \in 1 .. Len(replies[i])
                /\ ReplyEvent(i, n)' = ReplyEvent(i, n + 1)
                /\ Allowed(i, n)' = Allowed(i, n + 1)
           /\ \A j \in Instance : j # i =>
                /\ Len(replies'[j]) = Len(replies[j])
                /\ \A n \in Nat :
                     /\ ReplyEvent(j, n)' = ReplyEvent(j, n)
                     /\ Allowed(j, n)' = Allowed(j, n)
<1>1. replies[i] \in Seq(Reply) /\ replies[i] # <<>> /\ feed[i] \in Seq(EventId)
  BY DEF TypeOK, Publish
<1>2. Len(replies[i]) \in Nat /\ 1 \in 1 .. Len(replies[i]) /\ Head(replies[i]) = replies[i][1]
  BY <1>1, EmptySeq
<1>3. Allowed(i, 1) /\ feed' = [feed EXCEPT ![i] = Append(@, ReplyEvent(i, 1))]
  BY <1>2 DEF Publish, Allowed, ReplyEvent
<1>4. ReplyEvent(i, 1) \in EventId
  BY <1>2, SeqElements
<1>5. /\ replies'[i] = Tail(replies[i])
      /\ \A j \in Instance : j # i => replies'[j] = replies[j]
  BY DEF TypeOK, Publish
<1>6. /\ Len(replies'[i]) = Len(replies[i]) - 1
      /\ \A n \in 1 .. Len(replies'[i]) : replies'[i][n] = replies[i][n + 1]
  BY <1>1, <1>5, HeadTailProperties
<1>7. ASSUME NEW n \in Nat, n \in 1 .. Len(replies'[i])
      PROVE  /\ n + 1 \in 1 .. Len(replies[i])
             /\ ReplyEvent(i, n)' = ReplyEvent(i, n + 1)
             /\ Allowed(i, n)' = Allowed(i, n + 1)
  <2>1. replies'[i][n] = replies[i][n + 1] /\ n + 1 \in 1 .. Len(replies[i])
    BY <1>2, <1>6, <1>7
  <2> QED BY <2>1 DEF ReplyEvent, Allowed
<1>8. ASSUME NEW j \in Instance, j # i
      PROVE  /\ Len(replies'[j]) = Len(replies[j])
             /\ \A n \in Nat : ReplyEvent(j, n)' = ReplyEvent(j, n) /\ Allowed(j, n)' = Allowed(j, n)
  BY <1>5, <1>8 DEF ReplyEvent, Allowed
<1>9. ASSUME NEW j \in Instance, NEW n \in 1 .. Len(feed'[j])
      PROVE  \/ n \in 1 .. Len(feed[j]) /\ feed'[j][n] = feed[j][n]
             \/ j = i /\ n = Len(feed[i]) + 1 /\ feed'[j][n] = ReplyEvent(i, 1)
  <2>1. CASE j = i
    <3>1. feed'[i] = Append(feed[i], ReplyEvent(i, 1))
      BY <1>3 DEF TypeOK
    <3>2. /\ Len(feed'[i]) = Len(feed[i]) + 1 /\ Len(feed[i]) \in Nat
          /\ \A k \in 1 .. Len(feed[i]) : feed'[i][k] = feed[i][k]
          /\ feed'[i][Len(feed[i]) + 1] = ReplyEvent(i, 1)
      BY <1>1, <1>4, <3>1, AppendProperties, LenProperties
    <3> QED BY <1>9, <2>1, <3>2
  <2>2. CASE j # i
    <3>1. feed'[j] = feed[j]
      BY <1>3, <2>2 DEF TypeOK
    <3> QED BY <1>9, <3>1
  <2> QED BY <2>1, <2>2
<1>10. version' = version /\ processed' = processed
  BY DEF Publish, redisVars
<1> QED BY <1>2, <1>3, <1>7, <1>8, <1>9, <1>10

(* A broadcast preserves the invariant. *)
LEMMA PublishKeeps ==
    ASSUME TypeOK, OrderInv, NEW i \in Instance, Publish(i)
    PROVE  /\ OrderInv'
           /\ OnceInv => OnceInv'
<1> DEFINE first == ReplyEvent(i, 1)
           d(j) == IF j = i THEN 1 ELSE 0
<1>1. /\ version' = version /\ processed' = processed
      /\ 1 \in 1 .. Len(replies[i]) /\ Allowed(i, 1)
  BY PublishEffect
<1>2. \A j \in Instance : \A n \in 1 .. Len(feed'[j]) :
        \/ n \in 1 .. Len(feed[j]) /\ feed'[j][n] = feed[j][n]
        \/ j = i /\ n = Len(feed[i]) + 1 /\ feed'[j][n] = first
  BY PublishEffect
<1>3. \A j \in Instance : \A n \in Nat : n \in 1 .. Len(replies'[j]) =>
        /\ n + d(j) \in 1 .. Len(replies[j])
        /\ ReplyEvent(j, n)' = ReplyEvent(j, n + d(j))
        /\ Allowed(j, n)' = Allowed(j, n + d(j))
  <2> SUFFICES ASSUME NEW j \in Instance, NEW n \in Nat, n \in 1 .. Len(replies'[j])
               PROVE  /\ n + d(j) \in 1 .. Len(replies[j])
                      /\ ReplyEvent(j, n)' = ReplyEvent(j, n + d(j))
                      /\ Allowed(j, n)' = Allowed(j, n + d(j))
    OBVIOUS
  <2>1. CASE j = i
    BY <2>1, PublishEffect
  <2>2. CASE j # i
    <3>1. n + d(j) = n
      BY <2>2
    <3> QED BY <2>2, <3>1, PublishEffect
  <2> QED BY <2>1, <2>2
<1>4. \A j \in Instance : \A n \in 1 .. Len(replies'[j]) :
        j = i => n + d(j) > 1
  BY <1>3
<1>5. \A j \in Instance : \A n \in 1 .. Len(replies'[j]) : n \in Nat
  OBVIOUS
<1> HIDE DEF first
<1>6. OrderInv'
  <2> SUFFICES ASSUME NEW j \in Instance
               PROVE  /\ \A n \in 1 .. Len(feed'[j]) :
                           VersionOf(feed'[j][n]) <= version[KeyOf(feed'[j][n])]
                      /\ \A n \in 1 .. Len(replies'[j]) : Allowed(j, n)' =>
                           VersionOf(ReplyEvent(j, n)') <= version[KeyOf(ReplyEvent(j, n)')]
                      /\ \A n, p \in 1 .. Len(feed'[j]) :
                           n < p => InOrder(feed'[j][n], feed'[j][p])
                      /\ \A n \in 1 .. Len(feed'[j]), p \in 1 .. Len(replies'[j]) :
                           Allowed(j, p)' => InOrder(feed'[j][n], ReplyEvent(j, p)')
                      /\ \A n, p \in 1 .. Len(replies'[j]) :
                           n < p /\ Allowed(j, n)' /\ Allowed(j, p)'
                             => InOrder(ReplyEvent(j, n)', ReplyEvent(j, p)')
    BY <1>1 DEF OrderInv, InOrder, KeyOf, VersionOf
  <2>1. ASSUME NEW n \in 1 .. Len(feed'[j])
        PROVE  VersionOf(feed'[j][n]) <= version[KeyOf(feed'[j][n])]
    BY <1>1, <1>2 DEF OrderInv, first
  <2>2. ASSUME NEW n \in 1 .. Len(replies'[j]), Allowed(j, n)'
        PROVE  VersionOf(ReplyEvent(j, n)') <= version[KeyOf(ReplyEvent(j, n)')]
    BY <1>3, <1>5, <2>2 DEF OrderInv
  <2>3. ASSUME NEW n \in 1 .. Len(feed'[j]), NEW p \in 1 .. Len(feed'[j]), n < p
        PROVE  InOrder(feed'[j][n], feed'[j][p])
    <3>1. n \in 1 .. Len(feed[j]) /\ feed'[j][n] = feed[j][n]
      BY <1>2, <2>3, SeqElements
    <3>2. CASE p \in 1 .. Len(feed[j]) /\ feed'[j][p] = feed[j][p]
      BY <2>3, <3>1, <3>2 DEF OrderInv
    <3>3. CASE j = i /\ feed'[j][p] = first
      BY <1>1, <3>1, <3>3 DEF OrderInv, first
    <3> QED BY <1>2, <3>2, <3>3
  <2>4. ASSUME NEW n \in 1 .. Len(feed'[j]), NEW p \in 1 .. Len(replies'[j]), Allowed(j, p)'
        PROVE  InOrder(feed'[j][n], ReplyEvent(j, p)')
    <3>1. p + d(j) \in 1 .. Len(replies[j]) /\ Allowed(j, p + d(j))
          /\ ReplyEvent(j, p)' = ReplyEvent(j, p + d(j))
      BY <1>3, <1>5, <2>4
    <3>2. CASE n \in 1 .. Len(feed[j]) /\ feed'[j][n] = feed[j][n]
      BY <3>1, <3>2 DEF OrderInv
    <3>3. CASE j = i /\ feed'[j][n] = first
      BY <1>1, <1>4, <3>1, <3>3 DEF OrderInv, first
    <3> QED BY <1>2, <3>2, <3>3
  <2>5. ASSUME NEW n \in 1 .. Len(replies'[j]), NEW p \in 1 .. Len(replies'[j]),
               n < p, Allowed(j, n)', Allowed(j, p)'
        PROVE  InOrder(ReplyEvent(j, n)', ReplyEvent(j, p)')
    <3>1. /\ n + d(j) \in 1 .. Len(replies[j]) /\ Allowed(j, n + d(j))
          /\ ReplyEvent(j, n)' = ReplyEvent(j, n + d(j))
      BY <1>3, <1>5, <2>5
    <3>2. /\ p + d(j) \in 1 .. Len(replies[j]) /\ Allowed(j, p + d(j))
          /\ ReplyEvent(j, p)' = ReplyEvent(j, p + d(j))
      BY <1>3, <1>5, <2>5
    <3>3. n + d(j) < p + d(j)
      BY <2>5
    <3>4. InOrder(ReplyEvent(j, n + d(j)), ReplyEvent(j, p + d(j)))
      BY <3>1, <3>2, <3>3 DEF OrderInv
    <3> QED BY <3>1, <3>2, <3>4 DEF InOrder
  <2> QED BY <2>1, <2>2, <2>3, <2>4, <2>5
<1>7. ASSUME OnceInv
      PROVE  OnceInv'
  <2>1. ASSUME NEW j \in Instance, NEW n \in 1 .. Len(feed'[j])
        PROVE  feed'[j][n] \in processed'
    <3>1. first \in processed'
      BY <1>1, <1>7 DEF OnceInv, first
    <3>2. \A p \in 1 .. Len(feed[j]) : feed[j][p] \in processed'
      BY <1>1, <1>7 DEF OnceInv
    <3> QED BY <1>2, <3>1, <3>2
  <2>2. ASSUME NEW j \in Instance, NEW n \in 1 .. Len(replies'[j]), Allowed(j, n)'
        PROVE  ReplyEvent(j, n)' \in processed'
    <3>1. n + d(j) \in 1 .. Len(replies[j]) /\ Allowed(j, n + d(j))
          /\ ReplyEvent(j, n)' = ReplyEvent(j, n + d(j))
      BY <1>3, <1>5, <2>2
    <3> QED BY <1>1, <1>7, <3>1 DEF OnceInv
  <2>3. AtMostOnce'
    <3>1. AtMostOnce
      BY <1>7 DEF OnceInv
    <3>2. \A l \in Instance : \A p \in 1 .. Len(feed[l]) : feed[l][p] # first
      BY <1>1, <1>7 DEF OnceInv, first
    <3> SUFFICES ASSUME NEW j \in Instance, NEW l \in Instance,
                        NEW n \in 1 .. Len(feed'[j]), NEW p \in 1 .. Len(feed'[l]),
                        feed'[j][n] = feed'[l][p]
                 PROVE  j = l /\ n = p
      BY DEF AtMostOnce
    <3>3. CASE n \in 1 .. Len(feed[j]) /\ feed'[j][n] = feed[j][n]
      <4>1. p \in 1 .. Len(feed[l]) /\ feed'[l][p] = feed[l][p]
        BY <1>2, <3>2, <3>3
      <4>2. feed[j][n] = feed[l][p]
        BY <3>3, <4>1
      <4> QED BY <3>1, <3>3, <4>1, <4>2 DEF AtMostOnce
    <3>4. CASE j = i /\ n = Len(feed[i]) + 1 /\ feed'[j][n] = first
      <4>1. l = i /\ p = Len(feed[i]) + 1
        BY <1>2, <3>2, <3>4
      <4> QED BY <3>4, <4>1
    <3> QED BY <1>2, <3>3, <3>4
  <2>4. ASSUME NEW j \in Instance, NEW l \in Instance,
               NEW n \in 1 .. Len(replies'[j]), NEW p \in 1 .. Len(feed'[l]), Allowed(j, n)'
        PROVE  ReplyEvent(j, n)' # feed'[l][p]
    <3>1. n + d(j) \in 1 .. Len(replies[j]) /\ Allowed(j, n + d(j))
          /\ ReplyEvent(j, n)' = ReplyEvent(j, n + d(j))
      BY <1>3, <1>5, <2>4
    <3>2. CASE p \in 1 .. Len(feed[l]) /\ feed'[l][p] = feed[l][p]
      BY <1>7, <3>1, <3>2 DEF OnceInv
    <3>3. CASE l = i /\ feed'[l][p] = first
      <4>1. j = i => n + d(j) # 1
        BY <1>4, <2>4
      <4> QED BY <1>1, <1>7, <3>1, <3>3, <4>1 DEF OnceInv, first
    <3> QED BY <1>2, <3>2, <3>3
  <2>5. ASSUME NEW j \in Instance, NEW l \in Instance,
               NEW n \in 1 .. Len(replies'[j]), NEW p \in 1 .. Len(replies'[l]),
               Allowed(j, n)', Allowed(l, p)', ReplyEvent(j, n)' = ReplyEvent(l, p)'
        PROVE  j = l /\ n = p
    <3>1. j = l /\ n + d(j) = p + d(l)
      BY <1>3, <1>5, <1>7, <2>5 DEF OnceInv
    <3> QED BY <3>1
  <2> QED BY <2>1, <2>2, <2>3, <2>4, <2>5 DEF OnceInv
<1> QED BY <1>6, <1>7

(* Nothing is broadcast or replied at first. *)
LEMMA InitKeeps == Init => OrderInv /\ OnceInv
<1> SUFFICES ASSUME Init PROVE OrderInv /\ OnceInv
  OBVIOUS
<1>1. \A i \in Instance : Len(feed[i]) = 0 /\ Len(replies[i]) = 0
  BY EmptySeq DEF Init
<1>2. \A i \in Instance : 1 .. Len(feed[i]) = {} /\ 1 .. Len(replies[i]) = {}
  BY <1>1
<1>3. OrderInv
  BY <1>2 DEF OrderInv
<1>4. AtMostOnce
  BY <1>2 DEF AtMostOnce
<1> QED BY <1>2, <1>3, <1>4 DEF OnceInv

(* Every step preserves the invariant; its first part needs no assumption, *)
(* its second part that processed keys do not expire.                      *)
LEMMA NextKeeps ==
    ASSUME TypeOK, OrderInv, [Next]_vars
    PROVE  /\ OrderInv'
           /\ OnceInv /\ ~CanExpire => OnceInv'
<1>1. CASE \E i \in Instance : Evaluate(i)
  BY <1>1, EvaluateKeeps
<1>2. CASE \E i \in Instance : Publish(i)
  BY <1>2, PublishKeeps
<1>3. CASE ~ \E i \in Instance : Evaluate(i) \/ Publish(i)
  BY <1>3, QuietKeeps
<1> QED BY <1>1, <1>2, <1>3

(* The broadcasts of every instance are in the order of their versions,    *)
(* and stay so when processed keys expire and events are processed again.  *)
THEOREM OrderCorrect == Spec => []OrderInv
<1>1. Init => OrderInv
  BY InitKeeps
<1>2. TypeOK /\ OrderInv /\ [Next]_vars => OrderInv'
  BY NextKeeps
<1> QED BY <1>1, <1>2, TypeCorrect, PTL DEF Spec

(* No instance broadcasts an older version of an auction after a newer     *)
(* one, whatever the interleaving of handlers, crashes and redeliveries.   *)
THEOREM FeedAlwaysInOrder == Spec => []FeedInOrder
<1>1. OrderInv => FeedInOrder
  BY DEF OrderInv, FeedInOrder
<1> QED BY <1>1, OrderCorrect, PTL

(* The invariant that makes broadcasts unique. *)
THEOREM OnceCorrect ==
    ASSUME ~CanExpire
    PROVE  Spec => []OnceInv
<1>1. Init => OnceInv
  BY InitKeeps
<1>2. TypeOK /\ OrderInv /\ OnceInv /\ [Next]_vars => OnceInv'
  BY NextKeeps
<1> QED BY <1>1, <1>2, TypeCorrect, OrderCorrect, PTL DEF Spec

(* While processed keys do not expire, no event is broadcast twice, by one *)
(* instance or by two, although messages are published and delivered       *)
(* several times.                                                          *)
THEOREM BroadcastAtMostOnce ==
    ASSUME ~CanExpire
    PROVE  Spec => []AtMostOnce
<1>1. OnceInv => AtMostOnce
  BY DEF OnceInv
<1> QED BY <1>1, OnceCorrect, PTL

-----------------------------------------------------------------------------
(* Refinement                                                              *)

(* A broadcast is a step of the abstract feed. *)
LEMMA PublishAnnounces ==
    ASSUME TypeOK, OrderInv, OnceInv, NEW i \in Instance, Publish(i)
    PROVE  \E e \in EventId : Feed!Announce(i, e)
<1> DEFINE e == ReplyEvent(i, 1)
<1>1. 1 \in 1 .. Len(replies[i]) /\ Allowed(i, 1) /\ feed' = [feed EXCEPT ![i] = Append(@, e)]
  BY PublishEffect
<1>2. e \in EventId
  BY <1>1, SeqElements
<1> HIDE DEF e
<1>3. ~Feed!Announced(e)
  BY <1>1 DEF OnceInv, Feed!Announced, e
<1>4. \A n \in 1 .. Len(feed[i]) : InOrder(feed[i][n], e)
  BY <1>1 DEF OrderInv, e
<1>5. Feed!Announce(i, e)
  BY <1>1, <1>3, <1>4 DEF Feed!Announce, InOrder
<1> QED BY <1>2, <1>5

(* The pipeline implements the abstract feed: the only steps of it that    *)
(* clients see are announcements the abstract feed allows.                 *)
THEOREM PipelineImplementsFeed ==
    ASSUME ~CanExpire
    PROVE  Spec => ImplementsFeed
<1>1. Init => Feed!FeedInit
  BY DEF Init, Feed!FeedInit
<1>2. TypeOK /\ OrderInv /\ OnceInv /\ [Next]_vars => [Feed!FeedNext]_feed
  <2> SUFFICES ASSUME TypeOK, OrderInv, OnceInv, [Next]_vars, feed' # feed
               PROVE  Feed!FeedNext
    OBVIOUS
  <2>1. PICK i \in Instance : Publish(i)
    BY DEF Next, vars, pipelineVars, Deliver, RejectInvalid, Settle, Evaluate, Ignore,
           LoseChannel, LoseRedis, Crash, EvaluateOrphan, ExpireKey, Insert
  <2> QED BY <2>1, PublishAnnounces DEF Feed!FeedNext
<1> QED
  BY <1>1, <1>2, TypeCorrect, OrderCorrect, OnceCorrect, PTL
  DEF Spec, ImplementsFeed, Feed!FeedSpec

=============================================================================
