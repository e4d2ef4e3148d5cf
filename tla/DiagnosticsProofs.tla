------------------------- MODULE DiagnosticsProofs -------------------------
(***************************************************************************)
(* Proofs about diagnostic requests, for any number of workers, probes and *)
(* pool tasks.  Three facts carry the results: what is not settled is      *)
(* still open or in the pool (TaskInv), every event was made by the work   *)
(* of its request (EventInv), and what is left of a settled request's work *)
(* is the end of its thread or process (RestInv).  The second half is      *)
(* about the calculation itself: loops, order and parts of a range.        *)
(***************************************************************************)
EXTENDS Diagnostics, SequenceTheorems, FiniteSetTheorems, TLAPS

Event == {"message", "exit0", "error", "exit1", "hang", "part", "rest", "close0", "flood", "close1",
          "derived"}

(* Events of r that its own work made, or that came of stopping it. *)
EventsOf(r) == {made[r][n] : n \in 1 .. Len(made[r])} \union {"exit1", "close1"}

Shape ==
    /\ client \in [Requests -> {"none", "open", "answered", "failed", "gone"}]
    /\ work \in [Requests -> Seq(Event)]
    /\ inbox \in [Requests -> Seq(Event)]
    /\ made \in [Requests -> Seq(Event)]
    /\ \A r \in Requests : made[r] \in Outcomes(r) \union {<<>>}
    /\ \A r \in Requests : Len(work[r]) + Len(inbox[r]) <= 3
    /\ \A r \in Requests : client[r] = "none" => work[r] = <<>> /\ inbox[r] = <<>> /\ made[r] = <<>>
    /\ stdout \in [Probes -> {"", "part", "whole"}]
    /\ settled \subseteq Requests /\ timers \subseteq Workers \union Probes
    /\ activeWorkers \subseteq Workers
    /\ server \in {"serving", "closing", "closed"}

(* A timer or an active worker belongs to an open request, and a request   *)
(* that is settled is not open.                                            *)
TaskInv ==
    /\ \A r \in timers \union activeWorkers : client[r] = "open"
    /\ \A r \in settled : client[r] \notin {"none", "open"} /\ r \notin timers \union activeWorkers
    /\ server = "closed" => \A r \in Requests : client[r] # "open"

EventInv ==
    \A r \in Requests :
        /\ \A n \in 1 .. Len(work[r]) : work[r][n] \in EventsOf(r)
        /\ \A n \in 1 .. Len(inbox[r]) : inbox[r][n] \in EventsOf(r)
        /\ r \in Probes => (stdout[r] = "whole" => "rest" \in EventsOf(r))
        /\ client[r] = "answered" => made[r] \in Genuine

OneAtMost(s) == \/ s = <<>> \/ s = <<"exit1">> \/ s = <<"close1">>
                \/ s = <<"derived">> \/ s = <<"error">>

RestInv == \A r \in Requests : r \in settled \/ r \in Pools => OneAtMost(work[r])

DiagnosticsInv == Shape /\ TaskInv /\ EventInv /\ RestInv

-----------------------------------------------------------------------------
(* Facts about short sequences                                             *)

LEMMA ShortSequences ==
    /\ <<>> \in Seq(Event) /\ Len(<<>>) = 0
    /\ \A a \in Event : <<a>> \in Seq(Event) /\ Len(<<a>>) = 1
    /\ \A a, b \in Event : <<a, b>> \in Seq(Event) /\ Len(<<a, b>>) = 2
    /\ \A a, b, c \in Event : <<a, b, c>> \in Seq(Event) /\ Len(<<a, b, c>>) = 3
<1>1. <<>> \in Seq(Event) /\ Len(<<>>) = 0
  OBVIOUS
<1>2. \A a \in Event : <<a>> \in Seq(Event) /\ Len(<<a>>) = 1
  OBVIOUS
<1>3. \A a, b \in Event : <<a, b>> \in Seq(Event) /\ Len(<<a, b>>) = 2
  OBVIOUS
<1>4. \A a, b, c \in Event : <<a, b, c>> \in Seq(Event) /\ Len(<<a, b, c>>) = 3
  OBVIOUS
<1> QED BY <1>1, <1>2, <1>3, <1>4

LEMMA OneElement ==
    ASSUME NEW e \in Event, NEW s, s = <<e>>
    PROVE  s \in Seq(Event) /\ Len(s) = 1 /\ \A n \in 1 .. Len(s) : s[n] = e
  OBVIOUS

LEMMA TwoElements ==
    ASSUME NEW a \in Event, NEW b \in Event, NEW s, s = <<a, b>>
    PROVE  s \in Seq(Event) /\ Len(s) = 2
  OBVIOUS

LEMMA ThreeElements ==
    ASSUME NEW a \in Event, NEW b \in Event, NEW c \in Event, NEW s, s = <<a, b, c>>
    PROVE  s \in Seq(Event) /\ Len(s) = 3
  OBVIOUS

LEMMA NoElement ==
    ASSUME NEW s, s = <<>>
    PROVE  s \in Seq(Event) /\ Len(s) = 0 /\ \A n \in 1 .. Len(s) : FALSE
  OBVIOUS

LEMMA LengthIsNat == ASSUME NEW s \in Seq(Event) PROVE Len(s) \in Nat /\ Len(s) <= Len(s)
  OBVIOUS

LEMMA NothingYet ==
    ASSUME NEW s, NEW t, s = <<>>, t = <<>>
    PROVE  Len(s) + Len(t) <= 3 /\ Len(s) <= Len(t)
  OBVIOUS

LEMMA OnlyWork == ASSUME NEW s \in Seq(Event), NEW t, t = <<>>, Len(s) <= 3 PROVE Len(s) + Len(t) <= 3
  OBVIOUS

LEMMA NonEmpty == ASSUME NEW s \in Seq(Event), s # <<>> PROVE Len(s) >= 1
  OBVIOUS

LEMMA EmptyAtLength == ASSUME NEW s \in Seq(Event), Len(s) <= 0 PROVE s = <<>>
  OBVIOUS

LEMMA Shorter ==
    ASSUME NEW s \in Seq(Event), NEW t \in Seq(Event), NEW u \in Seq(Event), NEW v \in Seq(Event),
           Len(s) + Len(t) <= 3, Len(u) <= Len(s), Len(v) <= Len(t)
    PROVE  Len(u) + Len(v) <= 3
  OBVIOUS

LEMMA Parts ==
    ASSUME NEW s \in Seq(Event), NEW t \in Seq(Event), Len(s) + Len(t) <= 3
    PROVE  Len(s) <= 3 /\ Len(t) <= 4
  OBVIOUS

LEMMA NothingAtMost == ASSUME NEW s, s = <<>> PROVE Len(s) <= 1
  OBVIOUS

LEMMA LengthOfOne == ASSUME NEW a, NEW s, s = <<a>> PROVE Len(s) <= 1
  OBVIOUS

LEMMA AtMostOne == ASSUME NEW s, OneAtMost(s) PROVE Len(s) <= 1 /\ s # <<"hang">>
<1>1. s = <<>> \/ \E a : s = <<a>>
  BY DEF OneAtMost
<1>2. Len(s) <= 1
  BY <1>1, LengthOfOne, NothingAtMost
<1>3. s # <<"hang">>
  BY DEF OneAtMost
<1> QED BY <1>2, <1>3

-----------------------------------------------------------------------------
(* Outcomes, and the initial states                                        *)

LEMMA OutcomesAreShort ==
    ASSUME NEW r \in Requests, NEW o \in Outcomes(r)
    PROVE  /\ o \in Seq(Event) /\ Len(o) <= 3
           /\ r \in Pools => o = <<"derived">> \/ o = <<"error">>
<1>0. {"message", "exit0", "error", "exit1", "hang", "part", "rest", "close0", "flood", "close1",
       "derived"} = Event
  BY DEF Event
<1>1. CASE r \in Workers
  <2>1. \/ o = <<"message", "exit0">> \/ o = <<"exit0">> \/ o = <<"error", "exit1">>
        \/ o = <<"exit1">> \/ o = <<"hang">>
    BY <1>1 DEF Outcomes
  <2>2. r \notin Pools
    BY <1>1, KindAssumption
  <2>3. o \in Seq(Event) /\ Len(o) <= 3
    <3>1. CASE o = <<"message", "exit0">>
      BY <1>0, <3>1, TwoElements
    <3>2. CASE o = <<"exit0">>
      BY <1>0, <3>2, OneElement
    <3>3. CASE o = <<"error", "exit1">>
      BY <1>0, <3>3, TwoElements
    <3>4. CASE o = <<"exit1">>
      BY <1>0, <3>4, OneElement
    <3>5. CASE o = <<"hang">>
      BY <1>0, <3>5, OneElement
    <3> QED BY <2>1, <3>1, <3>2, <3>3, <3>4, <3>5
  <2> QED BY <2>2, <2>3
<1>2. CASE r \in Probes
  <2>1. \/ o = <<"part", "rest", "close0">> \/ o = <<"part", "close0">>
        \/ o = <<"part", "flood", "close0">> \/ o = <<"part", "rest", "close1">>
        \/ o = <<"error", "close1">> \/ o = <<"hang">>
    BY <1>2, KindAssumption DEF Outcomes
  <2>2. r \notin Pools
    BY <1>2, KindAssumption
  <2>3. o \in Seq(Event) /\ Len(o) <= 3
    <3>1. CASE o = <<"part", "rest", "close0">>
      BY <1>0, <3>1, ThreeElements
    <3>2. CASE o = <<"part", "close0">>
      BY <1>0, <3>2, TwoElements
    <3>3. CASE o = <<"part", "flood", "close0">>
      BY <1>0, <3>3, ThreeElements
    <3>4. CASE o = <<"part", "rest", "close1">>
      BY <1>0, <3>4, ThreeElements
    <3>5. CASE o = <<"error", "close1">>
      BY <1>0, <3>5, TwoElements
    <3>6. CASE o = <<"hang">>
      BY <1>0, <3>6, OneElement
    <3> QED BY <2>1, <3>1, <3>2, <3>3, <3>4, <3>5, <3>6
  <2> QED BY <2>2, <2>3
<1>3. CASE r \in Pools
  <2>1. o = <<"derived">> \/ o = <<"error">>
    BY <1>3, KindAssumption DEF Outcomes
  <2> QED BY <1>0, <2>1, ShortSequences
<1> QED BY <1>1, <1>2, <1>3 DEF Requests

LEMMA InvInit == Init => DiagnosticsInv
<1> SUFFICES ASSUME Init PROVE DiagnosticsInv
  OBVIOUS
<1>0. \A r \in Requests : work[r] = <<>> /\ inbox[r] = <<>> /\ made[r] = <<>>
  BY DEF Init
<1>1. Shape
  <2>1. work \in [Requests -> Seq(Event)] /\ inbox \in [Requests -> Seq(Event)]
        /\ made \in [Requests -> Seq(Event)]
    BY ShortSequences DEF Init
  <2>3. \A r \in Requests : Len(work[r]) + Len(inbox[r]) <= 3
    BY <1>0, NothingYet
  <2>4. \A r \in Requests : made[r] \in Outcomes(r) \union {<<>>}
    BY <1>0
  <2>5. /\ client \in [Requests -> {"none", "open", "answered", "failed", "gone"}]
        /\ stdout \in [Probes -> {"", "part", "whole"}]
        /\ settled = {} /\ timers = {} /\ activeWorkers = {} /\ server = "serving"
    BY DEF Init
  <2> QED BY <1>0, <2>1, <2>3, <2>4, <2>5 DEF Shape
<1>2. TaskInv
  BY DEF Init, TaskInv
<1>3. EventInv
  <2>1. \A n \in 1 .. Len(<<>>) : FALSE
    BY ShortSequences
  <2> QED BY <1>0, <2>1 DEF Init, EventInv
<1>4. RestInv
  BY <1>0 DEF RestInv, OneAtMost
<1> QED BY <1>1, <1>2, <1>3, <1>4 DEF DiagnosticsInv

(* What a request's own work made tells whether its answer is genuine.     *)
LEMMA EventsTell ==
    ASSUME Shape, NEW r \in Requests
    PROVE  /\ r \in Workers /\ "message" \in EventsOf(r) => made[r] \in Genuine
           /\ r \in Probes /\ "rest" \in EventsOf(r) /\ "close0" \in EventsOf(r) => made[r] \in Genuine
           /\ r \in Pools /\ "derived" \in EventsOf(r) => made[r] \in Genuine
<1>0. made[r] = <<>> \/ made[r] \in Outcomes(r)
  BY DEF Shape
<1>1. ASSUME r \in Workers, "message" \in EventsOf(r) PROVE made[r] = <<"message", "exit0">>
  <2>1. PICK n \in 1 .. Len(made[r]) : made[r][n] = "message"
    BY <1>1 DEF EventsOf
  <2>2. \/ made[r] = <<>> \/ made[r] = <<"message", "exit0">> \/ made[r] = <<"exit0">>
        \/ made[r] = <<"error", "exit1">> \/ made[r] = <<"exit1">> \/ made[r] = <<"hang">>
    BY <1>0, <1>1 DEF Outcomes
  <2> QED BY <2>1, <2>2
<1>2. ASSUME r \in Probes, "rest" \in EventsOf(r), "close0" \in EventsOf(r)
      PROVE  made[r] = <<"part", "rest", "close0">>
  <2>1. PICK m \in 1 .. Len(made[r]) : made[r][m] = "rest"
    BY <1>2 DEF EventsOf
  <2>2. PICK n \in 1 .. Len(made[r]) : made[r][n] = "close0"
    BY <1>2 DEF EventsOf
  <2>3. \/ made[r] = <<>> \/ made[r] = <<"part", "rest", "close0">> \/ made[r] = <<"part", "close0">>
        \/ made[r] = <<"part", "flood", "close0">> \/ made[r] = <<"part", "rest", "close1">>
        \/ made[r] = <<"error", "close1">> \/ made[r] = <<"hang">>
    BY <1>0, <1>2, KindAssumption DEF Outcomes
  <2>4. made[r] # <<>> /\ made[r] # <<"hang">> /\ made[r] # <<"error", "close1">>
    BY <2>1
  <2>5. made[r] # <<"part", "close0">> /\ made[r] # <<"part", "flood", "close0">>
    BY <2>1
  <2>6. made[r] # <<"part", "rest", "close1">>
    BY <2>2
  <2> QED BY <2>3, <2>4, <2>5, <2>6
<1>3. ASSUME r \in Pools, "derived" \in EventsOf(r) PROVE made[r] = <<"derived">>
  <2>1. PICK n \in 1 .. Len(made[r]) : made[r][n] = "derived"
    BY <1>3 DEF EventsOf
  <2>2. made[r] = <<>> \/ made[r] = <<"derived">> \/ made[r] = <<"error">>
    BY <1>0, <1>3, KindAssumption DEF Outcomes
  <2> QED BY <2>1, <2>2
<1> QED BY <1>1, <1>2, <1>3 DEF Genuine

-----------------------------------------------------------------------------
(* Settling                                                                *)

(* Settling requests that are not settled keeps the invariant, whatever    *)
(* the loop read before, if an answer is only given to genuine work.       *)
ReadsOwnEvents ==
    /\ inbox' \in [Requests -> Seq(Event)]
    /\ \A r \in Requests : Len(inbox'[r]) <= Len(inbox[r])
    /\ \A r \in Requests : \A n \in 1 .. Len(inbox'[r]) : inbox'[r][n] \in EventsOf(r)
    /\ stdout' \in [Probes -> {"", "part", "whole"}]
    /\ \A r \in Probes : stdout'[r] = "whole" => "rest" \in EventsOf(r)

MaySettle(rs, answer) ==
    /\ rs \subseteq Requests
    /\ \A r \in rs : client[r] # "none"
    /\ answer \in {"failed", "gone"} \/ (answer = "answered" /\ \A r \in rs : made[r] \in Genuine)
    /\ server' \in {server, "closing"} \/ (server' = "closed" /\ \A r \in Requests : client[r] # "open")

LEMMA SettleStep ==
    ASSUME DiagnosticsInv, NEW rs, NEW answer, Settle(rs, answer), MaySettle(rs, answer), UNCHANGED made,
           ReadsOwnEvents
    PROVE  DiagnosticsInv'
<1> USE DEF MaySettle, ReadsOwnEvents
<1>0. \A r \in Requests : EventsOf(r)' = EventsOf(r)
  BY DEF EventsOf
<1>1. /\ client' \in [Requests -> {"none", "open", "answered", "failed", "gone"}]
      /\ \A r \in Requests : client'[r] = IF r \in rs /\ client[r] = "open" THEN answer ELSE client[r]
  BY DEF Settle, DiagnosticsInv, Shape
<1>2. \A r \in Requests : work'[r] = IF r \in rs \ Pools THEN Ended(r) ELSE work[r]
  BY DEF Settle
<1>3. ASSUME NEW r \in Requests
      PROVE  /\ OneAtMost(Ended(r))
             /\ Ended(r) \in Seq(Event)
             /\ Len(Ended(r)) <= Len(work[r])
             /\ \A n \in 1 .. Len(Ended(r)) : Ended(r)[n] \in {"exit1", "close1"}
             /\ work[r] = <<>> => Ended(r) = <<>>
  <2>1. CASE work[r] = <<>>
    <3>1. Ended(r) = <<>>
      BY <2>1 DEF Ended
    <3>2. OneAtMost(Ended(r)) /\ Ended(r) \in Seq(Event)
      BY <3>1, ShortSequences DEF OneAtMost
    <3>3. \A n \in 1 .. Len(Ended(r)) : Ended(r)[n] \in {"exit1", "close1"}
      BY <3>1, NoElement
    <3>4. Len(Ended(r)) <= Len(work[r])
      BY <2>1, <3>1, NothingYet
    <3> QED BY <3>1, <3>2, <3>3, <3>4
  <2>2. CASE work[r] # <<>>
    <3>1. work[r] \in Seq(Event)
      BY DEF DiagnosticsInv, Shape
    <3>2. Len(work[r]) >= 1
      BY <2>2, <3>1, NonEmpty
    <3>3. Ended(r) = <<"exit1">> \/ Ended(r) = <<"close1">>
      BY <2>2 DEF Ended
    <3>4. PICK e \in {"exit1", "close1"} : Ended(r) = <<e>>
      BY <3>3
    <3>5. e \in Event
      BY DEF Event
    <3>6. /\ Ended(r) \in Seq(Event) /\ Len(Ended(r)) = 1
          /\ \A n \in 1 .. Len(Ended(r)) : Ended(r)[n] = e
      BY <3>4, <3>5, OneElement
    <3>7. Len(Ended(r)) <= Len(work[r])
      BY <3>1, <3>2, <3>6
    <3>8. OneAtMost(Ended(r))
      BY <3>3 DEF OneAtMost
    <3> QED BY <2>2, <3>4, <3>6, <3>7, <3>8
  <2> QED BY <2>1, <2>2
<1>4. /\ settled' = settled \union rs /\ timers' = timers \ rs /\ activeWorkers' = activeWorkers \ rs
  BY DEF Settle, Cleanup
<1>5. Shape'
  <2>1. work' \in [Requests -> Seq(Event)]
    <3>1. work' = [r \in Requests |-> IF r \in rs \ Pools THEN Ended(r) ELSE work[r]]
      BY DEF Settle
    <3>2. \A r \in Requests : work[r] \in Seq(Event)
      BY DEF DiagnosticsInv, Shape
    <3> QED BY <1>3, <3>1, <3>2
  <2>2. ASSUME NEW r \in Requests PROVE Len(work'[r]) + Len(inbox'[r]) <= 3
    <3>1. work[r] \in Seq(Event) /\ inbox[r] \in Seq(Event) /\ Len(work[r]) + Len(inbox[r]) <= 3
      BY DEF DiagnosticsInv, Shape
    <3>2. work'[r] \in Seq(Event) /\ inbox'[r] \in Seq(Event)
      BY <2>1
    <3>3. Len(work'[r]) <= Len(work[r])
      <4>1. Len(work[r]) <= Len(work[r])
        BY <3>1, LengthIsNat
      <4> QED BY <1>2, <1>3, <4>1
    <3> QED BY <3>1, <3>2, <3>3, Shorter
  <2>3. ASSUME NEW r \in Requests, client'[r] = "none" PROVE work'[r] = <<>> /\ inbox'[r] = <<>> /\ made'[r] = <<>>
    <3>1. client[r] = "none"
      BY <1>1, <2>3
    <3>2. work[r] = <<>> /\ inbox[r] = <<>> /\ made[r] = <<>> /\ r \notin rs
      BY <3>1 DEF DiagnosticsInv, Shape
    <3>3. inbox'[r] \in Seq(Event) /\ Len(inbox'[r]) <= 0
      BY <3>2, ShortSequences
    <3> QED BY <1>2, <3>2, <3>3, EmptyAtLength
  <2>4. \A r \in Requests : made'[r] \in Outcomes(r) \union {<<>>}
    BY DEF DiagnosticsInv, Shape
  <2>5. server' \in {"serving", "closing", "closed"}
    BY DEF DiagnosticsInv, Shape
  <2> QED BY <1>1, <1>4, <2>1, <2>2, <2>3, <2>4, <2>5 DEF DiagnosticsInv, Shape, Outcomes
<1>6. TaskInv'
  <2>1. \A r \in timers' \union activeWorkers' : r \in Requests /\ client'[r] = "open"
    BY <1>1, <1>4 DEF DiagnosticsInv, TaskInv, Shape, Requests
  <2>2. \A r \in settled' : client'[r] \notin {"none", "open"}
    BY <1>1, <1>4 DEF DiagnosticsInv, TaskInv, Shape
  <2>3. \A r \in settled' : r \notin timers' \union activeWorkers'
    BY <1>4 DEF DiagnosticsInv, TaskInv
  <2>4. server' = "closed" => \A r \in Requests : client'[r] # "open"
    BY <1>1 DEF DiagnosticsInv, TaskInv
  <2> QED BY <2>1, <2>2, <2>3, <2>4 DEF TaskInv
<1>7. EventInv'
  <2> SUFFICES ASSUME NEW r \in Requests
               PROVE  /\ \A n \in 1 .. Len(work'[r]) : work'[r][n] \in EventsOf(r)
                      /\ client'[r] = "answered" => made[r] \in Genuine
    BY <1>0 DEF EventInv
  <2>1. \A n \in 1 .. Len(work'[r]) : work'[r][n] \in EventsOf(r)
    <3>1. CASE r \in rs \ Pools
      BY <1>2, <1>3, <3>1 DEF EventsOf
    <3>2. CASE r \notin rs \ Pools
      BY <1>2, <3>2 DEF DiagnosticsInv, EventInv
    <3> QED BY <3>1, <3>2
  <2>2. client'[r] = "answered" => made[r] \in Genuine
    BY <1>1 DEF DiagnosticsInv, EventInv
  <2> QED BY <2>1, <2>2
<1>8. RestInv'
  <2> SUFFICES ASSUME NEW r \in Requests, r \in settled' \/ r \in Pools
               PROVE  OneAtMost(work'[r])
    BY DEF RestInv
  <2>1. CASE r \in rs \ Pools
    BY <1>2, <1>3, <2>1
  <2>2. CASE r \notin rs \ Pools
    BY <1>2, <1>4, <2>2 DEF DiagnosticsInv, RestInv
  <2> QED BY <2>1, <2>2
<1> QED BY <1>5, <1>6, <1>7, <1>8 DEF DiagnosticsInv

-----------------------------------------------------------------------------
(* The steps                                                               *)

LEMMA RequestStep == ASSUME DiagnosticsInv, NEW q \in Requests, Request(q) PROVE DiagnosticsInv'
<1>1. PICK o \in Outcomes(q) : work' = [work EXCEPT ![q] = o] /\ made' = [made EXCEPT ![q] = o]
  BY DEF Request
<1>2. /\ client[q] = "none" /\ server = "serving" /\ client' = [client EXCEPT ![q] = "open"]
      /\ timers' = timers \union ({q} \ Pools)
      /\ activeWorkers' = activeWorkers \union ({q} \intersect Workers)
      /\ inbox' = inbox /\ stdout' = stdout /\ settled' = settled /\ server' = server
  BY DEF Request
<1>3. /\ o \in Seq(Event) /\ Len(o) <= 3
      /\ q \in Pools => o = <<"derived">> \/ o = <<"error">>
  BY <1>1, OutcomesAreShort
<1>4. /\ client'[q] = "open" /\ work'[q] = o /\ made'[q] = o /\ inbox'[q] = <<>>
      /\ \A r \in Requests : r # q => client'[r] = client[r] /\ work'[r] = work[r] /\ made'[r] = made[r]
  BY <1>1, <1>2 DEF DiagnosticsInv, Shape
<1>5. Shape'
  <2>1. /\ client' \in [Requests -> {"none", "open", "answered", "failed", "gone"}]
        /\ work' \in [Requests -> Seq(Event)] /\ made' \in [Requests -> Seq(Event)]
        /\ inbox' \in [Requests -> Seq(Event)]
    BY <1>1, <1>2, <1>3 DEF DiagnosticsInv, Shape
  <2>2. \A r \in Requests : made'[r] \in Outcomes(r) \union {<<>>}
    BY <1>4 DEF DiagnosticsInv, Shape
  <2>3. ASSUME NEW r \in Requests PROVE Len(work'[r]) + Len(inbox'[r]) <= 3
    <3>1. CASE r = q
      BY <1>3, <1>4, <3>1, OnlyWork
    <3>2. CASE r # q
      BY <1>2, <1>4, <3>2 DEF DiagnosticsInv, Shape
    <3> QED BY <3>1, <3>2
  <2>4. \A r \in Requests : client'[r] = "none" => work'[r] = <<>> /\ inbox'[r] = <<>> /\ made'[r] = <<>>
    BY <1>2, <1>4 DEF DiagnosticsInv, Shape
  <2>5. /\ timers' \subseteq Workers \union Probes /\ activeWorkers' \subseteq Workers
        /\ settled' \subseteq Requests /\ server' = "serving"
        /\ stdout' \in [Probes -> {"", "part", "whole"}]
    BY <1>2 DEF DiagnosticsInv, Shape, Requests
  <2> QED BY <2>1, <2>2, <2>3, <2>4, <2>5 DEF Shape, Outcomes
<1>6. TaskInv'
  <2>1. \A r \in timers' \union activeWorkers' : client'[r] = "open"
    BY <1>2, <1>4 DEF DiagnosticsInv, TaskInv, Shape, Requests
  <2>2. q \notin settled
    BY <1>2 DEF DiagnosticsInv, TaskInv
  <2>3. \A r \in settled' : client'[r] \notin {"none", "open"} /\ r \notin timers' \union activeWorkers'
    BY <1>2, <1>4, <2>2 DEF DiagnosticsInv, TaskInv, Shape
  <2> QED BY <1>2, <2>1, <2>3 DEF TaskInv
<1>7. EventInv'
  <2> SUFFICES ASSUME NEW r \in Requests
               PROVE  /\ \A n \in 1 .. Len(work'[r]) : work'[r][n] \in EventsOf(r)'
                      /\ \A n \in 1 .. Len(inbox'[r]) : inbox'[r][n] \in EventsOf(r)'
                      /\ r \in Probes => (stdout'[r] = "whole" => "rest" \in EventsOf(r)')
                      /\ client'[r] = "answered" => made'[r] \in Genuine
    BY DEF EventInv
  <2>1. CASE r = q
    <3>1. \A n \in 1 .. Len(work'[r]) : work'[r][n] \in EventsOf(r)'
      BY <1>4, <2>1 DEF EventsOf
    <3>2. \A n \in 1 .. Len(inbox'[r]) : FALSE
      BY <1>4, <2>1, NoElement
    <3>3. r \in Probes => stdout'[r] # "whole"
      <4>1. made[r] = <<>>
        BY <1>2, <2>1 DEF DiagnosticsInv, Shape
      <4>2. "rest" \notin EventsOf(r)
        BY <4>1, NoElement DEF EventsOf
      <4> QED BY <1>2, <4>2 DEF DiagnosticsInv, EventInv
    <3> QED BY <1>4, <2>1, <3>1, <3>2, <3>3
  <2>2. CASE r # q
    <3>1. EventsOf(r)' = EventsOf(r)
      BY <1>4, <2>2 DEF EventsOf
    <3> QED BY <1>2, <1>4, <2>2, <3>1 DEF DiagnosticsInv, EventInv
  <2> QED BY <2>1, <2>2
<1>8. RestInv'
  <2>1. q \in Pools => OneAtMost(work'[q])
    BY <1>3, <1>4 DEF OneAtMost
  <2>2. q \notin settled
    BY <1>2 DEF DiagnosticsInv, TaskInv
  <2> QED BY <1>2, <1>4, <2>1, <2>2 DEF DiagnosticsInv, RestInv
<1> QED BY <1>5, <1>6, <1>7, <1>8 DEF DiagnosticsInv

(* The next event goes from the thread or process to the loop. *)
LEMMA Moved ==
    ASSUME NEW s \in Seq(Event), NEW t \in Seq(Event), s # <<>>
    PROVE  /\ Tail(s) \in Seq(Event) /\ Append(t, Head(s)) \in Seq(Event)
           /\ Len(Tail(s)) + Len(Append(t, Head(s))) = Len(s) + Len(t)
           /\ \A n \in 1 .. Len(Tail(s)) : n + 1 \in 1 .. Len(s) /\ Tail(s)[n] = s[n + 1]
           /\ \A n \in 1 .. Len(Append(t, Head(s))) :
                \/ n \in 1 .. Len(t) /\ Append(t, Head(s))[n] = t[n]
                \/ 1 \in 1 .. Len(s) /\ Append(t, Head(s))[n] = s[1]
  OBVIOUS

LEMMA NoMore == ASSUME NEW a, NEW s, s = <<a>> PROVE Tail(s) = <<>>
  OBVIOUS

LEMMA OneLess == ASSUME NEW s, OneAtMost(s), s # <<>> PROVE Tail(s) = <<>>
<1>1. \E a : s = <<a>>
  BY DEF OneAtMost
<1> QED BY <1>1, NoMore

LEMMA WorkStep == ASSUME DiagnosticsInv, NEW q \in Requests, Work(q) PROVE DiagnosticsInv'
<1>1. /\ work[q] # <<>> /\ work' = [work EXCEPT ![q] = Tail(work[q])]
      /\ inbox' = [inbox EXCEPT ![q] = Append(inbox[q], Head(work[q]))]
      /\ UNCHANGED <<client, made, stdout, settled, timers, activeWorkers, server>>
  BY DEF Work
<1>2. work[q] \in Seq(Event) /\ inbox[q] \in Seq(Event) /\ client[q] # "none"
  BY <1>1 DEF DiagnosticsInv, Shape
<1>3. /\ work'[q] = Tail(work[q]) /\ inbox'[q] = Append(inbox[q], Head(work[q]))
      /\ \A r \in Requests : r # q => work'[r] = work[r] /\ inbox'[r] = inbox[r]
  BY <1>1 DEF DiagnosticsInv, Shape
<1>0. LET u == Tail(work[q])
          v == Append(inbox[q], Head(work[q]))
      IN /\ u \in Seq(Event) /\ v \in Seq(Event)
         /\ Len(u) + Len(v) = Len(work[q]) + Len(inbox[q])
         /\ \A n \in 1 .. Len(u) : n + 1 \in 1 .. Len(work[q]) /\ u[n] = work[q][n + 1]
         /\ \A n \in 1 .. Len(v) :
              \/ n \in 1 .. Len(inbox[q]) /\ v[n] = inbox[q][n]
              \/ 1 \in 1 .. Len(work[q]) /\ v[n] = work[q][1]
  BY <1>1, <1>2, Moved
<1>4. Shape'
  <2>1. work' \in [Requests -> Seq(Event)] /\ inbox' \in [Requests -> Seq(Event)]
    BY <1>1, <1>0 DEF DiagnosticsInv, Shape
  <2>2. ASSUME NEW r \in Requests PROVE Len(work'[r]) + Len(inbox'[r]) <= 3
    <3>1. Len(work[r]) + Len(inbox[r]) <= 3
      BY DEF DiagnosticsInv, Shape
    <3>2. CASE r = q
      BY <1>3, <1>0, <3>1, <3>2
    <3>3. CASE r # q
      BY <1>3, <3>1, <3>3
    <3> QED BY <3>2, <3>3
  <2>3. \A r \in Requests : client'[r] = "none" => work'[r] = <<>> /\ inbox'[r] = <<>> /\ made'[r] = <<>>
    BY <1>1, <1>2, <1>3 DEF DiagnosticsInv, Shape
  <2> QED BY <1>1, <2>1, <2>2, <2>3 DEF DiagnosticsInv, Shape, Outcomes
<1>5. TaskInv'
  BY <1>1 DEF DiagnosticsInv, TaskInv
<1>6. EventInv'
  <2>1. \A r \in Requests : EventsOf(r)' = EventsOf(r)
    BY <1>1 DEF EventsOf
  <2> SUFFICES ASSUME NEW r \in Requests
               PROVE  /\ \A n \in 1 .. Len(work'[r]) : work'[r][n] \in EventsOf(r)
                      /\ \A n \in 1 .. Len(inbox'[r]) : inbox'[r][n] \in EventsOf(r)
    BY <1>1, <2>1 DEF DiagnosticsInv, EventInv
  <2>2. /\ \A n \in 1 .. Len(work[r]) : work[r][n] \in EventsOf(r)
        /\ \A n \in 1 .. Len(inbox[r]) : inbox[r][n] \in EventsOf(r)
    BY DEF DiagnosticsInv, EventInv
  <2>3. CASE r = q
    <3>1. \A n \in 1 .. Len(work'[r]) : n + 1 \in 1 .. Len(work[r]) /\ work'[r][n] = work[r][n + 1]
      BY <1>3, <1>0, <2>3
    <3>2. \A n \in 1 .. Len(inbox'[r]) :
             \/ n \in 1 .. Len(inbox[r]) /\ inbox'[r][n] = inbox[r][n]
             \/ 1 \in 1 .. Len(work[r]) /\ inbox'[r][n] = work[r][1]
      BY <1>3, <1>0, <2>3
    <3> QED BY <2>2, <3>1, <3>2
  <2>4. CASE r # q
    BY <1>3, <2>2, <2>4
  <2> QED BY <2>3, <2>4
<1>7. RestInv'
  <2>1. q \in settled \/ q \in Pools => OneAtMost(work'[q])
    <3>1. q \in settled \/ q \in Pools => work'[q] = <<>>
      BY <1>1, <1>3, OneLess DEF DiagnosticsInv, RestInv
    <3> QED BY <3>1 DEF OneAtMost
  <2> QED BY <1>1, <1>3, <2>1 DEF DiagnosticsInv, RestInv
<1> QED BY <1>4, <1>5, <1>6, <1>7 DEF DiagnosticsInv

(* Nothing is settled by a step that leaves the requests alone. *)
LEMMA SettlesNothing ==
    ASSUME DiagnosticsInv, UNCHANGED <<client, work, settled, timers, activeWorkers>>
    PROVE  Settle({}, "failed")
<1>1. client = [r \in Requests |-> client[r]] /\ work = [r \in Requests |-> work[r]]
  BY DEF DiagnosticsInv, Shape
<1>2. client' = [r \in Requests |-> IF r \in {} /\ client[r] = "open" THEN "failed" ELSE client[r]]
  BY <1>1
<1>3. work' = [r \in Requests |-> IF r \in {} \ Pools THEN Ended(r) ELSE work[r]]
  BY <1>1
<1> QED BY <1>2, <1>3 DEF Settle, Cleanup

LEMMA ReadsNothing == ASSUME DiagnosticsInv, UNCHANGED <<inbox, stdout>> PROVE ReadsOwnEvents
<1>1. \A r \in Requests : Len(inbox[r]) <= Len(inbox[r])
  BY LengthIsNat DEF DiagnosticsInv, Shape
<1> QED BY <1>1 DEF DiagnosticsInv, Shape, EventInv, Requests, ReadsOwnEvents

LEMMA DisconnectStep == ASSUME DiagnosticsInv, NEW q \in Requests, Disconnect(q) PROVE DiagnosticsInv'
<1>1. client[q] = "open" /\ UNCHANGED <<inbox, made, stdout, server>>
  BY DEF Disconnect
<1>2. CASE q \in Pools
  <2>1. client' = [client EXCEPT ![q] = "gone"] /\ UNCHANGED <<work, settled, timers, activeWorkers>>
    BY <1>2 DEF Disconnect
  <2>2. q \notin timers \union activeWorkers
    BY <1>2, KindAssumption DEF DiagnosticsInv, Shape
  <2>3. client'[q] = "gone" /\ \A r \in Requests : r # q => client'[r] = client[r]
    BY <2>1 DEF DiagnosticsInv, Shape
  <2>4. Shape'
    BY <1>1, <2>1, <2>3 DEF DiagnosticsInv, Shape, Outcomes
  <2>5. TaskInv'
    BY <1>1, <2>1, <2>2, <2>3 DEF DiagnosticsInv, TaskInv, Shape, Requests
  <2>6. EventInv'
    BY <1>1, <2>1, <2>3 DEF DiagnosticsInv, EventInv, EventsOf
  <2>7. RestInv'
    BY <2>1 DEF DiagnosticsInv, RestInv
  <2> QED BY <2>4, <2>5, <2>6, <2>7 DEF DiagnosticsInv
<1>3. CASE q \notin Pools
  <2>1. Settle({q}, "gone")
    BY <1>3 DEF Disconnect
  <2>2. MaySettle({q}, "gone")
    BY <1>1 DEF MaySettle
  <2> QED BY <1>1, <2>1, <2>2, SettleStep, ReadsNothing
<1> QED BY <1>2, <1>3

LEMMA TimeoutStep == ASSUME DiagnosticsInv, NEW q \in Requests, Timeout(q) PROVE DiagnosticsInv'
<1>1. client[q] = "open"
  BY DEF Timeout, DiagnosticsInv, TaskInv
<1>2. Settle({q}, "failed") /\ UNCHANGED <<inbox, made, stdout, server>>
  BY DEF Timeout
<1>3. MaySettle({q}, "failed")
  BY <1>1, <1>2 DEF MaySettle
<1> QED BY <1>2, <1>3, SettleStep, ReadsNothing

LEMMA CloseStep == ASSUME DiagnosticsInv, CloseServer \/ CloseCalculator PROVE DiagnosticsInv'
<1>1. CASE CloseServer
  <2>1. Settle({}, "failed")
    BY <1>1, SettlesNothing DEF CloseServer
  <2>2. MaySettle({}, "failed") /\ UNCHANGED <<inbox, made, stdout>>
    BY <1>1 DEF CloseServer, MaySettle
  <2> QED BY <2>1, <2>2, SettleStep, ReadsNothing
<1>2. CASE CloseCalculator
  <2>1. activeWorkers \subseteq Requests /\ \A r \in activeWorkers : client[r] # "none"
    BY DEF DiagnosticsInv, Shape, TaskInv, Requests
  <2>2. Settle(activeWorkers, "failed") /\ UNCHANGED <<inbox, made, stdout>>
    BY <1>2 DEF CloseCalculator
  <2>3. MaySettle(activeWorkers, "failed")
    BY <1>2, <2>1 DEF CloseCalculator, MaySettle
  <2> QED BY <2>2, <2>3, SettleStep, ReadsNothing
<1> QED BY <1>1, <1>2

LEMMA TailOfEvents ==
    ASSUME NEW s \in Seq(Event), s # <<>>
    PROVE  /\ Tail(s) \in Seq(Event) /\ Len(Tail(s)) <= Len(s) /\ Head(s) = s[1] /\ 1 \in 1 .. Len(s)
           /\ \A n \in 1 .. Len(Tail(s)) : n + 1 \in 1 .. Len(s) /\ Tail(s)[n] = s[n + 1]
  OBVIOUS

LEMMA HandleStep == ASSUME DiagnosticsInv, NEW q \in Requests, Handle(q) PROVE DiagnosticsInv'
<1> DEFINE e == Head(inbox[q])
<1>1. /\ inbox[q] # <<>> /\ inbox' = [inbox EXCEPT ![q] = Tail(inbox[q])]
      /\ UNCHANGED <<made, server>>
      /\ stdout' = IF e \in {"part", "rest"} THEN [stdout EXCEPT ![q] = Read(e)] ELSE stdout
  BY DEF Handle
<1>2. inbox[q] \in Seq(Event) /\ client[q] # "none"
  BY <1>1 DEF DiagnosticsInv, Shape
<1>3. /\ Tail(inbox[q]) \in Seq(Event) /\ Len(Tail(inbox[q])) <= Len(inbox[q])
      /\ e = inbox[q][1] /\ 1 \in 1 .. Len(inbox[q])
      /\ \A n \in 1 .. Len(Tail(inbox[q])) :
           n + 1 \in 1 .. Len(inbox[q]) /\ Tail(inbox[q])[n] = inbox[q][n + 1]
  BY <1>1, <1>2, TailOfEvents
<1>4. e \in EventsOf(q)
  BY <1>3 DEF DiagnosticsInv, EventInv
<1>5. inbox' \in [Requests -> Seq(Event)]
  BY <1>1, <1>3 DEF DiagnosticsInv, Shape
<1>6. inbox'[q] = Tail(inbox[q]) /\ \A r \in Requests : r # q => inbox'[r] = inbox[r]
  BY <1>1 DEF DiagnosticsInv, Shape
<1>7. ASSUME NEW r \in Requests
      PROVE  /\ Len(inbox'[r]) <= Len(inbox[r])
             /\ \A n \in 1 .. Len(inbox'[r]) : inbox'[r][n] \in EventsOf(r)
  <2>1. \A n \in 1 .. Len(inbox[r]) : inbox[r][n] \in EventsOf(r)
    BY DEF DiagnosticsInv, EventInv
  <2>2. CASE r = q
    BY <1>3, <1>6, <2>1, <2>2
  <2>3. CASE r # q
    <3>1. Len(inbox[r]) <= Len(inbox[r])
      BY LengthIsNat DEF DiagnosticsInv, Shape
    <3> QED BY <1>6, <2>1, <2>3, <3>1
  <2> QED BY <2>2, <2>3
<1>8. stdout' \in [Probes -> {"", "part", "whole"}]
  BY <1>1 DEF DiagnosticsInv, Shape, Read
<1>9. \A r \in Probes : stdout'[r] = "whole" => "rest" \in EventsOf(r)
  <2> SUFFICES ASSUME NEW r \in Probes, stdout'[r] = "whole" PROVE "rest" \in EventsOf(r)
    OBVIOUS
  <2>1. CASE stdout[r] = "whole"
    BY <2>1 DEF DiagnosticsInv, EventInv, Requests
  <2>2. CASE stdout[r] # "whole"
    <3>1. r = q /\ e = "rest"
      BY <1>1, <2>2 DEF DiagnosticsInv, Shape, Read
    <3> QED BY <1>4, <3>1
  <2> QED BY <2>1, <2>2
<1>10. Answers(q, e) => made[q] \in Genuine
  <2>1. CASE q \in Workers /\ e = "message"
    BY <1>4, <2>1, EventsTell DEF DiagnosticsInv
  <2>2. CASE q \in Pools /\ e = "derived"
    BY <1>4, <2>2, EventsTell DEF DiagnosticsInv
  <2>3. CASE q \in Probes /\ ProbeAnswers(q, e)
    <3>1. "close0" \in EventsOf(q) /\ "rest" \in EventsOf(q)
      BY <1>4, <2>3 DEF ProbeAnswers, DiagnosticsInv, EventInv
    <3> QED BY <2>3, <3>1, EventsTell DEF DiagnosticsInv
  <2> QED BY <2>1, <2>2, <2>3 DEF Answers
<1>11. \/ Answers(q, e) /\ Settle({q}, "answered")
       \/ Settle({q}, "failed")
       \/ UNCHANGED <<client, work, settled, timers, activeWorkers>>
  BY DEF Handle
<1> HIDE DEF e
<1>12. ReadsOwnEvents
  BY <1>5, <1>7, <1>8, <1>9 DEF ReadsOwnEvents
<1>13. CASE Answers(q, e) /\ Settle({q}, "answered")
  <2>1. MaySettle({q}, "answered")
    BY <1>1, <1>2, <1>10, <1>13 DEF MaySettle
  <2> QED BY <1>1, <1>12, <1>13, <2>1, SettleStep
<1>14. CASE Settle({q}, "failed")
  <2>1. MaySettle({q}, "failed")
    BY <1>1, <1>2 DEF MaySettle
  <2> QED BY <1>1, <1>12, <1>14, <2>1, SettleStep
<1>15. CASE UNCHANGED <<client, work, settled, timers, activeWorkers>>
  <2>1. Settle({}, "failed") /\ MaySettle({}, "failed")
    BY <1>1, <1>15, SettlesNothing DEF MaySettle
  <2> QED BY <1>1, <1>12, <2>1, SettleStep
<1> QED BY <1>11, <1>13, <1>14, <1>15

LEMMA InvStep == DiagnosticsInv /\ [Next]_vars => DiagnosticsInv'
<1> SUFFICES ASSUME DiagnosticsInv, [Next]_vars PROVE DiagnosticsInv'
  OBVIOUS
<1>1. CASE UNCHANGED vars
  <2>1. Settle({}, "failed") /\ MaySettle({}, "failed") /\ ReadsOwnEvents
    BY <1>1, SettlesNothing, ReadsNothing DEF vars, MaySettle
  <2> QED BY <1>1, <2>1, SettleStep DEF vars
<1> QED
  BY <1>1, RequestStep, DisconnectStep, TimeoutStep, WorkStep, HandleStep, CloseStep DEF Next

-----------------------------------------------------------------------------
(* Theorems                                                                *)

LEMMA Inductive == Spec => []DiagnosticsInv
  BY InvInit, InvStep, PTL DEF Spec

(* The variables have their types; what a thread or process made and the   *)
(* loop has not handled is bounded.                                        *)
THEOREM DiagnosticsTypeCorrect == Spec => []TypeOK
<1>1. DiagnosticsInv => TypeOK
  <2> SUFFICES ASSUME DiagnosticsInv PROVE TypeOK
    OBVIOUS
  <2>1. ASSUME NEW r \in Requests PROVE Len(work[r]) <= 3 /\ Len(inbox[r]) <= 4
    BY Shorter, Parts DEF DiagnosticsInv, Shape
  <2> QED BY <2>1 DEF DiagnosticsInv, Shape, TypeOK
<1> QED BY <1>1, Inductive, PTL

(* Whichever of result, error, exit, timer, disconnect and close settles a *)
(* request, it leaves no timer, no active worker and nothing that runs on. *)
THEOREM SettlingCleansUp == Spec => []SettledLeavesNothing
<1>1. DiagnosticsInv => SettledLeavesNothing
  <2> SUFFICES ASSUME DiagnosticsInv, NEW r \in settled
               PROVE  /\ r \notin timers \union activeWorkers
                      /\ Len(work[r]) <= 1 /\ work[r] # <<"hang">>
    BY DEF SettledLeavesNothing
  <2>1. OneAtMost(work[r])
    BY DEF DiagnosticsInv, RestInv, Shape
  <2> QED BY <2>1, AtMostOne DEF DiagnosticsInv, TaskInv
<1> QED BY <1>1, Inductive, PTL

(* A client is answered only from work that ended as it should have. *)
THEOREM OnlyGenuineAnswers == Spec => []AnswersAreGenuine
<1>1. DiagnosticsInv => AnswersAreGenuine
  BY DEF DiagnosticsInv, EventInv, AnswersAreGenuine
<1> QED BY <1>1, Inductive, PTL

(* When the server has closed, no timer and no worker keeps the process. *)
THEOREM ClosingCleansUp == Spec => []CloseLeavesNothing
<1>1. DiagnosticsInv => CloseLeavesNothing
  BY DEF DiagnosticsInv, TaskInv, Shape, Requests, CloseLeavesNothing
<1> QED BY <1>1, Inductive, PTL

-----------------------------------------------------------------------------
(* Loops *)

(* A set of numbers has a least one. *)
LEMMA LeastNumber ==
    ASSUME NEW T, T \subseteq Nat, T # {}
    PROVE  \E x \in T : \A y \in T : x <= y
<1> DEFINE R == OpToRel(<, Nat)
<1>1. IsWellFoundedOn(R, Nat)
  BY NatLessThanWellFounded
<1>2. \A x, y \in Nat : <<y, x>> \in R <=> y < x
  BY DEF OpToRel
<1> HIDE DEF R
<1>3. PICK x \in T : \A y \in T : ~ (<<y, x>> \in R)
  BY <1>1, WFMin
<1>4. ASSUME NEW y \in T PROVE x <= y
  <2>1. x \in Nat /\ y \in Nat /\ ~(y < x)
    BY <1>2, <1>3
  <2> QED BY <2>1
<1> QED BY <1>3, <1>4

(* Induction, for a set of numbers. *)
LEMMA EveryNumber ==
    ASSUME NEW T, 0 \in T, \A n \in Nat : n \in T => n + 1 \in T
    PROVE  Nat \subseteq T
<1> SUFFICES ASSUME ~(Nat \subseteq T) PROVE FALSE
  OBVIOUS
<1>1. PICK x \in Nat \ T : \A y \in Nat \ T : x <= y
  <2>1. Nat \ T # {} /\ Nat \ T \subseteq Nat
    OBVIOUS
  <2> QED BY <2>1, LeastNumber
<1>2. x # 0
  BY <1>1
<1>3. x - 1 \in Nat /\ ~(x <= x - 1) /\ (x - 1) + 1 = x
  BY <1>2
<1>4. x - 1 \in T
  BY <1>1, <1>3
<1> QED BY <1>1, <1>3, <1>4

(* f holds the values of a loop: each follows from the one before it. *)
Steps(f, N, start, step) == f[0] = start /\ \A n \in 1 .. N : f[n] = step[n][f[n - 1]]

Alike(f, g, N) == f[0] = g[0] /\ \A n \in 1 .. N : f[n - 1] = g[n - 1] => f[n] = g[n]

(* A loop has a result: each value follows from the one before it. *)
LEMMA LoopRuns ==
    ASSUME NEW N \in Nat, NEW V, NEW start \in V, NEW step \in [1 .. N -> [V -> V]]
    PROVE  \E f \in [0 .. N -> V] : Steps(f, N, start, step)
<1> DEFINE Runs(f, m) == /\ f \in [0 .. m -> V] /\ f[0] = start
                         /\ \A n \in 1 .. m : f[n] = step[n][f[n - 1]]
           T == {m \in Nat : m <= N => \E f : Runs(f, m)}
<1>1. 0 \in T
  <2>1. Runs([n \in 0 .. 0 |-> start], 0)
    OBVIOUS
  <2> QED BY <2>1
<1>2. ASSUME NEW m \in Nat, m \in T PROVE m + 1 \in T
  <2> SUFFICES ASSUME m + 1 <= N PROVE \E f : Runs(f, m + 1)
    OBVIOUS
  <2>1. PICK f : Runs(f, m)
    BY <1>2
  <2> DEFINE g == [n \in 0 .. m + 1 |-> IF n = m + 1 THEN step[m + 1][f[m]] ELSE f[n]]
  <2>2. f[m] \in V /\ step[m + 1][f[m]] \in V
    BY <2>1
  <2>3. g \in [0 .. m + 1 -> V] /\ g[0] = start
    BY <2>1, <2>2
  <2>4. ASSUME NEW n \in 1 .. m + 1 PROVE g[n] = step[n][g[n - 1]]
    <3>1. n - 1 # m + 1 /\ n - 1 \in 0 .. m + 1 /\ g[n - 1] = f[n - 1]
      OBVIOUS
    <3>2. CASE n = m + 1
      BY <3>1, <3>2
    <3>3. CASE n # m + 1
      <4>1. n \in 1 .. m /\ g[n] = f[n]
        BY <3>3
      <4> QED BY <2>1, <3>1, <4>1
    <3> QED BY <3>2, <3>3
  <2> HIDE DEF g
  <2> QED BY <2>3, <2>4
<1> HIDE DEF T
<1>3. N \in T
  BY <1>1, <1>2, EveryNumber
<1> QED BY <1>3 DEF T, Steps

(* And one only. *)
LEMMA LoopRunsOnce ==
    ASSUME NEW N \in Nat, NEW f, NEW g, Alike(f, g, N)
    PROVE  \A n \in 0 .. N : f[n] = g[n]
<1> DEFINE T == {n \in Nat : n <= N => f[n] = g[n]}
<1>1. 0 \in T
  BY DEF Alike
<1>2. ASSUME NEW n \in Nat, n \in T PROVE n + 1 \in T
  <2> SUFFICES ASSUME n + 1 <= N PROVE f[n + 1] = g[n + 1]
    OBVIOUS
  <2>1. f[n] = g[n] /\ n + 1 \in 1 .. N /\ (n + 1) - 1 = n
    BY <1>2
  <2> QED BY <2>1 DEF Alike
<1> HIDE DEF T
<1>3. Nat \subseteq T
  BY <1>1, <1>2, EveryNumber
<1> QED BY <1>3 DEF T

(* The sum of a sequence adds its elements from the first on. *)
LEMMA SumAdds ==
    ASSUME NEW s \in Seq(Int)
    PROVE  \E f \in [0 .. Len(s) -> Int] :
              /\ f[0] = 0 /\ \A n \in 1 .. Len(s) : f[n] = f[n - 1] + s[n]
              /\ SumOf(s) = f[Len(s)]
<1>1. PICK N \in Nat : N = Len(s)
  OBVIOUS
<1>2. PICK step \in [1 .. N -> [Int -> Int]] : \A n \in 1 .. N, x \in Int : step[n][x] = x + s[n]
  <2> DEFINE add == [n \in 1 .. N |-> [x \in Int |-> x + s[n]]]
  <2>1. \A n \in 1 .. N : s[n] \in Int
    BY <1>1
  <2>2. add \in [1 .. N -> [Int -> Int]]
    BY <2>1
  <2>3. \A n \in 1 .. N, x \in Int : add[n][x] = x + s[n]
    OBVIOUS
  <2> HIDE DEF add
  <2> QED BY <2>2, <2>3
<1>3. PICK g \in [0 .. N -> Int] : Steps(g, N, 0, step)
  <2>1. N \in Nat /\ 0 \in Int /\ step \in [1 .. N -> [Int -> Int]]
    BY <1>1, <1>2
  <2> QED BY <2>1, LoopRuns, Zenon
<1>4. \A n \in 1 .. N : g[n - 1] \in Int /\ g[n] = g[n - 1] + s[n]
  <2>1. \A n \in 1 .. N : n - 1 \in 0 .. N
    OBVIOUS
  <2>2. \A n \in 1 .. N : g[n - 1] \in Int
    BY <1>3, <2>1
  <2> QED BY <1>2, <1>3, <2>2 DEF Steps
<1>5. PICK f : f = CHOOSE x : x = [n \in 0 .. N |-> IF n = 0 THEN 0 ELSE x[n - 1] + s[n]]
  OBVIOUS
<1>6. g = [n \in 0 .. N |-> IF n = 0 THEN 0 ELSE g[n - 1] + s[n]]
  BY <1>3, <1>4 DEF Steps
<1>7. f = [n \in 0 .. N |-> IF n = 0 THEN 0 ELSE f[n - 1] + s[n]]
  BY <1>5, <1>6
<1>8. SumOf(s) = f[N]
  BY <1>1, <1>5 DEF SumOf
<1>9. \A n \in 0 .. N : f[n] = g[n]
  <2>1. f[0] = g[0]
    BY <1>3, <1>7 DEF Steps
  <2>2. ASSUME NEW n \in 1 .. N PROVE f[n] = f[n - 1] + s[n]
    <3>1. n \in 0 .. N /\ n # 0
      OBVIOUS
    <3> QED BY <1>7, <3>1
  <2>3. \A n \in 1 .. N : f[n - 1] = g[n - 1] => f[n] = g[n]
    BY <1>4, <2>2
  <2>4. N \in Nat /\ Alike(f, g, N)
    BY <1>1, <2>1, <2>3 DEF Alike
  <2> QED BY <2>4, LoopRunsOnce
<1>10. g[N] = f[N] /\ \A n \in 1 .. N : g[n] = g[n - 1] + s[n]
  BY <1>4, <1>9
<1>11. SumOf(s) = g[N]
  BY <1>8, <1>10
<1> QED BY <1>1, <1>3, <1>10, <1>11 DEF Steps
-----------------------------------------------------------------------------
(* Division *)

LEMMA ProductGrows ==
    ASSUME NEW M \in Nat \ {0}, NEW p \in Int, NEW q \in Int, q < p
    PROVE  M * q + M <= M * p
<1>1. PICK d \in Nat : p = q + 1 + d
  <2>1. p - q - 1 \in Nat /\ p = q + 1 + (p - q - 1)
    OBVIOUS
  <2> QED BY <2>1
<1>2. M * p = M * q + M + M * d
  BY <1>1
<1>3. M * d \in Nat
  OBVIOUS
<1>4. M * q \in Int /\ M * p \in Int
  OBVIOUS
<1> QED BY <1>2, <1>3, <1>4

LEMMA OneRemainder ==
    ASSUME NEW M \in Nat \ {0}, NEW p \in Int, NEW q \in Int, NEW r \in 0 .. M - 1, NEW t \in 0 .. M - 1,
           M * q + r = M * p + t
    PROVE  q = p /\ r = t
<1>1. M * q \in Int /\ M * p \in Int
  OBVIOUS
<1>2. ~(q < p)
  <2>1. q < p => M * q + M <= M * p
    BY ProductGrows
  <2> QED BY <1>1, <2>1
<1>3. ~(p < q)
  <2>1. p < q => M * p + M <= M * q
    BY ProductGrows
  <2> QED BY <1>1, <2>1
<1>4. q = p
  BY <1>2, <1>3
<1> QED BY <1>1, <1>4

LEMMA Divides ==
    ASSUME NEW M \in Nat \ {0}, NEW a \in Int
    PROVE  a \div M \in Int /\ a % M \in 0 .. M - 1 /\ a = M * (a \div M) + (a % M)
OBVIOUS

(* A remainder may be taken after each addition. *)
LEMMA RemaindersAdd ==
    ASSUME NEW M \in Nat \ {0}, NEW a \in Int, NEW b \in Int
    PROVE  ((a % M) + b) % M = (a + b) % M
<1>1. PICK q \in Int, r \in 0 .. M - 1 : r = a % M /\ a = M * q + r
  BY Divides
<1>2. r + b \in Int /\ a + b \in Int
  BY <1>1
<1>3. PICK u \in Int, v \in 0 .. M - 1 : v = (r + b) % M /\ r + b = M * u + v
  BY <1>2, Divides
<1>4. PICK x \in Int, y \in 0 .. M - 1 : y = (a + b) % M /\ a + b = M * x + y
  BY <1>2, Divides
<1>5. a + b = M * (q + u) + v
  <2>1. M * (q + u) = M * q + M * u
    OBVIOUS
  <2>2. M * q \in Int /\ M * u \in Int
    OBVIOUS
  <2> QED BY <1>1, <1>3, <2>1, <2>2
<1>6. v = y
  <2>1. M * (q + u) + v = M * x + y
    BY <1>4, <1>5
  <2> QED BY <2>1, OneRemainder
<1> QED BY <1>1, <1>3, <1>4, <1>6

(* The numbers below n, added *)
Triangle(n) == (n * (n - 1)) \div 2

LEMMA TriangleGrows ==
    ASSUME NEW n \in Nat
    PROVE  Triangle(n) \in Nat /\ Triangle(0) = 0 /\ Triangle(n + 1) = Triangle(n) + n
<1> DEFINE T == {m \in Nat : \E h \in Nat : m * (m - 1) = 2 * h}
<1>1. 0 \in T
  OBVIOUS
<1>2. ASSUME NEW m \in Nat, m \in T PROVE m + 1 \in T
  <2>1. PICK h \in Nat : m * (m - 1) = 2 * h
    BY <1>2
  <2>2. (m + 1) * ((m + 1) - 1) = 2 * (h + m)
    <3>1. (m + 1) * ((m + 1) - 1) = m * (m - 1) + 2 * m
      OBVIOUS
    <3> QED BY <2>1, <3>1
  <2>3. h + m \in Nat
    OBVIOUS
  <2> QED BY <2>2, <2>3
<1>3. n \in T
  <2> HIDE DEF T
  <2> QED BY <1>1, <1>2, EveryNumber
<1>4. PICK h \in Nat : n * (n - 1) = 2 * h
  BY <1>3
<1>5. (n + 1) * ((n + 1) - 1) = 2 * (h + n)
  <2>1. (n + 1) * ((n + 1) - 1) = n * (n - 1) + 2 * n
    OBVIOUS
  <2> QED BY <1>4, <2>1
<1>6. \A g \in Nat : (2 * g) \div 2 = g
  OBVIOUS
<1>7. Triangle(n) = h
  BY <1>4, <1>6 DEF Triangle
<1>8. Triangle(n + 1) = h + n
  BY <1>5, <1>6 DEF Triangle
<1>9. Triangle(0) = 0
  BY DEF Triangle
<1> QED BY <1>7, <1>8, <1>9
-----------------------------------------------------------------------------
(* The checksum *)

Magnitudes(s) == [n \in 1 .. Len(s) |-> Magnitude(s[n])]

LEMMA MagnitudesAre ==
    ASSUME NEW s \in Seq(Int)
    PROVE  /\ Magnitudes(s) \in Seq(Int) /\ Len(Magnitudes(s)) = Len(s)
           /\ \A n \in 1 .. Len(s) : Magnitudes(s)[n] = Magnitude(s[n]) /\ Magnitude(s[n]) \in Int
<1>1. \A n \in 1 .. Len(s) : Magnitude(s[n]) \in Int
  BY DEF Magnitude
<1> QED BY <1>1 DEF Magnitudes

(* A loop that adds and takes the remainder each time ends with the        *)
(* remainder of the sum.                                                   *)
Remainders(h, t, d, N, M) ==
    /\ \A n \in 0 .. N : t[n] \in Int /\ h[n] = t[n] % M
    /\ \A n \in 1 .. N : d[n] \in Int /\ t[n] = t[n - 1] + d[n]

LEMMA RemaindersFollow ==
    ASSUME NEW M \in Nat \ {0}, NEW N \in Nat, NEW t, NEW h, NEW d, Remainders(h, t, d, N, M)
    PROVE  \A n \in 1 .. N : h[n] = (h[n - 1] + d[n]) % M
<1> TAKE n \in 1 .. N
<1>1. n \in 0 .. N /\ n - 1 \in 0 .. N
  OBVIOUS
<1>2. t[n - 1] \in Int /\ d[n] \in Int /\ h[n - 1] = t[n - 1] % M /\ h[n] = (t[n - 1] + d[n]) % M
  BY <1>1 DEF Remainders
<1> QED BY <1>2, RemaindersAdd

(* One pass adds the magnitudes, the iteration for each sample, and the    *)
(* indices.                                                                *)
LEMMA PassAdds ==
    ASSUME NEW s \in Seq(Int), NEW c \in Int, c % ChecksumModulo = c, NEW j \in Int
    PROVE  Pass(s, c, j) =
             (c + (SumOf(Magnitudes(s)) + Len(s) * j + Triangle(Len(s)))) % ChecksumModulo
<1> DEFINE M == ChecksumModulo
<1>1. PICK N \in Nat : N = Len(s)
  OBVIOUS
<1>2. M \in Nat \ {0}
  BY CalculationAssumption
<1>3. PICK m \in [0 .. N -> Int] :
        /\ m[0] = 0 /\ (\A n \in 1 .. N : m[n] = m[n - 1] + Magnitude(s[n]))
        /\ SumOf(Magnitudes(s)) = m[N]
  <2>1. PICK m \in [0 .. Len(Magnitudes(s)) -> Int] :
          /\ m[0] = 0 /\ (\A n \in 1 .. Len(Magnitudes(s)) : m[n] = m[n - 1] + Magnitudes(s)[n])
          /\ SumOf(Magnitudes(s)) = m[Len(Magnitudes(s))]
    BY MagnitudesAre, SumAdds
  <2> QED BY <1>1, <2>1, MagnitudesAre
<1> DEFINE t == [n \in 0 .. N |-> c + (m[n] + n * j + Triangle(n))]
           h == [n \in 0 .. N |-> t[n] % M]
           d == [n \in 1 .. N |-> Magnitude(s[n]) + j + (n - 1)]
<1>4. \A n \in 0 .. N : t[n] \in Int /\ h[n] = t[n] % M
  <2> TAKE n \in 0 .. N
  <2>1. m[n] \in Int /\ n \in Nat /\ n * j \in Int
    BY <1>3
  <2>2. Triangle(n) \in Int
    BY <2>1, TriangleGrows
  <2> QED BY <2>1, <2>2
<1>5. \A n \in 1 .. N : d[n] \in Int /\ t[n] = t[n - 1] + d[n]
  <2> TAKE n \in 1 .. N
  <2>1. Magnitude(s[n]) \in Int
    BY <1>1, MagnitudesAre
  <2>2. PICK l \in Nat : n = l + 1
    <3>1. n - 1 \in Nat /\ n = (n - 1) + 1
      OBVIOUS
    <3> QED BY <3>1
  <2>3. Triangle(l) \in Int /\ Triangle(n) = Triangle(l) + l
    <3>1. Triangle(l) \in Nat /\ Triangle(l + 1) = Triangle(l) + l
      BY TriangleGrows
    <3> QED BY <2>2, <3>1
  <2>4. l \in 0 .. N /\ n \in 0 .. N /\ n - 1 = l
    BY <2>2
  <2>5. m[l] \in Int /\ m[n] = m[l] + Magnitude(s[n])
    BY <1>3, <2>4
  <2>6. l * j \in Int /\ n * j = l * j + j
    BY <2>2
  <2>7. t[n] = c + (m[n] + n * j + Triangle(n)) /\ t[n - 1] = c + (m[l] + l * j + Triangle(l))
    BY <2>4
  <2>8. d[n] = Magnitude(s[n]) + j + l
    BY <2>4
  <2>9. PICK g \in Int : g = Magnitude(s[n])
    BY <2>1
  <2>10. PICK x \in Int, y \in Int, z \in Int : x = m[l] /\ y = l * j /\ z = Triangle(l)
    BY <2>3, <2>5, <2>6
  <2>11. t[n] = c + ((x + g) + (y + j) + (z + l)) /\ t[n - 1] = c + (x + y + z) /\ d[n] = g + j + l
    <3> HIDE DEF t, d
    <3> QED BY <2>3, <2>5, <2>6, <2>7, <2>8, <2>9, <2>10
  <2> HIDE DEF t, d
  <2>12. c + ((x + g) + (y + j) + (z + l)) = (c + (x + y + z)) + (g + j + l) /\ g + j + l \in Int
    <3> HIDE DEF t, d
    <3>1. c \in Int /\ j \in Int /\ l \in Int /\ g \in Int /\ x \in Int /\ y \in Int /\ z \in Int
      BY <2>2, <2>9, <2>10
    <3> QED BY ONLY <3>1
  <2> QED BY <2>11, <2>12
<1>6. \A n \in 1 .. N : h[n] = (h[n - 1] + d[n]) % M
  <2> HIDE DEF t, h, d, M
  <2>1. Remainders(h, t, d, N, M) /\ N \in Nat
    BY <1>1, <1>4, <1>5 DEF Remainders
  <2> QED BY <1>2, <2>1, RemaindersFollow
<1>7. h[0] = c
  <2>1. Triangle(0) = 0
    BY DEF Triangle
  <2>2. t[0] = c
    BY <1>3, <2>1
  <2> QED BY <2>2
<1>8. \A n \in 1 .. N : h[n] = (h[n - 1] + Magnitude(s[n]) + j + (n - 1)) % M
  <2> TAKE n \in 1 .. N
  <2>1. n - 1 \in 0 .. N /\ h[n - 1] \in Int
    BY <1>2, <1>4
  <2>2. Magnitude(s[n]) \in Int
    BY <1>1, MagnitudesAre
  <2>3. d[n] = Magnitude(s[n]) + j + (n - 1)
    OBVIOUS
  <2>4. h[n - 1] + d[n] = h[n - 1] + Magnitude(s[n]) + j + (n - 1)
    <3> HIDE DEF h, d
    <3> QED BY <2>1, <2>2, <2>3
  <2> QED BY <1>6, <2>4
<1>9. h = [n \in 0 .. N |->
             IF n = 0 THEN c ELSE (h[n - 1] + Magnitude(s[n]) + j + (n - 1)) % M]
  <2>1. h = [n \in 0 .. N |-> h[n]]
    OBVIOUS
  <2>2. \A n \in 0 .. N : h[n] = IF n = 0 THEN c ELSE (h[n - 1] + Magnitude(s[n]) + j + (n - 1)) % M
    <3> HIDE DEF h
    <3> QED BY <1>7, <1>8
  <2> HIDE DEF h
  <2> QED BY <2>1, <2>2
<1>10. PICK f : f = CHOOSE x : x = [n \in 0 .. N |->
             IF n = 0 THEN c ELSE (x[n - 1] + Magnitude(s[n]) + j + (n - 1)) % M]
  OBVIOUS
<1>11. f = [n \in 0 .. N |->
             IF n = 0 THEN c ELSE (f[n - 1] + Magnitude(s[n]) + j + (n - 1)) % M]
  <2> HIDE DEF h
  <2> QED BY <1>9, <1>10
<1>12. Pass(s, c, j) = f[N]
  BY <1>1, <1>10 DEF Pass
<1>13. f[N] = h[N]
  <2>1. f[0] = h[0]
    BY <1>7, <1>11
  <2>2. ASSUME NEW n \in 1 .. N PROVE f[n] = (f[n - 1] + Magnitude(s[n]) + j + (n - 1)) % M
    <3>1. n \in 0 .. N /\ n # 0
      OBVIOUS
    <3> QED BY <1>11, <3>1
  <2> HIDE DEF h
  <2>3. Alike(f, h, N)
    BY <1>8, <2>1, <2>2 DEF Alike
  <2>4. N \in Nat /\ N \in 0 .. N
    BY <1>1
  <2> QED BY <2>3, <2>4, LoopRunsOnce
<1>14. h[N] = (c + (m[N] + N * j + Triangle(N))) % M
  OBVIOUS
<1> QED BY <1>1, <1>3, <1>12, <1>13, <1>14

(* All passes *)
LEMMA ChecksumAdds ==
    ASSUME NEW s \in Seq(Int), NEW K \in Nat
    PROVE  Checksum(s, K) =
             (K * SumOf(Magnitudes(s)) + Len(s) * Triangle(K) + K * Triangle(Len(s))) % ChecksumModulo
<1>1. PICK M \in Nat \ {0} : M = ChecksumModulo
  BY CalculationAssumption
<1>2. PICK S \in Int, N \in Nat, P \in Int :
        S = SumOf(Magnitudes(s)) /\ N = Len(s) /\ P = Triangle(Len(s))
  <2>1. SumOf(Magnitudes(s)) \in Int
    <3>1. Magnitudes(s) \in Seq(Int)
      BY MagnitudesAre
    <3>2. PICK m \in [0 .. Len(Magnitudes(s)) -> Int] : SumOf(Magnitudes(s)) = m[Len(Magnitudes(s))]
      BY <3>1, SumAdds
    <3>3. Len(Magnitudes(s)) \in 0 .. Len(Magnitudes(s))
      BY <3>1
    <3> QED BY <3>2, <3>3
  <2>2. Len(s) \in Nat
    OBVIOUS
  <2>3. Triangle(Len(s)) \in Int
    BY <2>2, TriangleGrows
  <2> QED BY <2>1, <2>2, <2>3
<1> DEFINE t == [k \in 0 .. K |-> k * S + N * Triangle(k) + k * P]
           h == [k \in 0 .. K |-> t[k] % M]
           d == [k \in 1 .. K |-> S + N * (k - 1) + P]
<1>3. \A k \in 0 .. K : t[k] \in Int /\ h[k] = t[k] % M
  <2> TAKE k \in 0 .. K
  <2>1. k \in Nat
    OBVIOUS
  <2>2. PICK u \in Int : u = Triangle(k)
    BY <2>1, TriangleGrows
  <2>3. k * S \in Int /\ N * u \in Int /\ k * P \in Int
    BY <2>1
  <2> QED BY <2>2, <2>3
<1>4. \A k \in 1 .. K : d[k] \in Int /\ t[k] = t[k - 1] + d[k]
  <2> TAKE k \in 1 .. K
  <2>1. PICK l \in Nat : k = l + 1
    <3>1. k - 1 \in Nat /\ k = (k - 1) + 1
      OBVIOUS
    <3> QED BY <3>1
  <2>2. l \in 0 .. K /\ k \in 0 .. K /\ k - 1 = l
    BY <2>1
  <2>3. PICK u \in Int : u = Triangle(l) /\ Triangle(k) = u + l
    <3>1. Triangle(l) \in Nat /\ Triangle(l + 1) = Triangle(l) + l
      BY TriangleGrows
    <3> QED BY <2>1, <3>1
  <2>4. t[k] = k * S + N * (u + l) + k * P /\ t[k - 1] = l * S + N * u + l * P
    BY <2>2, <2>3
  <2>5. d[k] = S + N * l + P
    BY <2>2
  <2>6. k * S = l * S + S /\ k * P = l * P + P /\ N * (u + l) = N * u + N * l
    BY <2>1
  <2>7. PICK x \in Int, y \in Int, z \in Int, w \in Int : x = l * S /\ y = l * P /\ z = N * u /\ w = N * l
    <3>1. l * S \in Int /\ l * P \in Int /\ N * u \in Int /\ N * l \in Int
      OBVIOUS
    <3> QED BY <3>1
  <2>8. t[k] = (x + S) + (z + w) + (y + P) /\ t[k - 1] = x + z + y /\ d[k] = S + w + P
    <3> HIDE DEF t, d
    <3> QED BY <2>4, <2>5, <2>6, <2>7
  <2>9. (x + S) + (z + w) + (y + P) = (x + z + y) + (S + w + P) /\ S + w + P \in Int
    <3>1. S \in Int /\ P \in Int /\ x \in Int /\ y \in Int /\ z \in Int /\ w \in Int
      BY <1>2, <2>7
    <3> QED BY ONLY <3>1
  <2> HIDE DEF t, d
  <2> QED BY <2>8, <2>9
<1>5. \A k \in 1 .. K : h[k] = (h[k - 1] + d[k]) % M
  <2> HIDE DEF t, h, d
  <2>1. Remainders(h, t, d, K, M)
    BY <1>3, <1>4 DEF Remainders
  <2> QED BY <1>1, <2>1, RemaindersFollow
<1>6. \A k \in 0 .. K : h[k] \in Int /\ h[k] % M = h[k]
  <2> TAKE k \in 0 .. K
  <2>1. PICK a \in Int : a = t[k] /\ h[k] = a % M
    <3> HIDE DEF t, h
    <3> QED BY <1>3
  <2>2. a % M \in Int
    BY <1>1
  <2>3. ((a % M) + 0) % M = (a + 0) % M
    <3>1. 0 \in Int
      OBVIOUS
    <3> QED BY <1>1, <3>1, RemaindersAdd
  <2>4. (a % M) + 0 = a % M /\ a + 0 = a
    BY <2>2
  <2> HIDE DEF h
  <2> QED BY <2>1, <2>2, <2>3, <2>4
<1>7. h[0] = 0
  <2>1. Triangle(0) = 0
    BY DEF Triangle
  <2>2. t[0] = 0
    BY <1>2, <2>1
  <2>3. 0 % M = 0
    BY <1>1
  <2>4. h[0] = t[0] % M
    OBVIOUS
  <2> HIDE DEF t, h
  <2> QED BY <2>2, <2>3, <2>4
<1>8. \A k \in 1 .. K : h[k] = Pass(s, h[k - 1], k - 1)
  <2> TAKE k \in 1 .. K
  <2>1. k - 1 \in 0 .. K /\ k - 1 \in Int
    OBVIOUS
  <2>2. PICK c \in Int : c = h[k - 1] /\ c % ChecksumModulo = c
    <3> HIDE DEF h
    <3> QED BY <1>1, <1>6, <2>1
  <2>3. Pass(s, c, k - 1) = (c + (S + N * (k - 1) + P)) % M
    <3>1. Pass(s, c, k - 1) =
            (c + (SumOf(Magnitudes(s)) + Len(s) * (k - 1) + Triangle(Len(s)))) % ChecksumModulo
      BY <2>1, <2>2, PassAdds
    <3> QED BY <1>1, <1>2, <3>1
  <2>4. d[k] = S + N * (k - 1) + P
    OBVIOUS
  <2> HIDE DEF h, d
  <2> QED BY <1>5, <2>2, <2>3, <2>4
<1>9. h = [k \in 0 .. K |-> IF k = 0 THEN 0 ELSE Pass(s, h[k - 1], k - 1)]
  <2>1. h = [k \in 0 .. K |-> h[k]]
    OBVIOUS
  <2>2. \A k \in 0 .. K : h[k] = IF k = 0 THEN 0 ELSE Pass(s, h[k - 1], k - 1)
    <3> HIDE DEF h
    <3> QED BY <1>7, <1>8
  <2> HIDE DEF h
  <2> QED BY <2>1, <2>2
<1>10. PICK f : f = CHOOSE x : x = [k \in 0 .. K |-> IF k = 0 THEN 0 ELSE Pass(s, x[k - 1], k - 1)]
  OBVIOUS
<1>11. f = [k \in 0 .. K |-> IF k = 0 THEN 0 ELSE Pass(s, f[k - 1], k - 1)]
  <2> HIDE DEF h
  <2> QED BY <1>9, <1>10
<1>12. Checksum(s, K) = f[K]
  BY <1>10 DEF Checksum
<1>13. f[K] = h[K]
  <2>1. f[0] = h[0]
    BY <1>7, <1>11
  <2>2. ASSUME NEW k \in 1 .. K PROVE f[k] = Pass(s, f[k - 1], k - 1)
    <3>1. k \in 0 .. K /\ k # 0
      OBVIOUS
    <3> QED BY <1>11, <3>1
  <2> HIDE DEF h
  <2>3. Alike(f, h, K)
    BY <1>8, <2>1, <2>2 DEF Alike
  <2>4. \A k \in 0 .. K : f[k] = h[k]
    BY <2>3, LoopRunsOnce
  <2> QED BY <2>4
<1>14. h[K] = (K * S + N * Triangle(K) + K * P) % M
  OBVIOUS
<1> QED BY <1>1, <1>2, <1>12, <1>13, <1>14
-----------------------------------------------------------------------------
(* The samples in order *)

LEMMA PositionsCount ==
    ASSUME NEW N \in Nat, NEW Q, Q \subseteq 1 .. N, NEW P, P \subseteq Q
    PROVE  /\ IsFiniteSet(P) /\ IsFiniteSet(Q)
           /\ Cardinality(P) \in Nat /\ Cardinality(Q) \in Nat /\ Cardinality(Q) <= N
           /\ Cardinality(P) <= Cardinality(Q)
           /\ P # Q => Cardinality(P) < Cardinality(Q)
<1>1. IsFiniteSet(1 .. N) /\ Cardinality(1 .. N) = N
  BY FS_Interval
<1>2. IsFiniteSet(Q) /\ Cardinality(Q) <= N
  BY <1>1, FS_Subset
<1>3. IsFiniteSet(P) /\ Cardinality(P) <= Cardinality(Q) /\ (P # Q => Cardinality(P) # Cardinality(Q))
  BY <1>2, FS_Subset
<1>4. Cardinality(P) \in Nat /\ Cardinality(Q) \in Nat
  BY <1>2, <1>3, FS_CardinalityType
<1> QED BY <1>2, <1>3, <1>4

(* How many samples are at or below a value is a matter of their order.    *)
LEMMA CountsOrder ==
    ASSUME NEW s \in Seq(Int), NEW v \in Int, NEW w \in Int
    PROVE  /\ Below(s, v) \in Nat /\ AtOrBelow(s, v) \in Nat
           /\ Below(s, v) <= AtOrBelow(s, v) /\ AtOrBelow(s, v) <= Len(s)
           /\ v < w => AtOrBelow(s, v) <= Below(s, w)
           /\ (\E i \in DOMAIN s : s[i] = v) => Below(s, v) < AtOrBelow(s, v)
<1>1. PICK N \in Nat : N = Len(s) /\ DOMAIN s = 1 .. N
  OBVIOUS
<1>2. \A i \in 1 .. N : s[i] \in Int
  BY <1>1
<1> DEFINE B(u) == {i \in DOMAIN s : s[i] < u}
           A(u) == {i \in DOMAIN s : s[i] <= u}
<1>3. B(v) \subseteq A(v) /\ A(v) \subseteq 1 .. N /\ B(w) \subseteq 1 .. N
  BY <1>1, <1>2
<1>4. v < w => A(v) \subseteq B(w)
  BY <1>1, <1>2
<1>5. (\E i \in DOMAIN s : s[i] = v) => B(v) # A(v)
  <2> SUFFICES ASSUME NEW i \in DOMAIN s, s[i] = v PROVE B(v) # A(v)
    OBVIOUS
  <2>1. i \in A(v) /\ i \notin B(v)
    OBVIOUS
  <2> QED BY <2>1
<1>6. Below(s, v) = Cardinality(B(v)) /\ Below(s, w) = Cardinality(B(w))
      /\ AtOrBelow(s, v) = Cardinality(A(v))
  BY DEF Below, AtOrBelow
<1> HIDE DEF A, B
<1>7. /\ Cardinality(B(v)) \in Nat /\ Cardinality(A(v)) \in Nat /\ Cardinality(A(v)) <= N
      /\ Cardinality(B(v)) <= Cardinality(A(v))
      /\ B(v) # A(v) => Cardinality(B(v)) < Cardinality(A(v))
  BY <1>3, PositionsCount
<1>8. v < w => Cardinality(A(v)) <= Cardinality(B(w))
  BY <1>3, <1>4, PositionsCount
<1> QED BY <1>1, <1>5, <1>6, <1>7, <1>8

(* Some sample is the greatest. *)
LEMMA GreatestSample ==
    ASSUME NEW s \in Seq(Int), NEW P, P \subseteq DOMAIN s, P # {}
    PROVE  \E i \in P : \A j \in P : s[j] <= s[i]
<1>1. \A i \in P : s[i] \in Int /\ AtOrBelow(s, s[i]) \in Nat /\ AtOrBelow(s, s[i]) <= Len(s)
  <2> TAKE i \in P
  <2>1. s[i] \in Int
    OBVIOUS
  <2> QED BY <2>1, CountsOrder
<1> DEFINE Rest(i) == Len(s) - AtOrBelow(s, s[i])
           T == {Rest(i) : i \in P}
<1>2. T \subseteq Nat /\ T # {}
  <2>1. \A i \in P : Rest(i) \in Nat
    BY <1>1
  <2> HIDE DEF Rest
  <2> QED BY <2>1
<1>3. PICK x \in T : \A y \in T : x <= y
  <2> HIDE DEF T
  <2> QED BY <1>2, LeastNumber
<1>4. PICK i \in P : x = Rest(i)
  BY <1>3
<1>5. ASSUME NEW j \in P PROVE s[j] <= s[i]
  <2>1. Rest(i) <= Rest(j)
    <3> HIDE DEF Rest
    <3> QED BY <1>3, <1>4
  <2>2. AtOrBelow(s, s[j]) <= AtOrBelow(s, s[i])
    BY <1>1, <2>1
  <2>3. s[i] \in Int /\ s[j] \in Int /\ i \in DOMAIN s /\ j \in DOMAIN s
    OBVIOUS
  <2>4. s[i] < s[j] => AtOrBelow(s, s[i]) <= Below(s, s[j])
    BY <2>3, CountsOrder
  <2>5. Below(s, s[j]) < AtOrBelow(s, s[j]) /\ Below(s, s[j]) \in Nat
    BY <2>3, CountsOrder
  <2>6. ~(s[i] < s[j])
    BY <1>1, <2>2, <2>4, <2>5
  <2> QED BY <2>3, <2>6
<1> QED BY <1>5

(* At every position of the order there is a sample, and only one value.   *)
IsNth(s, n, v) == (\E i \in DOMAIN s : s[i] = v) /\ Below(s, v) < n /\ n <= AtOrBelow(s, v)

LEMMA NthExists ==
    ASSUME NEW s \in Seq(Int), NEW n \in 1 .. Len(s)
    PROVE  \E v \in Int : IsNth(s, n, v)
<1>1. PICK N \in Nat : N = Len(s) /\ DOMAIN s = 1 .. N
  OBVIOUS
<1>2. \A i \in 1 .. N : s[i] \in Int
  BY <1>1
<1> DEFINE Count(i) == AtOrBelow(s, s[i])
           P == {i \in DOMAIN s : n <= Count(i)}
           T == {Count(i) : i \in P}
<1>3. \A i \in DOMAIN s : s[i] \in Int /\ Count(i) \in Nat
  <2> TAKE i \in DOMAIN s
  <2>1. s[i] \in Int
    BY <1>1, <1>2
  <2> QED BY <2>1, CountsOrder
<1>4. P # {}
  <2>1. DOMAIN s # {}
    BY <1>1
  <2>2. PICK g \in DOMAIN s : \A j \in DOMAIN s : s[j] <= s[g]
    BY <2>1, GreatestSample
  <2>3. {j \in DOMAIN s : s[j] <= s[g]} = 1 .. N
    BY <1>1, <2>2
  <2>4. Count(g) = N
    <3>1. Cardinality(1 .. N) = N
      BY FS_Interval
    <3> QED BY <2>3, <3>1 DEF AtOrBelow
  <2>5. n <= Count(g)
    BY <1>1, <2>4
  <2> QED BY <2>5
<1>5. T \subseteq Nat /\ T # {}
  <2> HIDE DEF Count
  <2> QED BY <1>3, <1>4
<1>6. PICK x \in T : \A y \in T : x <= y
  <2> HIDE DEF T
  <2> QED BY <1>5, LeastNumber
<1>7. PICK i \in P : x = Count(i)
  BY <1>6
<1>8. i \in DOMAIN s /\ s[i] \in Int /\ n <= Count(i) /\ \A j \in P : Count(i) <= Count(j)
  <2> HIDE DEF Count
  <2> QED BY <1>3, <1>6, <1>7
<1>9. Below(s, s[i]) < Count(i) /\ Below(s, s[i]) \in Nat
  BY <1>8, CountsOrder
<1>10. Below(s, s[i]) < n
  <2> SUFFICES ASSUME n <= Below(s, s[i]) PROVE FALSE
    BY <1>1, <1>9
  <2> DEFINE Q == {j \in DOMAIN s : s[j] < s[i]}
  <2>1. Q # {}
    <3>1. Cardinality({}) = 0
      BY FS_EmptySet
    <3>2. Below(s, s[i]) # 0
      BY <1>1
    <3> QED BY <3>1, <3>2 DEF Below
  <2>2. PICK k \in Q : \A j \in Q : s[j] <= s[k]
    <3>1. Q \subseteq DOMAIN s
      OBVIOUS
    <3> HIDE DEF Q
    <3> QED BY <2>1, <3>1, GreatestSample
  <2>3. {j \in DOMAIN s : s[j] <= s[k]} = Q
    <3>1. k \in DOMAIN s /\ s[k] < s[i] /\ s[i] \in Int
      BY <1>8, <2>2
    <3>2. ASSUME NEW j \in DOMAIN s PROVE s[j] <= s[k] <=> s[j] < s[i]
      <4>1. s[j] \in Int /\ s[k] \in Int
        BY <1>3, <3>1
      <4>2. s[j] < s[i] => s[j] <= s[k]
        BY <2>2
      <4> QED BY <3>1, <4>1, <4>2
    <3> QED BY <3>2
  <2>4. Count(k) = Below(s, s[i])
    BY <2>3 DEF AtOrBelow, Below
  <2>5. k \in P
    BY <2>2, <2>4
  <2>6. Count(k) < Count(i) /\ Count(i) <= Count(k) /\ Count(i) \in Nat /\ Count(k) \in Nat
    <3> HIDE DEF Count
    <3> QED BY <1>3, <1>8, <1>9, <2>4, <2>5
  <2> HIDE DEF Count
  <2> QED BY <2>6
<1> QED BY <1>8, <1>10 DEF IsNth

LEMMA NthIsUnique ==
    ASSUME NEW s \in Seq(Int), NEW n \in Int, NEW v \in Int, NEW w \in Int,
           IsNth(s, n, v), IsNth(s, n, w)
    PROVE  v = w
<1>1. ~(v < w)
  <2>1. v < w => AtOrBelow(s, v) <= Below(s, w)
    BY CountsOrder
  <2>2. AtOrBelow(s, v) \in Nat /\ Below(s, w) \in Nat
    BY CountsOrder
  <2> QED BY <2>1, <2>2 DEF IsNth
<1>2. ~(w < v)
  <2>1. w < v => AtOrBelow(s, w) <= Below(s, v)
    BY CountsOrder
  <2>2. AtOrBelow(s, w) \in Nat /\ Below(s, v) \in Nat
    BY CountsOrder
  <2> QED BY <2>1, <2>2 DEF IsNth
<1> QED BY <1>1, <1>2

LEMMA SortedIs ==
    ASSUME NEW s \in Seq(Int)
    PROVE  /\ Sorted(s) \in Seq(Int) /\ Len(Sorted(s)) = Len(s)
           /\ \A n \in 1 .. Len(s) : IsNth(s, n, Sorted(s)[n])
<1>1. PICK N \in Nat : N = Len(s) /\ DOMAIN s = 1 .. N
  OBVIOUS
<1>2. ASSUME NEW n \in 1 .. N PROVE Sorted(s)[n] \in Int /\ IsNth(s, n, Sorted(s)[n])
  <2>1. PICK v \in Int : IsNth(s, n, v)
    BY <1>1, NthExists
  <2>2. v \in Range(s) /\ Below(s, v) < n /\ n <= AtOrBelow(s, v)
    BY <2>1 DEF IsNth, Range
  <2>3. Sorted(s)[n] = CHOOSE u \in Range(s) : Below(s, u) < n /\ n <= AtOrBelow(s, u)
    BY <1>1 DEF Sorted
  <2>4. PICK u : u = Sorted(s)[n]
    OBVIOUS
  <2>5. u \in Range(s) /\ Below(s, u) < n /\ n <= AtOrBelow(s, u)
    BY <2>2, <2>3, <2>4
  <2>6. u \in Int /\ IsNth(s, n, u)
    BY <1>1, <2>5 DEF IsNth, Range
  <2> QED BY <2>4, <2>6
<1>3. Sorted(s) = [n \in 1 .. N |-> Sorted(s)[n]]
  BY <1>1 DEF Sorted
<1> QED BY <1>1, <1>2, <1>3
-----------------------------------------------------------------------------
(* The histogram *)

(* v is in the b-th of n parts from l to g. *)
IsPart(v, l, g, b, n) ==
    \/ l = g /\ b = 1
    \/ /\ l < g
       /\ (b - 1) * (g - l) <= (v - l) * n
       /\ (v - l) * n < b * (g - l) \/ (b = n /\ v = g)

(* The part of the range that a sample is in *)
LEMMA BucketIs ==
    ASSUME NEW l \in Int, NEW g \in Int, NEW v \in Int, l <= v, v <= g,
           NEW n \in Nat \ {0}, NEW b \in 1 .. n
    PROVE  /\ Bucket(v, l, g, n) \in 0 .. n - 1
           /\ Bucket(v, l, g, n) = b - 1 <=> IsPart(v, l, g, b, n)
<1>1. CASE l = g
  BY <1>1 DEF Bucket, IsPart
<1>2. CASE l < g
  <2>1. PICK D \in Nat \ {0} : D = g - l
    BY <1>2
  <2>2. PICK e \in Nat : e = v - l /\ e <= D /\ (e = D <=> v = g)
    BY <2>1
  <2>3. PICK X \in Int : X = (v - l) * n /\ X = e * n
    BY <2>2
  <2>4. PICK q \in Int, r \in 0 .. D - 1 : q = X \div D /\ X = D * q + r
    BY Divides
  <2>5. 0 <= X /\ X <= D * n /\ (X = D * n <=> e = D)
    <3>1. D * n = e * n + (D - e) * n
      BY <2>2
    <3>2. PICK d \in Nat : d = D - e
      BY <2>2
    <3>3. d * n \in Nat /\ e * n \in Nat /\ (d * n = 0 <=> d = 0)
      OBVIOUS
    <3> QED BY <2>2, <2>3, <3>1, <3>2, <3>3
  <2>6. 0 <= q
    <3>1. q < 0 => D * q + D <= D * 0
      BY ProductGrows
    <3>2. D * 0 = 0 /\ D * q \in Int
      OBVIOUS
    <3> QED BY <2>4, <2>5, <3>1, <3>2
  <2>7. q <= n
    <3>1. n < q => D * n + D <= D * q
      BY ProductGrows
    <3>2. D * n \in Int /\ D * q \in Int
      OBVIOUS
    <3> QED BY <2>4, <2>5, <3>1, <3>2
  <2>8. Bucket(v, l, g, n) = IF q < n THEN q ELSE n - 1
    <3>1. l # g
      BY <1>2
    <3> QED BY <2>1, <2>3, <2>4, <3>1 DEF Bucket
  <2>9. Bucket(v, l, g, n) \in 0 .. n - 1
    BY <2>6, <2>7, <2>8
  <2>10. q = n => v = g
    <3>1. q = n => X = D * n + r /\ D * n \in Int
      BY <2>4
    <3> QED BY <2>2, <2>4, <2>5, <3>1
  <2>11. v = g => q = n
    <3>1. v = g => X = D * n + 0 /\ 0 \in 0 .. D - 1
      BY <2>2, <2>5
    <3>2. v = g => D * n + 0 = D * q + r
      BY <2>4, <3>1
    <3> QED BY <3>1, <3>2, OneRemainder
  <2>12. (b - 1) * (g - l) = D * (b - 1) /\ b * (g - l) = D * b /\ D * b \in Int /\ D * (b - 1) \in Int
         /\ D * b = D * (b - 1) + D
    BY <2>1
  <2>13. D * (b - 1) <= X /\ X < D * b <=> q = b - 1
    <3>1. D * q \in Int
      OBVIOUS
    <3>2. q = b - 1 => D * q = D * (b - 1)
      OBVIOUS
    <3>3. q < b - 1 => D * q + D <= D * (b - 1)
      BY ProductGrows
    <3>4. b - 1 < q => D * (b - 1) + D <= D * q
      BY ProductGrows
    <3> QED BY <2>4, <2>12, <3>1, <3>2, <3>3, <3>4
  <2>14. D * (b - 1) <= X /\ b = n /\ v = g <=> b = n /\ v = g
    <3>1. b = n => D * (b - 1) <= D * n
      BY <2>12
    <3> QED BY <2>2, <2>5, <3>1
  <2>15. Bucket(v, l, g, n) = b - 1 <=> q = b - 1 \/ (b = n /\ v = g)
    BY <2>7, <2>8, <2>10, <2>11
  <2> QED BY <1>2, <2>3, <2>9, <2>12, <2>13, <2>14, <2>15 DEF IsPart
<1> QED BY <1>1, <1>2

(* The first and the last in order are the least and the greatest. *)
LEMMA SortedEnds ==
    ASSUME NEW s \in Seq(Int), Len(s) # 0
    PROVE  \E l \in Int, g \in Int :
             /\ l = Head(Sorted(s)) /\ g = Last(Sorted(s)) /\ Sorted(s) # <<>>
             /\ (\E i \in 1 .. Len(s) : s[i] = l) /\ (\E i \in 1 .. Len(s) : s[i] = g)
             /\ \A i \in 1 .. Len(s) : s[i] \in Int /\ l <= s[i] /\ s[i] <= g
<1>1. PICK N \in Nat : N = Len(s) /\ DOMAIN s = 1 .. N /\ N # 0 /\ 1 \in 1 .. N /\ N \in 1 .. N
  OBVIOUS
<1>2. \A i \in 1 .. N : s[i] \in Int
  BY <1>1
<1>3. PICK t \in Seq(Int) : t = Sorted(s) /\ Len(t) = N /\ \A n \in 1 .. N : IsNth(s, n, t[n])
  BY <1>1, SortedIs
<1>4. PICK l \in Int, g \in Int : l = t[1] /\ g = t[N]
  BY <1>1, <1>3
<1>5. l = Head(t) /\ g = Last(t) /\ t # <<>>
  BY <1>1, <1>3, <1>4 DEF Last
<1>6. IsNth(s, 1, l) /\ IsNth(s, N, g)
  BY <1>1, <1>3, <1>4
<1>7. ASSUME NEW i \in 1 .. N PROVE l <= s[i]
  <2>1. PICK v \in Int : v = s[i]
    BY <1>2
  <2>2. v < l => AtOrBelow(s, v) <= Below(s, l)
    BY CountsOrder
  <2>3. Below(s, v) < AtOrBelow(s, v) /\ Below(s, v) \in Nat /\ AtOrBelow(s, v) \in Nat
    BY <1>1, <2>1, CountsOrder
  <2>4. Below(s, l) < 1 /\ Below(s, l) \in Nat
    BY <1>6, CountsOrder DEF IsNth
  <2> QED BY <2>1, <2>2, <2>3, <2>4
<1>8. ASSUME NEW i \in 1 .. N PROVE s[i] <= g
  <2> DEFINE A == {j \in DOMAIN s : s[j] <= g}
  <2>1. N <= Cardinality(A)
    BY <1>6 DEF IsNth, AtOrBelow
  <2>2. A \subseteq 1 .. N /\ 1 .. N \subseteq 1 .. N
    BY <1>1
  <2>3. Cardinality(1 .. N) <= N
    BY <2>2, PositionsCount
  <2>4. A = 1 .. N
    <3> HIDE DEF A
    <3>1. A # 1 .. N => Cardinality(A) < Cardinality(1 .. N)
      BY <2>2, PositionsCount
    <3>2. Cardinality(A) \in Nat /\ Cardinality(1 .. N) \in Nat
      BY <2>2, PositionsCount
    <3> QED BY <2>1, <2>3, <3>1, <3>2
  <2> QED BY <2>4
<1> QED BY <1>1, <1>2, <1>3, <1>4, <1>5, <1>6, <1>7, <1>8 DEF IsNth

(* A sample is counted in the part of the range that it is in. *)
LEMMA BucketsAreParts ==
    ASSUME NEW s \in Seq(Int), NEW l \in Int, NEW g \in Int,
           \E i \in 1 .. Len(s) : s[i] = l, \E i \in 1 .. Len(s) : s[i] = g,
           \A i \in 1 .. Len(s) : s[i] \in Int /\ l <= s[i] /\ s[i] <= g,
           NEW n \in Nat \ {0}, NEW b \in 1 .. n, NEW i \in 1 .. Len(s)
    PROVE  /\ Bucket(s[i], l, g, n) \in 0 .. n - 1
           /\ Bucket(s[i], l, g, n) = b - 1 <=> InBucket(s[i], s, b, n)
<1> DEFINE values == {s[j] : j \in DOMAIN s}
           least == CHOOSE m \in values : \A w \in values : m <= w
           greatest == CHOOSE m \in values : \A w \in values : w <= m
<1>1. DOMAIN s = 1 .. Len(s)
  OBVIOUS
<1>2. l \in values /\ g \in values /\ \A w \in values : w \in Int /\ l <= w /\ w <= g
  BY <1>1
<1>3. least = l
  <2> HIDE DEF values
  <2>1. least \in values /\ \A w \in values : least <= w
    BY <1>2
  <2>2. least \in Int /\ least <= l /\ l <= least
    <3> HIDE DEF least
    <3> QED BY <1>2, <2>1
  <2> HIDE DEF least
  <2> QED BY <2>2
<1>4. greatest = g
  <2> HIDE DEF values
  <2>1. greatest \in values /\ \A w \in values : w <= greatest
    BY <1>2
  <2>2. greatest \in Int /\ g <= greatest /\ greatest <= g
    <3> HIDE DEF greatest
    <3> QED BY <1>2, <2>1
  <2> HIDE DEF greatest
  <2> QED BY <2>2
<1>5. InBucket(s[i], s, b, n) <=> IsPart(s[i], least, greatest, b, n)
  BY DEF InBucket, IsPart
<1>6. PICK v \in Int : v = s[i] /\ l <= v /\ v <= g
  OBVIOUS
<1>7. Bucket(v, l, g, n) \in 0 .. n - 1 /\ (Bucket(v, l, g, n) = b - 1 <=> IsPart(v, l, g, b, n))
  <2>1. v \in Int /\ l \in Int /\ g \in Int /\ n \in Nat \ {0} /\ b \in 1 .. n /\ l <= v /\ v <= g
    BY <1>6
  <2> QED BY ONLY <2>1, BucketIs, Zenon
<1> HIDE DEF least, greatest
<1> QED BY <1>3, <1>4, <1>5, <1>6, <1>7

(* All samples are in the histogram. *)
LEMMA HistogramAdds ==
    ASSUME NEW s \in Seq(Int), NEW l, NEW g, NEW n \in Nat \ {0},
           \A i \in 1 .. Len(s) : Bucket(s[i], l, g, n) \in 0 .. n - 1
    PROVE  /\ Histogram(s, l, g, n) \in Seq(Int)
           /\ SumOf(Histogram(s, l, g, n)) = Len(s)
<1>1. PICK N \in Nat : N = Len(s) /\ DOMAIN s = 1 .. N
  OBVIOUS
<1> DEFINE In(b) == {i \in 1 .. N : Bucket(s[i], l, g, n) = b - 1}
           Under(b) == {i \in 1 .. N : Bucket(s[i], l, g, n) < b}
<1>2. PICK h : h = Histogram(s, l, g, n)
  OBVIOUS
<1>3. h = [b \in 1 .. n |-> Cardinality(In(b))]
  BY <1>1, <1>2 DEF Histogram
<1>4. \A b \in 0 .. n : /\ IsFiniteSet(In(b)) /\ Cardinality(In(b)) \in Nat
                        /\ IsFiniteSet(Under(b)) /\ Cardinality(Under(b)) \in Nat
  <2> TAKE b \in 0 .. n
  <2>1. In(b) \subseteq 1 .. N /\ Under(b) \subseteq 1 .. N
    OBVIOUS
  <2> HIDE DEF In, Under
  <2> QED BY <2>1, PositionsCount
<1>5. h \in Seq(Int) /\ Len(h) = n
  <2> HIDE DEF In, Under
  <2>1. ASSUME NEW b \in 1 .. n PROVE Cardinality(In(b)) \in Int
    <3>1. b \in 0 .. n
      OBVIOUS
    <3>2. Cardinality(In(b)) \in Nat
      BY <1>4, <3>1
    <3> QED BY <3>2
  <2> QED BY <1>3, <2>1
<1>6. ASSUME NEW b \in 1 .. n PROVE Cardinality(Under(b)) = Cardinality(Under(b - 1)) + Cardinality(In(b))
  <2>1. b - 1 \in 0 .. n /\ b \in 0 .. n
    OBVIOUS
  <2>2. \A i \in 1 .. N : Bucket(s[i], l, g, n) \in Int
    BY <1>1
  <2>3. Under(b) = Under(b - 1) \cup In(b) /\ Under(b - 1) \cap In(b) = {}
    BY <2>2
  <2> HIDE DEF Under, In
  <2>4. Cardinality(Under(b - 1) \cup In(b)) =
          Cardinality(Under(b - 1)) + Cardinality(In(b)) - Cardinality(Under(b - 1) \cap In(b))
    BY <1>4, <2>1, FS_Union
  <2>5. Cardinality(Under(b - 1) \cap In(b)) = 0
    BY <2>3, FS_EmptySet
  <2> QED BY <1>4, <2>1, <2>3, <2>4, <2>5
<1>7. PICK f \in [0 .. n -> Int] :
        f[0] = 0 /\ (\A b \in 1 .. n : f[b] = f[b - 1] + h[b]) /\ SumOf(h) = f[n]
  BY <1>5, SumAdds
<1> DEFINE c == [b \in 0 .. n |-> Cardinality(Under(b))]
<1>8. Alike(f, c, n)
  <2>1. c[0] = 0
    <3>1. Under(0) = {}
      BY <1>1
    <3>2. c[0] = Cardinality(Under(0))
      OBVIOUS
    <3> HIDE DEF Under, c
    <3> QED BY <3>1, <3>2, FS_EmptySet
  <2>2. ASSUME NEW b \in 1 .. n PROVE f[b - 1] = c[b - 1] => f[b] = c[b]
    <3>1. b - 1 \in 0 .. n /\ b \in 0 .. n
      OBVIOUS
    <3> HIDE DEF Under, In
    <3>2. c[b] = c[b - 1] + h[b]
      BY <1>3, <1>6, <3>1
    <3> HIDE DEF c
    <3> QED BY <1>7, <3>2
  <2> HIDE DEF c
  <2> QED BY <1>7, <2>1, <2>2 DEF Alike
<1>9. f[n] = c[n]
  <2> HIDE DEF c
  <2>1. \A b \in 0 .. n : f[b] = c[b]
    BY <1>8, LoopRunsOnce
  <2> QED BY <2>1
<1>10. c[n] = N
  <2>1. Under(n) = 1 .. N
    BY <1>1
  <2>2. Cardinality(1 .. N) = N
    BY FS_Interval
  <2>3. c[n] = Cardinality(Under(n))
    OBVIOUS
  <2> HIDE DEF Under, c
  <2> QED BY <2>1, <2>2, <2>3
<1> HIDE DEF c
<1> QED BY <1>1, <1>2, <1>5, <1>7, <1>9, <1>10
-----------------------------------------------------------------------------
(* The percentiles *)

LEMMA RankIs ==
    ASSUME NEW N \in Nat \ {0}, NEW p \in {50, 95, 99}
    PROVE  \E rank \in 1 .. N :
             /\ rank = (N * p + 99) \div 100
             /\ \A c \in Nat : c * 100 >= p * N <=> rank <= c
<1>1. CASE p = 50
  BY <1>1
<1>2. CASE p = 95
  BY <1>2
<1>3. CASE p = 99
  BY <1>3
<1> QED BY <1>1, <1>2, <1>3

LEMMA PercentileIs ==
    ASSUME NEW s \in Seq(Int), Len(s) # 0, NEW p \in {50, 95, 99}
    PROVE  IsPercentile(Percentile(Sorted(s), p), s, p)
<1>1. PICK N \in Nat \ {0} : N = Len(s)
  OBVIOUS
<1>2. PICK t \in Seq(Int) : t = Sorted(s) /\ Len(t) = N /\ \A n \in 1 .. N : IsNth(s, n, t[n])
  BY <1>1, SortedIs
<1>3. PICK rank \in 1 .. N :
        /\ rank = (N * p + 99) \div 100
        /\ \A c \in Nat : c * 100 >= p * N <=> rank <= c
  BY RankIs
<1>4. PICK v \in Int : v = t[rank]
  BY <1>2
<1>5. Percentile(t, p) = v
  <2>1. t # <<>> /\ rank <= N
    BY <1>2
  <2> QED BY <1>2, <1>3, <1>4, <2>1 DEF Percentile
<1>6. IsNth(s, rank, v)
  BY <1>2, <1>4
<1>7. \A w \in Int : AtOrBelow(s, w) \in Nat /\ (AtOrBelow(s, w) * 100 >= p * N <=> rank <= AtOrBelow(s, w))
  <2> TAKE w \in Int
  <2>1. AtOrBelow(s, w) \in Nat
    BY CountsOrder
  <2> QED BY <1>3, <2>1
<1>8. AtOrBelow(s, v) * 100 >= p * N
  BY <1>6, <1>7 DEF IsNth
<1>9. ASSUME NEW i \in DOMAIN s, AtOrBelow(s, s[i]) * 100 >= p * N PROVE v <= s[i]
  <2>1. PICK w \in Int : w = s[i]
    OBVIOUS
  <2>2. rank <= AtOrBelow(s, w) /\ AtOrBelow(s, w) \in Nat
    BY <1>7, <1>9, <2>1
  <2>3. w < v => AtOrBelow(s, w) <= Below(s, v)
    BY CountsOrder
  <2>4. Below(s, v) < rank /\ Below(s, v) \in Nat
    BY <1>6, CountsOrder DEF IsNth
  <2> QED BY <2>1, <2>2, <2>3, <2>4
<1>10. \E i \in DOMAIN s : s[i] = v
  BY <1>6 DEF IsNth
<1> QED BY <1>1, <1>2, <1>5, <1>8, <1>9, <1>10 DEF IsPercentile

(* The result of the calculation is the histogram, the nearest-rank        *)
(* percentiles and the checksum of the samples, whatever the samples and   *)
(* however many, the buckets and the iterations (calculateAuctionActivity). *)
THEOREM ResultsAreRight ==
    ASSUME NEW s \in Seq(Int), NEW buckets \in Nat \ {0}, NEW k \in Nat
    PROVE  IsResult(Input(s, buckets, k), CalculateActivity(Input(s, buckets, k)))
<1>1. PICK in : in = Input(s, buckets, k)
  OBVIOUS
<1>2. in.samples = s /\ in.bucketCount = buckets /\ in.iterations = k
  BY <1>1 DEF Input
<1>3. PICK l, g :
        /\ l = IF Sorted(s) = <<>> THEN 0 ELSE Head(Sorted(s))
        /\ g = IF Sorted(s) = <<>> THEN 0 ELSE Last(Sorted(s))
  OBVIOUS
<1>4. PICK result : result = CalculateActivity(in)
  OBVIOUS
<1>5. /\ result.sampleCount = Len(s)
      /\ result.histogram = Histogram(s, l, g, buckets)
      /\ \A p \in {50, 95, 99} : result.percentiles[p] = Percentile(Sorted(s), p)
      /\ result.checksum = Checksum(s, k)
  BY <1>2, <1>3, <1>4 DEF CalculateActivity
<1>6. \A b \in 1 .. buckets, i \in 1 .. Len(s) :
        /\ Bucket(s[i], l, g, buckets) \in 0 .. buckets - 1
        /\ Bucket(s[i], l, g, buckets) = b - 1 <=> InBucket(s[i], s, b, buckets)
  <2>1. CASE Len(s) = 0
    BY <2>1
  <2>2. CASE Len(s) # 0
    <3>1. /\ l \in Int /\ g \in Int
          /\ (\E i \in 1 .. Len(s) : s[i] = l) /\ (\E i \in 1 .. Len(s) : s[i] = g)
          /\ \A i \in 1 .. Len(s) : s[i] \in Int /\ l <= s[i] /\ s[i] <= g
      BY <1>3, <2>2, SortedEnds
    <3> QED BY <3>1, BucketsAreParts
  <2> QED BY <2>1, <2>2
<1>7. \A b \in 1 .. buckets :
        result.histogram[b] = Cardinality({i \in 1 .. Len(s) : InBucket(s[i], s, b, buckets)})
  <2> TAKE b \in 1 .. buckets
  <2>1. DOMAIN s = 1 .. Len(s)
    OBVIOUS
  <2>2. {i \in DOMAIN s : Bucket(s[i], l, g, buckets) = b - 1} =
          {i \in 1 .. Len(s) : InBucket(s[i], s, b, buckets)}
    BY <1>6, <2>1
  <2>3. Histogram(s, l, g, buckets)[b] = Cardinality({i \in DOMAIN s : Bucket(s[i], l, g, buckets) = b - 1})
    BY DEF Histogram
  <2> QED BY <1>5, <2>2, <2>3
<1>8. SumOf(result.histogram) = Len(s)
  <2>1. 1 \in 1 .. buckets
    OBVIOUS
  <2>2. \A i \in 1 .. Len(s) : Bucket(s[i], l, g, buckets) \in 0 .. buckets - 1
    BY <1>6, <2>1
  <2>3. SumOf(Histogram(s, l, g, buckets)) = Len(s)
    BY <2>2, HistogramAdds
  <2> QED BY <1>5, <2>3
<1>9. \A p \in {50, 95, 99} :
        IF Len(s) = 0 THEN result.percentiles[p] = 0 ELSE IsPercentile(result.percentiles[p], s, p)
  <2> TAKE p \in {50, 95, 99}
  <2>1. CASE Len(s) = 0
    <3>1. Sorted(s) = <<>>
      <4>1. PICK t \in Seq(Int) : t = Sorted(s) /\ Len(t) = 0
        BY <2>1, SortedIs
      <4>2. t = <<>>
        BY <4>1
      <4> QED BY <4>1, <4>2
    <3> QED BY <1>5, <2>1, <3>1 DEF Percentile
  <2>2. CASE Len(s) # 0
    BY <1>5, <2>2, PercentileIs
  <2> QED BY <2>1, <2>2
<1>10. result.checksum =
         (k * SumOf([i \in 1 .. Len(s) |-> Magnitude(s[i])])
            + Len(s) * ((k * (k - 1)) \div 2) + k * ((Len(s) * (Len(s) - 1)) \div 2)) % ChecksumModulo
  BY <1>5, ChecksumAdds DEF Magnitudes, Triangle
<1>11. IsResult(in, result)
  BY <1>2, <1>5, <1>7, <1>8, <1>9, <1>10 DEF IsResult
<1> QED BY <1>1, <1>4, <1>11

(* What a worker answers is the result of the calculation, and it is right *)
(* for all inputs that are accepted.                                       *)
THEOREM CalculationStaysRight == Spec => []CalculationIsRight
<1>1. EveryResultIsRight
  <2> SUFFICES ASSUME NEW in \in Inputs PROVE IsResult(in, CalculateActivity(in))
    BY DEF EveryResultIsRight
  <2>1. PICK s \in BoundedSeq(Samples, MaxSampleCount), b \in 1 .. MaxBucketCount, k \in 1 .. MaxIterations :
          in = Input(s, b, k)
    BY DEF Inputs
  <2>2. s \in Seq(Int)
    <3>1. PICK n \in 0 .. MaxSampleCount : s \in [1 .. n -> Samples]
      BY <2>1 DEF BoundedSeq, SeqOf
    <3>2. MaxSampleCount \in Nat /\ Samples \subseteq Int
      BY CalculationAssumption
    <3>3. n \in Nat
      BY <3>2
    <3>4. s \in [1 .. n -> Int]
      BY <3>1, <3>2
    <3> QED BY <3>3, <3>4
  <2>3. b \in Nat \ {0} /\ k \in Nat
    BY <2>1
  <2> QED BY <2>1, <2>2, <2>3, ResultsAreRight
<1>2. CalculationIsRight
  BY <1>1 DEF CalculationIsRight
<1> QED BY <1>2, PTL

=============================================================================
