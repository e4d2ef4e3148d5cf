--------------------------- MODULE AdminFeedProofs ---------------------------
(***************************************************************************)
(* Proofs about AdminFeed, for every value of its constants.               *)
(***************************************************************************)
EXTENDS AdminFeed, SequenceTheorems, FiniteSetTheorems, TLAPS

-----------------------------------------------------------------------------
(* Positions in a list                                                     *)

(* A set of natural numbers has a least element, unless it is empty. *)
LEMMA LeastNatural ==
    ASSUME NEW T, T \subseteq Nat, T # {}
    PROVE  \E x \in T : \A y \in T : x <= y
<1> DEFINE R == OpToRel(<, Nat)
<1>1. IsWellFoundedOn(R, Nat)
  BY NatLessThanWellFounded
<1>2. \A x, y \in Nat : <<y, x>> \in R <=> y < x
  BY DEF OpToRel
<1> HIDE DEF R
<1>3. PICK x \in T : \A y \in T : ~ (<<y, x>> \in R)
  BY <1>1, WFMin
<1>4. ASSUME NEW y \in T PROVE x <= y
  <2>1. x \in Nat /\ y \in Nat
    OBVIOUS
  <2>2. ~(y < x)
    BY <1>2, <1>3, <2>1
  <2> QED BY <2>1, <2>2
<1> QED BY <1>3, <1>4

(* Induction, for a set of numbers instead of a property of them. *)
LEMMA EveryNatural ==
    ASSUME NEW T, 0 \in T, \A n \in Nat : n \in T => n + 1 \in T
    PROVE  Nat \subseteq T
<1> SUFFICES ASSUME ~(Nat \subseteq T) PROVE FALSE
  OBVIOUS
<1>1. PICK x \in Nat \ T : \A y \in Nat \ T : x <= y
  <2>1. Nat \ T # {} /\ Nat \ T \subseteq Nat
    OBVIOUS
  <2> QED BY <2>1, LeastNatural
<1>2. x # 0
  BY <1>1
<1>3. x - 1 \in Nat /\ ~(x <= x - 1) /\ (x - 1) + 1 = x
  BY <1>2
<1>4. x - 1 \in T
  BY <1>1, <1>3
<1> QED BY <1>1, <1>3, <1>4

(* f goes through the numbers in S from the least to the greatest. *)
Counts(f, S) ==
    /\ f \in Surjection(1 .. Cardinality(S), S)
    /\ \A m, n \in DOMAIN f : m < n => f[m] < f[n]

(* Every set of positions can be counted up. *)
LEMMA CanCount ==
    ASSUME NEW N \in Nat, NEW S, S \subseteq 1 .. N
    PROVE  IsFiniteSet(S) /\ \E f : Counts(f, S)
<1> DEFINE T == {n \in Nat : \A U \in SUBSET (1 .. n) : IsFiniteSet(U) /\ \E f : Counts(f, U)}
<1>1. 0 \in T
  <2>1. ASSUME NEW U \in SUBSET (1 .. 0) PROVE IsFiniteSet(U) /\ \E f : Counts(f, U)
    <3>1. U = {}
      OBVIOUS
    <3>2. IsFiniteSet(U) /\ Cardinality(U) = 0
      BY <3>1, FS_EmptySet
    <3> DEFINE f == [n \in 1 .. 0 |-> n]
    <3>3. Counts(f, U)
      BY <3>1, <3>2 DEF Counts, Surjection
    <3> QED BY <3>2, <3>3
  <2> QED BY <2>1
<1>2. ASSUME NEW n \in Nat, n \in T PROVE n + 1 \in T
  <2>1. ASSUME NEW U \in SUBSET (1 .. (n + 1)) PROVE IsFiniteSet(U) /\ \E f : Counts(f, U)
    <3> DEFINE V == U \ {n + 1}
    <3>1. V \in SUBSET (1 .. n)
      OBVIOUS
    <3>2. PICK g : Counts(g, V)
      BY <1>2, <3>1
    <3>3. IsFiniteSet(V)
      BY <1>2, <3>1
    <3>4. CASE n + 1 \notin U
      <4>1. V = U
        BY <3>4
      <4> QED BY <3>2, <3>3, <4>1
    <3>5. CASE n + 1 \in U
      <4> DEFINE c == Cardinality(V)
                 f == [m \in 1 .. (c + 1) |-> IF m = c + 1 THEN n + 1 ELSE g[m]]
      <4>1. U = V \union {n + 1} /\ n + 1 \notin V
        BY <3>5
      <4>2. IsFiniteSet(U) /\ Cardinality(U) = c + 1 /\ c \in Nat
        <5>1. c \in Nat
          BY <3>3, FS_CardinalityType
        <5>2. IsFiniteSet(V \union {n + 1}) /\ Cardinality(V \union {n + 1}) = c + 1
          BY <3>3, <4>1, FS_AddElement
        <5> QED BY <4>1, <5>1, <5>2
      <4>3. g \in [1 .. c -> V] /\ (\A t \in V : \E s \in 1 .. c : g[s] = t)
            /\ \A m, l \in 1 .. c : m < l => g[m] < g[l]
        BY <3>2 DEF Counts, Surjection
      <4> HIDE DEF c, V
      <4>4. f \in [1 .. (c + 1) -> U]
        BY <4>1, <4>2, <4>3
      <4>5. \A t \in U : \E s \in 1 .. (c + 1) : f[s] = t
        <5>1. f[c + 1] = n + 1 /\ c + 1 \in 1 .. (c + 1)
          BY <4>2
        <5>2. \A s \in 1 .. c : s \in 1 .. (c + 1) /\ f[s] = g[s]
          BY <4>2
        <5> HIDE DEF f
        <5> QED BY <4>1, <4>3, <5>1, <5>2
      <4>6. ASSUME NEW m \in 1 .. (c + 1), NEW l \in 1 .. (c + 1), m < l PROVE f[m] < f[l]
        <5>1. m \in 1 .. c /\ f[m] = g[m] /\ g[m] \in V
          BY <4>2, <4>3, <4>6
        <5>2. CASE l = c + 1
          <6>1. f[l] = n + 1 /\ g[m] \in 1 .. n
            BY <3>1, <4>2, <5>1, <5>2 DEF V
          <6> QED BY <5>1, <6>1
        <5>3. CASE l # c + 1
          BY <4>2, <4>3, <4>6, <5>1, <5>3
        <5> QED BY <5>2, <5>3
      <4>7. Counts(f, U)
        BY <4>2, <4>4, <4>5, <4>6 DEF Counts, Surjection
      <4> QED BY <4>2, <4>7
    <3> QED BY <3>4, <3>5
  <2> QED BY <2>1
<1>3. N \in T
  <2> HIDE DEF T
  <2> QED BY <1>1, <1>2, EveryNatural
<1> QED BY <1>3

LEMMA AscendingCounts ==
    ASSUME NEW N \in Nat, NEW S, S \subseteq 1 .. N
    PROVE  Counts(Ascending(S), S) /\ Cardinality(S) \in Nat
<1>1. Cardinality(S) \in Nat
  BY CanCount, FS_CardinalityType
<1>2. \E f \in Surjection(1 .. Cardinality(S), S) : \A m, n \in DOMAIN f : m < n => f[m] < f[n]
  BY CanCount DEF Counts
<1> QED BY <1>1, <1>2 DEF Ascending, Counts

(* A list without its items about e: the others, in their order; and those *)
(* of the first k are still the first.                                     *)
LEMMA WithoutKeeps ==
    ASSUME NEW list \in Seq(Record), NEW e, NEW k \in 0 .. Len(list)
    PROVE  LET rest == Without(list, e) IN
           /\ rest \in Seq(Record)
           /\ \E g \in [1 .. Len(rest) -> 1 .. Len(list)], j \in 0 .. Len(rest) :
                /\ \A n \in 1 .. Len(rest) : rest[n] = list[g[n]] /\ rest[n].event # e
                /\ \A m, n \in 1 .. Len(rest) : m # n => g[m] # g[n]
                /\ \A m \in 1 .. Len(list) : list[m].event # e => \E n \in 1 .. Len(rest) : g[n] = m
                /\ \A n \in 1 .. Len(rest) : n <= j <=> g[n] <= k
<1> DEFINE S == {n \in DOMAIN list : list[n].event # e}
           c == Cardinality(S)
           g == Ascending(S)
           rest == Without(list, e)
<1>1. DOMAIN list = 1 .. Len(list) /\ Len(list) \in Nat /\ \A n \in 1 .. Len(list) : list[n] \in Record
  BY LenProperties, ElementOfSeq
<1>2. Counts(g, S) /\ c \in Nat
  BY <1>1, AscendingCounts
<1>3. /\ g \in [1 .. c -> S]
      /\ \A m \in S : \E n \in 1 .. c : g[n] = m
      /\ \A m, n \in 1 .. c : m < n => g[m] < g[n]
  BY <1>2 DEF Counts, Surjection
<1>4. rest = [n \in 1 .. c |-> list[g[n]]]
  BY <1>3 DEF Without
<1>5. \A n \in 1 .. c : g[n] \in 1 .. Len(list) /\ list[g[n]].event # e
  BY <1>1, <1>3
<1>6. \A m \in 1 .. Len(list) : list[m].event # e => \E n \in 1 .. c : g[n] = m
  BY <1>1, <1>3
<1> HIDE DEF S, c, g, rest
<1>7. rest \in Seq(Record) /\ Len(rest) = c /\ \A n \in 1 .. c : rest[n] = list[g[n]]
  <2>1. rest \in [1 .. c -> Record]
    BY <1>1, <1>4, <1>5
  <2>2. rest \in Seq(Record)
    BY <1>2, <2>1, SeqDef
  <2>3. Len(rest) = c
    <3>1. DOMAIN rest = 1 .. c /\ DOMAIN rest = 1 .. Len(rest) /\ Len(rest) \in Nat
      BY <2>1, <2>2, LenProperties
    <3> QED BY <1>2, <3>1
  <2> QED BY <1>4, <2>2, <2>3
<1>8. \A m, n \in 1 .. c : m # n => g[m] # g[n]
  <2> SUFFICES ASSUME NEW m \in 1 .. c, NEW n \in 1 .. c, m # n PROVE g[m] # g[n]
    OBVIOUS
  <2>1. g[m] \in Nat /\ g[n] \in Nat
    BY <1>5
  <2>2. m < n \/ n < m
    OBVIOUS
  <2>3. g[m] < g[n] \/ g[n] < g[m]
    BY <1>3, <2>2
  <2> QED BY <2>1, <2>3
(* The first position beyond k *)
<1>9. \E j \in 0 .. c : \A n \in 1 .. c : n <= j <=> g[n] <= k
  <2> DEFINE T == {n \in 0 .. c : n = c \/ g[n + 1] > k}
  <2>1. PICK j \in T : \A n \in T : j <= n
    <3>1. c \in T /\ T \subseteq Nat
      BY <1>2
    <3> QED BY <3>1, LeastNatural
  <2>2. j \in 0 .. c
    OBVIOUS
  <2>3. ASSUME NEW n \in 1 .. c, n <= j PROVE g[n] <= k
    <3>1. n - 1 \in 0 .. c /\ n - 1 # c /\ (n - 1) + 1 = n /\ ~(j <= n - 1)
      BY <1>2, <2>2, <2>3
    <3>2. n - 1 \notin T
      BY <2>1, <3>1
    <3>3. ~(g[n] > k)
      BY <3>1, <3>2
    <3> QED BY <1>5, <3>3
  <2>4. ASSUME NEW n \in 1 .. c, ~(n <= j) PROVE ~(g[n] <= k)
    <3>1. j + 1 \in 1 .. c /\ j # c /\ (n = j + 1 \/ j + 1 < n)
      BY <1>2, <2>2, <2>4
    <3>2. g[j + 1] > k
      BY <3>1
    <3>3. g[j + 1] <= g[n]
      BY <1>3, <1>5, <3>1
    <3> QED BY <1>5, <3>1, <3>2, <3>3
  <2> QED BY <2>2, <2>3, <2>4
<1>10. PICK j \in 0 .. c : \A n \in 1 .. c : n <= j <=> g[n] <= k
  BY <1>9
<1>11. g \in [1 .. c -> 1 .. Len(list)]
  BY <1>3, <1>5
<1>12. rest \in Seq(Record)
       /\ \E h \in [1 .. Len(rest) -> 1 .. Len(list)], l \in 0 .. Len(rest) :
                /\ \A n \in 1 .. Len(rest) : rest[n] = list[h[n]] /\ rest[n].event # e
                /\ \A m, n \in 1 .. Len(rest) : m # n => h[m] # h[n]
                /\ \A m \in 1 .. Len(list) : list[m].event # e => \E n \in 1 .. Len(rest) : h[n] = m
                /\ \A n \in 1 .. Len(rest) : n <= l <=> h[n] <= k
  <2>1. \A n \in 1 .. c : rest[n] = list[g[n]] /\ rest[n].event # e
    BY <1>5, <1>7
  <2>2. rest \in Seq(Record) /\ Len(rest) = c
    BY <1>7
  <2> QED BY <1>6, <1>8, <1>10, <1>11, <2>1, <2>2, Zenon
<1> QED BY <1>12 DEF rest

-----------------------------------------------------------------------------
(* Lists of recent activity                                                *)

LEMMA TruncateKeeps ==
    ASSUME NEW S, NEW s \in Seq(S)
    PROVE  LET t == Truncate(s) IN
           /\ t \in Seq(S)
           /\ Len(t) = IF Len(s) < Capacity THEN Len(s) ELSE Capacity
           /\ \A n \in 1 .. Len(t) : t[n] = s[n]
<1> DEFINE c == IF Len(s) < Capacity THEN Len(s) ELSE Capacity
<1>1. Len(s) \in Nat /\ Capacity \in Nat \ {0} /\ \A n \in 1 .. Len(s) : s[n] \in S
  BY LenProperties, ElementOfSeq, CapacityAssumption
<1>2. c \in Nat /\ c <= Len(s)
  BY <1>1
<1>3. Truncate(s) = SubSeq(s, 1, c)
  BY DEF Truncate
<1> HIDE DEF c
<1>4. \A n \in 1 .. c : s[n] \in S
  BY <1>1, <1>2
<1>5. /\ SubSeq(s, 1, c) \in Seq(S)
      /\ Len(SubSeq(s, 1, c)) = IF 1 <= c THEN c - 1 + 1 ELSE 0
      /\ \A n \in 1 .. c - 1 + 1 : SubSeq(s, 1, c)[n] = s[1 + n - 1]
  <2>1. c \in Int /\ 1 \in Int
    BY <1>2
  <2> QED BY <1>4, <2>1, SubSeqProperties
<1>6. Len(SubSeq(s, 1, c)) = c /\ c - 1 + 1 = c
  BY <1>2, <1>5
<1>7. \A n \in 1 .. c : SubSeq(s, 1, c)[n] = s[n]
  BY <1>2, <1>5
<1> QED BY <1>3, <1>5, <1>6, <1>7 DEF c

(* An item put in front of a list pushes at most the last one out. *)
LEMMA PutInFront ==
    ASSUME NEW s \in Seq(Record), NEW x \in Record
    PROVE  LET t == Truncate(<<x>> \o s) IN
           /\ t \in Seq(Record)
           /\ Len(t) = IF Len(s) + 1 < Capacity THEN Len(s) + 1 ELSE Capacity
           /\ t[1] = x
           /\ \A n \in 2 .. Len(t) : n - 1 \in 1 .. Len(s) /\ t[n] = s[n - 1]
<1> DEFINE u == <<x>> \o s
           t == Truncate(u)
<1>1. Len(s) \in Nat /\ Capacity \in Nat \ {0}
  BY LenProperties, CapacityAssumption
<1>2. u \in Seq(Record) /\ Len(u) = Len(s) + 1 /\ u[1] = x /\ \A n \in 2 .. Len(s) + 1 : u[n] = s[n - 1]
  <2>1. <<x>> \in Seq(Record) /\ Len(<<x>>) = 1 /\ <<x>>[1] = x
    OBVIOUS
  <2> HIDE DEF u
  <2>2. /\ u \in Seq(Record) /\ Len(u) = Len(<<x>>) + Len(s)
        /\ \A n \in 1 .. Len(<<x>>) + Len(s) :
              u[n] = IF n <= Len(<<x>>) THEN <<x>>[n] ELSE s[n - Len(<<x>>)]
    BY <2>1, ConcatProperties DEF u
  <2> QED BY <1>1, <2>1, <2>2
<1> HIDE DEF u
<1>3. /\ t \in Seq(Record)
      /\ Len(t) = IF Len(u) < Capacity THEN Len(u) ELSE Capacity
      /\ \A n \in 1 .. Len(t) : t[n] = u[n]
  BY <1>2, TruncateKeeps
<1> HIDE DEF t
<1>4. Len(t) = IF Len(s) + 1 < Capacity THEN Len(s) + 1 ELSE Capacity
  BY <1>2, <1>3
<1>5. Len(t) \in Nat \ {0} /\ Len(t) <= Len(s) + 1
  BY <1>1, <1>4
<1>6. t[1] = x
  BY <1>2, <1>3, <1>5
<1>7. \A n \in 2 .. Len(t) : n - 1 \in 1 .. Len(s) /\ t[n] = s[n - 1]
  BY <1>1, <1>2, <1>3, <1>5
<1> QED BY <1>3, <1>4, <1>6, <1>7 DEF t, u

(* The first k items are about different events of P, each of which the    *)
(* list has no other item about.                                           *)
Fresh(list, k, P) ==
    /\ \A n \in 1 .. k : list[n].event \in P
    /\ \A n \in 1 .. k, m \in 1 .. Len(list) : m # n => list[m].event # list[n].event

(* Merging an item keeps the fresh items of a list in front, behind the    *)
(* new one, and loses one only when the list is full of them.              *)
LEMMA MergeShows ==
    ASSUME NEW list \in Seq(Record), NEW r \in Record, NEW k \in 0 .. Len(list),
           NEW P, r.event \in P, Fresh(list, k, P)
    PROVE  LET new == MergeRecentActivity(list, r) IN
           /\ new \in Seq(Record) /\ Len(new) <= Capacity
           /\ \E l \in 1 .. Len(new) :
                /\ Fresh(new, l, P)
                /\ new[1].event = r.event
                /\ l = Capacity \/ \A n \in 1 .. k : \E m \in 1 .. l : new[m].event = list[n].event
<1> DEFINE rest == Without(list, r.event)
           new == MergeRecentActivity(list, r)
<1>1. /\ rest \in Seq(Record)
      /\ \E g \in [1 .. Len(rest) -> 1 .. Len(list)], j \in 0 .. Len(rest) :
           /\ \A n \in 1 .. Len(rest) : rest[n] = list[g[n]] /\ rest[n].event # r.event
           /\ \A m, n \in 1 .. Len(rest) : m # n => g[m] # g[n]
           /\ \A m \in 1 .. Len(list) : list[m].event # r.event => \E n \in 1 .. Len(rest) : g[n] = m
           /\ \A n \in 1 .. Len(rest) : n <= j <=> g[n] <= k
  BY WithoutKeeps
<1> HIDE DEF rest
<1>2. PICK g \in [1 .. Len(rest) -> 1 .. Len(list)], j \in 0 .. Len(rest) :
           /\ \A n \in 1 .. Len(rest) : rest[n] = list[g[n]] /\ rest[n].event # r.event
           /\ \A m, n \in 1 .. Len(rest) : m # n => g[m] # g[n]
           /\ \A m \in 1 .. Len(list) : list[m].event # r.event => \E n \in 1 .. Len(rest) : g[n] = m
           /\ \A n \in 1 .. Len(rest) : n <= j <=> g[n] <= k
  BY <1>1
<1>3. /\ new \in Seq(Record)
      /\ Len(new) = IF Len(rest) + 1 < Capacity THEN Len(rest) + 1 ELSE Capacity
      /\ new[1] = r
      /\ \A n \in 2 .. Len(new) : n - 1 \in 1 .. Len(rest) /\ new[n] = rest[n - 1]
  <2>1. rest \in Seq(Record)
    BY <1>1
  <2>2. new = Truncate(<<r>> \o rest)
    BY DEF MergeRecentActivity, rest
  <2>3. LET t == Truncate(<<r>> \o rest) IN
        /\ t \in Seq(Record)
        /\ Len(t) = IF Len(rest) + 1 < Capacity THEN Len(rest) + 1 ELSE Capacity
        /\ t[1] = r
        /\ \A n \in 2 .. Len(t) : n - 1 \in 1 .. Len(rest) /\ t[n] = rest[n - 1]
    BY <2>1, PutInFront
  <2> HIDE DEF new
  <2> QED BY <2>2, <2>3
<1> HIDE DEF new
<1>4. Len(rest) \in Nat /\ Len(list) \in Nat /\ Capacity \in Nat \ {0}
  BY <1>1, LenProperties, CapacityAssumption
<1> DEFINE l == IF j + 1 < Capacity THEN j + 1 ELSE Capacity
<1>5. l \in 1 .. Len(new) /\ l <= j + 1 /\ Len(new) <= Capacity /\ Len(new) \in Nat \ {0}
  BY <1>3, <1>4
<1>6. l = j + 1 \/ l = Capacity
  OBVIOUS
<1> HIDE DEF l
<1>7. ASSUME NEW n \in 2 .. Len(new)
      PROVE  /\ new[n] = list[g[n - 1]] /\ new[n].event # r.event /\ g[n - 1] \in 1 .. Len(list)
             /\ n <= l => g[n - 1] \in 1 .. k
  <2>1. n - 1 \in 1 .. Len(rest) /\ new[n] = rest[n - 1]
    BY <1>3
  <2>2. new[n] = list[g[n - 1]] /\ new[n].event # r.event /\ g[n - 1] \in 1 .. Len(list)
    BY <1>2, <2>1
  <2>3. ASSUME n <= l PROVE g[n - 1] \in 1 .. k
    <3>1. n - 1 <= j
      BY <1>5, <2>3
    <3>2. g[n - 1] <= k
      BY <1>2, <2>1, <3>1
    <3> QED BY <2>2, <3>2
  <2> QED BY <2>2, <2>3
<1>8. Fresh(new, l, P)
  <2>1. ASSUME NEW n \in 1 .. l PROVE new[n].event \in P
    <3>1. CASE n = 1
      BY <1>3, <3>1
    <3>2. CASE n # 1
      <4>1. n \in 2 .. Len(new) /\ n <= l
        BY <1>5, <3>2
      <4>2. new[n] = list[g[n - 1]] /\ g[n - 1] \in 1 .. k
        BY <1>7, <4>1
      <4> QED BY <4>2 DEF Fresh
    <3> QED BY <3>1, <3>2
  <2>2. ASSUME NEW n \in 1 .. l, NEW m \in 1 .. Len(new), m # n PROVE new[m].event # new[n].event
    <3>1. (n = 1 \/ n \in 2 .. Len(new)) /\ n <= l /\ (m = 1 \/ m \in 2 .. Len(new))
      BY <1>5
    <3>2. CASE n = 1
      BY <1>3, <1>7, <2>2, <3>1, <3>2
    <3>3. CASE m = 1
      BY <1>3, <1>7, <2>2, <3>1, <3>3
    <3>4. CASE n \in 2 .. Len(new) /\ m \in 2 .. Len(new)
      <4>1. /\ new[n] = list[g[n - 1]] /\ g[n - 1] \in 1 .. k
            /\ new[m] = list[g[m - 1]] /\ g[m - 1] \in 1 .. Len(list)
        BY <1>7, <3>1, <3>4
      <4>2. n - 1 \in 1 .. Len(rest) /\ m - 1 \in 1 .. Len(rest)
        BY <1>3, <3>4
      <4>3. n - 1 # m - 1
        BY <2>2
      <4>4. g[n - 1] # g[m - 1]
        BY <1>2, <4>2, <4>3
      <4> QED BY <4>1, <4>4 DEF Fresh
    <3> QED BY <3>1, <3>2, <3>3, <3>4
  <2> QED BY <2>1, <2>2 DEF Fresh
<1>9. ASSUME l # Capacity, NEW n \in 1 .. k PROVE \E m \in 1 .. l : new[m].event = list[n].event
  <2>0. n \in 1 .. Len(list) /\ l = j + 1
    BY <1>4, <1>6, <1>9
  <2>1. CASE list[n].event = r.event
    BY <1>3, <1>5, <2>1
  <2>2. CASE list[n].event # r.event
    <3>1. PICK q \in 1 .. Len(rest) : g[q] = n
      BY <1>2, <2>0, <2>2
    <3>2. g[q] <= k
      BY <3>1
    <3>3. q <= j
      BY <1>2, <3>1, <3>2
    <3>4. q + 1 \in 1 .. l /\ q + 1 \in 2 .. Len(new) /\ (q + 1) - 1 = q
      BY <1>5, <2>0, <3>3
    <3>5. new[q + 1] = list[n]
      BY <1>7, <3>1, <3>4
    <3> QED BY <3>4, <3>5
  <2> QED BY <2>1, <2>2
<1>10. new[1].event = r.event
  BY <1>3
<1>11. /\ new \in Seq(Record) /\ Len(new) <= Capacity
       /\ \E x \in 1 .. Len(new) :
            /\ Fresh(new, x, P)
            /\ new[1].event = r.event
            /\ x = Capacity \/ \A n \in 1 .. k : \E m \in 1 .. x : new[m].event = list[n].event
  BY <1>3, <1>5, <1>8, <1>9, <1>10
<1> QED BY <1>11 DEF new

-----------------------------------------------------------------------------
(* The accept script                                                       *)

LEMMA EnvelopeType ==
    ASSUME NEW e \in EventId
    PROVE  /\ Envelope[e] \in ValidEnvelope
           /\ Envelope[e].tenant \in Tenant /\ Envelope[e].tenant # None
           /\ Envelope[e].auction \in Auction
           /\ Envelope[e].value \in Value \union {None}
           /\ VersionOf(e) \in Nat \ {0}
           /\ KeyOf(e) \in Key
  BY EnvelopeAssumption, NoneAssumption DEF ValidEnvelope, VersionOf, KeyOf, Key

LEMMA ProjectedType ==
    ASSUME NEW p \in Projection, NEW e \in EventId
    PROVE  Projected(p, Envelope[e]) \in Projection
<1> DEFINE env == Envelope[e]
<1>1. NewStatus(p, env) \in {"none", "Closed", "Cancelled"}
  BY DEF NewStatus, Projection
<1>2. env.version \in Nat /\ env.value \in Value \union {None}
  BY EnvelopeType DEF VersionOf
<1>3. p.currentBid \in Value \union {None} /\ p.final \in Value \union {None} /\ p.purchased \in BOOLEAN
  BY DEF Projection
<1> HIDE DEF env
<1>4. Projected(p, env) \in Projection
  BY <1>1, <1>2, <1>3 DEF Projected, Projection
<1> QED BY <1>4 DEF env

(* The state has reached the version of e. *)
Reached(e) == VersionOf(e) <= version[KeyOf(e)]

(* The script keeps the types and what was reached; it reaches the event,  *)
(* and applies only one that it does not remember.                         *)
LEMMA AcceptStep ==
    ASSUME StateTypeOK, NEW e \in EventId, AcceptEvent(e), \A f \in processed : Reached(f)
    PROVE  /\ StateTypeOK'
           /\ processed' = processed \union {e}
           /\ \A f \in EventId : Reached(f) => Reached(f)'
           /\ Reached(e)'
           /\ Acceptance(e) \in Applied => e \notin processed
           /\ Acceptance(e) \in AcceptanceStatus
<1> USE EnvelopeType DEF StateTypeOK
<1>1. CASE Acceptance(e) = "duplicate" /\ UNCHANGED redisVars
  <2>1. e \in processed
    BY <1>1 DEF Acceptance
  <2> QED BY <1>1, <2>1 DEF redisVars, Applied, AcceptanceStatus, Reached, VersionOf, KeyOf
<1>2. CASE /\ Acceptance(e) = "stale"
           /\ Remember(e)
           /\ UNCHANGED <<version, projection>>
  <2>1. VersionOf(e) <= version[KeyOf(e)]
    BY <1>2 DEF Acceptance
  <2> QED BY <1>2, <2>1 DEF Remember, Applied, AcceptanceStatus, Reached, VersionOf, KeyOf
<1>3. CASE /\ Acceptance(e) \in Applied
           /\ Remember(e)
           /\ version' = [version EXCEPT ![KeyOf(e)] = VersionOf(e)]
           /\ projection' = [projection EXCEPT ![KeyOf(e)] = Projected(@, Envelope[e])]
  <2>1. e \notin processed /\ version[KeyOf(e)] <= VersionOf(e)
    BY <1>3 DEF Acceptance, Applied
  <2>2. version' \in [Key -> Nat] /\ \A k \in Key : version[k] <= version'[k]
    BY <1>3, <2>1
  <2>3. projection' \in [Key -> Projection]
    BY <1>3, ProjectedType
  <2>4. processed' = processed \union {e} /\ StateTypeOK'
    BY <1>3, <2>2, <2>3 DEF Remember
  <2>5. ASSUME NEW f \in EventId, Reached(f) PROVE Reached(f)'
    <3>1. KeyOf(f) \in Key /\ VersionOf(f) \in Nat
      OBVIOUS
    <3>2. version[KeyOf(f)] \in Nat /\ version'[KeyOf(f)] \in Nat /\ version[KeyOf(f)] <= version'[KeyOf(f)]
      BY <2>2, <3>1
    <3>3. VersionOf(f) <= version'[KeyOf(f)]
      BY <2>5, <3>1, <3>2 DEF Reached
    <3> QED BY <3>3 DEF Reached, VersionOf, KeyOf
  <2>6. version'[KeyOf(e)] = VersionOf(e)
    BY <1>3
  <2>7. Reached(e)'
    BY <2>6 DEF Reached, VersionOf, KeyOf
  <2> QED BY <1>3, <2>1, <2>4, <2>5, <2>7 DEF Applied, AcceptanceStatus
<1> QED BY <1>1, <1>2, <1>3 DEF AcceptEvent

-----------------------------------------------------------------------------
(* Type correctness                                                        *)

(* A handler holds a message once, and Redis is as far as every event it   *)
(* remembers.                                                              *)
HandlerInv ==
    /\ \A i \in Instance : \A m, n \in 1 .. Len(pending[i]) :
          m # n => pending[i][m][1] # pending[i][n][1]
    /\ \A e \in processed : Reached(e)

LEMMA InstanceNames ==
    ASSUME NEW i \in Instance
    PROVE  i # None /\ i # "ready" /\ i # "acked" /\ i # "dead"
  BY InstanceAssumption

LEMMA EventsHaveIds ==
    ASSUME NEW m \in Events
    PROVE  m \in Message /\ IdOf(m) \in EventId
  BY BodyAssumption DEF Events

LEMMA OutcomeType ==
    ASSUME NEW m \in Events, NEW status
    PROVE  [event |-> IdOf(m), outcome |-> OutcomeOf(status)] \in Record
  BY EventsHaveIds DEF Record, OutcomeOf

LEMMA MergeType ==
    ASSUME NEW list \in Seq(Record), NEW r \in Record
    PROVE  MergeRecentActivity(list, r) \in Seq(Record) /\ Len(MergeRecentActivity(list, r)) <= Capacity
<1>1. 0 \in 0 .. Len(list)
  BY LenProperties
<1>2. Fresh(list, 0, {r.event})
  BY DEF Fresh
<1> QED BY <1>1, <1>2, MergeShows

LEMMA ReceiveType ==
    ASSUME TypeOK, NEW i \in Instance, NEW r \in Record, Receive(i, r)
    PROVE  /\ shown' \in [Page -> Seq(Record)]
           /\ \A p \in Page : Len(shown'[p]) <= Capacity
           /\ deltas' \in [Chart -> [EventId -> Nat]]
<1>1. ASSUME NEW p \in Page
      PROVE  LET new == IF Hears(p, i, r, "activity") THEN MergeRecentActivity(shown[p], r) ELSE shown[p] IN
             new \in Seq(Record) /\ Len(new) <= Capacity
  BY MergeType DEF TypeOK
<1>2. ASSUME NEW c \in Chart
      PROVE  [deltas[c] EXCEPT ![r.event] = @ + 1] \in [EventId -> Nat] /\ deltas[c] \in [EventId -> Nat]
  <2>1. deltas[c] \in [EventId -> Nat] /\ r.event \in EventId
    BY DEF TypeOK, Record
  <2> QED BY <2>1
<1>3. deltas' \in [Chart -> [EventId -> Nat]]
  BY <1>2 DEF Receive
<1>4. shown' \in [Page -> Seq(Record)] /\ \A p \in Page : Len(shown'[p]) <= Capacity
  BY <1>1 DEF Receive
<1> QED BY <1>3, <1>4

LEMMA DecideType ==
    ASSUME TypeOK, HandlerInv, NEW i \in Instance, NEW m \in Message, Decide(i, m)
    PROVE  TypeOK' /\ HandlerInv'
<1> USE DEF TypeOK
<1>1. CASE /\ m \notin Events
           /\ broker' = [broker EXCEPT ![m] = "dead"]
           /\ UNCHANGED <<redisVars, pending>>
  <2>1. \A j \in Instance : \A n \in DOMAIN pending[j] : pending[j][n][1] # m
    <3> SUFFICES ASSUME NEW j \in Instance, NEW n \in DOMAIN pending[j], pending[j][n][1] = m PROVE FALSE
      OBVIOUS
    <3>1. broker[m] = j
      OBVIOUS
    <3> QED BY <3>1, InstanceNames DEF Decide
  <2>2. TypeOK'
    <3>1. broker' \in [Message -> {"ready", "acked", "dead"} \union Instance]
      BY <1>1
    <3>2. ASSUME NEW j \in Instance, NEW n \in DOMAIN pending[j] PROVE broker'[pending[j][n][1]] = j
      <4>1. pending[j][n] \in Events \X AcceptanceStatus
        BY ElementOfSeq, LenProperties
      <4>2. pending[j][n][1] \in Message
        BY <4>1 DEF Events
      <4> QED BY <1>1, <2>1, <4>2
    <3> QED BY <1>1, <3>1, <3>2 DEF Decide, redisVars, watcherVars, StateTypeOK
  <2> QED BY <1>1, <2>2 DEF HandlerInv, redisVars, Reached, VersionOf, KeyOf
<1>2. CASE /\ m \in Events
           /\ AcceptEvent(IdOf(m))
           /\ broker' = [broker EXCEPT ![m] = i]
           /\ pending' = [pending EXCEPT ![i] = Append(@, <<m, Acceptance(IdOf(m))>>)]
  <2> DEFINE x == <<m, Acceptance(IdOf(m))>>
             s == pending[i]
             t == Append(s, x)
  <2>1. /\ StateTypeOK' /\ processed' = processed \union {IdOf(m)}
        /\ \A f \in EventId : Reached(f) => Reached(f)'
        /\ Reached(IdOf(m))'
        /\ Acceptance(IdOf(m)) \in AcceptanceStatus
    BY <1>2, EventsHaveIds, AcceptStep DEF HandlerInv
  <2>2. x \in Events \X AcceptanceStatus /\ x[1] = m
    BY <1>2, <2>1
  <2>3. s \in Seq(Events \X AcceptanceStatus)
    OBVIOUS
  <2>4. pending'[i] = t /\ \A j \in Instance : j # i => pending'[j] = pending[j]
    BY <1>2
  <2> HIDE DEF x, s
  <2>5. /\ t \in Seq(Events \X AcceptanceStatus) /\ Len(t) = Len(s) + 1
        /\ t[Len(s) + 1] = x /\ \A n \in 1 .. Len(s) : t[n] = s[n]
        /\ Len(s) \in Nat /\ DOMAIN t = 1 .. Len(s) + 1 /\ DOMAIN s = 1 .. Len(s)
    <3>1. /\ t \in Seq(Events \X AcceptanceStatus) /\ Len(t) = Len(s) + 1
          /\ t[Len(s) + 1] = x /\ \A n \in 1 .. Len(s) : t[n] = s[n]
      BY <2>2, <2>3, AppendProperties
    <3> HIDE DEF t
    <3>2. DOMAIN t = 1 .. Len(t) /\ Len(s) \in Nat /\ DOMAIN s = 1 .. Len(s)
      BY <2>3, <3>1, LenProperties
    <3> QED BY <3>1, <3>2
  <2> HIDE DEF t
  <2>6. ASSUME NEW j \in Instance, NEW n \in DOMAIN pending[j]
        PROVE  pending[j][n][1] \in Message /\ pending[j][n][1] # m /\ broker'[pending[j][n][1]] = j
    <3>1. pending[j][n] \in Events \X AcceptanceStatus
      BY ElementOfSeq, LenProperties
    <3>2. pending[j][n][1] \in Message
      BY <3>1 DEF Events
    <3>3. broker[pending[j][n][1]] = j /\ broker[m] = "ready"
      BY DEF Decide
    <3> QED BY <1>2, <3>2, <3>3, InstanceNames
  <2>7. \A n \in 1 .. Len(s) : s[n][1] # m /\ broker'[s[n][1]] = i
    BY <2>5, <2>6 DEF s
  <2>8. broker' \in [Message -> {"ready", "acked", "dead"} \union Instance] /\ broker'[m] = i
    BY <1>2
  <2>9. ASSUME NEW j \in Instance, NEW n \in DOMAIN pending'[j] PROVE broker'[pending'[j][n][1]] = j
    <3>1. CASE j # i
      BY <2>4, <2>6, <2>9, <3>1
    <3>2. CASE j = i
      <4>1. n \in DOMAIN t
        BY <2>4, <2>9, <3>2
      <4>2. n \in 1 .. Len(s) \/ n = Len(s) + 1
        BY <2>5, <4>1
      <4>3. broker'[t[n][1]] = i
        BY <2>2, <2>5, <2>7, <2>8, <4>2
      <4> QED BY <2>4, <3>2, <4>3
    <3> QED BY <3>1, <3>2
  <2>10. pending' \in [Instance -> Seq(Events \X AcceptanceStatus)]
    BY <1>2, <2>4, <2>5 DEF t, x, s
  <2>11. TypeOK'
    BY <2>1, <2>8, <2>9, <2>10 DEF Decide, watcherVars
  <2>12. ASSUME NEW j \in Instance, NEW k \in 1 .. Len(pending'[j]), NEW n \in 1 .. Len(pending'[j]), k # n
         PROVE  pending'[j][k][1] # pending'[j][n][1]
    <3>1. CASE j # i
      BY <2>4, <2>12, <3>1 DEF HandlerInv
    <3>2. CASE j = i
      <4>1. k \in 1 .. Len(t) /\ n \in 1 .. Len(t)
        BY <2>4, <2>12, <3>2
      <4>2. (k \in 1 .. Len(s) \/ k = Len(s) + 1) /\ (n \in 1 .. Len(s) \/ n = Len(s) + 1)
        BY <2>5, <4>1
      <4>3. \A a, b \in 1 .. Len(s) : a # b => s[a][1] # s[b][1]
        BY DEF HandlerInv, s
      <4>4. t[k][1] # t[n][1]
        BY <2>2, <2>5, <2>7, <2>12, <4>2, <4>3
      <4> QED BY <2>4, <3>2, <4>4
    <3> QED BY <3>1, <3>2
  <2>13. \A e \in processed' : Reached(e)'
    <3>1. \A e \in processed : e \in EventId /\ Reached(e)
      BY DEF HandlerInv, StateTypeOK
    <3> QED BY <2>1, <3>1
  <2> QED BY <2>11, <2>12, <2>13 DEF HandlerInv
<1> QED BY <1>1, <1>2 DEF Decide

LEMMA ObserveType ==
    ASSUME TypeOK, HandlerInv, NEW i \in Instance, Observe(i)
    PROVE  TypeOK' /\ HandlerInv'
<1> DEFINE s == pending[i]
           m == Head(s)[1]
           record == [event |-> IdOf(m), outcome |-> OutcomeOf(Head(s)[2])]
<1>1. s \in Seq(Events \X AcceptanceStatus) /\ s # <<>>
  BY DEF TypeOK, Observe
<1>2. Head(s) \in Events \X AcceptanceStatus /\ m \in Events /\ Head(s) = s[1]
  BY <1>1, HeadTailProperties
<1>3. record \in Record
  BY <1>2, OutcomeType
<1>4. /\ recent' = [recent EXCEPT ![i] = Truncate(<<record>> \o @)]
      /\ log' = [log EXCEPT ![i] = Append(@, record)]
      /\ wire' = [c \in Instance \X Instance |->
           IF c[1] = i /\ c[2] # i THEN Append(wire[c], record) ELSE wire[c]]
      /\ Receive(i, record)
      /\ since' = [w \in Watcher |-> IF w \in joined THEN since[w] \union {record} ELSE {}]
      /\ broker' = [broker EXCEPT ![m] = "acked"]
      /\ pending' = [pending EXCEPT ![i] = Tail(@)]
      /\ UNCHANGED <<redisVars, watcherVars, crashes>>
  BY DEF Observe
<1>5. /\ Tail(s) \in Seq(Events \X AcceptanceStatus) /\ Len(s) \in Nat \ {0} /\ Len(Tail(s)) = Len(s) - 1
      /\ \A n \in 1 .. Len(s) - 1 : Tail(s)[n] = s[n + 1]
      /\ DOMAIN Tail(s) = 1 .. Len(s) - 1
  <2>1. /\ Tail(s) \in Seq(Events \X AcceptanceStatus) /\ Len(Tail(s)) = Len(s) - 1
        /\ \A n \in 1 .. Len(Tail(s)) : Tail(s)[n] = s[n + 1]
    BY <1>1, HeadTailProperties
  <2>2. Len(s) \in Nat \ {0} /\ DOMAIN Tail(s) = 1 .. Len(Tail(s))
    BY <1>1, <2>1, LenProperties, EmptySeq
  <2> QED BY <2>1, <2>2
<1>6. \A j \in Instance : pending'[j] = IF j = i THEN Tail(s) ELSE pending[j]
  BY <1>4 DEF TypeOK
<1>7. \A a, b \in 1 .. Len(s) : a # b => s[a][1] # s[b][1]
  BY DEF HandlerInv
<1>8. \A n \in 1 .. Len(s) : s[n] \in Events \X AcceptanceStatus /\ s[n][1] \in Message /\ broker[s[n][1]] = i
  <2>1. \A n \in 1 .. Len(s) : s[n] \in Events \X AcceptanceStatus
    BY <1>1, ElementOfSeq
  <2>2. \A n \in 1 .. Len(s) : s[n][1] \in Events
    BY <2>1
  <2>3. DOMAIN s = 1 .. Len(s)
    BY <1>1, LenProperties
  <2> QED BY <2>1, <2>2, <2>3, EventsHaveIds DEF TypeOK
<1>9. m = s[1][1] /\ m \in Message /\ broker[m] = i
  BY <1>2, <1>5, <1>8
<1> HIDE DEF s, m, record
<1>10. broker' \in [Message -> {"ready", "acked", "dead"} \union Instance]
       /\ \A l \in Message : l # m => broker'[l] = broker[l]
  BY <1>4, <1>9 DEF TypeOK
<1>11. ASSUME NEW j \in Instance, NEW n \in DOMAIN pending'[j] PROVE broker'[pending'[j][n][1]] = j
  <2>1. CASE j # i
    <3>1. pending'[j] = pending[j] /\ n \in DOMAIN pending[j] /\ broker[pending[j][n][1]] = j
      BY <1>6, <1>11, <2>1 DEF TypeOK
    <3>2. pending[j][n] \in Events \X AcceptanceStatus
      BY <3>1, ElementOfSeq, LenProperties DEF TypeOK
    <3>3. pending[j][n][1] \in Message /\ pending[j][n][1] # m
      BY <1>9, <2>1, <3>1, <3>2 DEF Events
    <3> QED BY <1>10, <3>1, <3>3
  <2>2. CASE j = i
    <3>1. n \in 1 .. Len(s) - 1
      BY <1>5, <1>6, <1>11, <2>2
    <3>2. n + 1 \in 1 .. Len(s) /\ 1 \in 1 .. Len(s) /\ n + 1 # 1 /\ Tail(s)[n] = s[n + 1]
      BY <1>5, <3>1
    <3>3. pending'[j] = Tail(s)
      BY <1>6, <2>2
    <3>4. s[n + 1][1] # m
      BY <1>7, <1>9, <3>2
    <3> QED BY <1>8, <1>10, <2>2, <3>2, <3>3, <3>4
  <2> QED BY <2>1, <2>2
<1>12. ASSUME NEW j \in Instance, NEW k \in 1 .. Len(pending'[j]), NEW n \in 1 .. Len(pending'[j]), k # n
       PROVE  pending'[j][k][1] # pending'[j][n][1]
  <2>1. CASE j # i
    BY <1>6, <1>12, <2>1 DEF HandlerInv
  <2>2. CASE j = i
    <3>1. k \in 1 .. Len(s) - 1 /\ n \in 1 .. Len(s) - 1
      BY <1>5, <1>6, <1>12, <2>2
    <3>2. k + 1 \in 1 .. Len(s) /\ n + 1 \in 1 .. Len(s) /\ k + 1 # n + 1
      BY <1>5, <1>12, <3>1
    <3>3. Tail(s)[k] = s[k + 1] /\ Tail(s)[n] = s[n + 1]
      BY <1>5, <3>1
    <3>4. pending'[j] = Tail(s)
      BY <1>6, <2>2
    <3> QED BY <1>7, <3>2, <3>3, <3>4
  <2> QED BY <2>1, <2>2
<1>13. pending' \in [Instance -> Seq(Events \X AcceptanceStatus)]
  <2>1. \A j \in Instance : pending'[j] \in Seq(Events \X AcceptanceStatus)
    BY <1>5, <1>6 DEF TypeOK
  <2>2. pending' = [j \in Instance |-> pending'[j]]
    BY <1>4 DEF TypeOK
  <2> QED BY <2>1, <2>2
<1>14. recent' \in [Instance -> Seq(Record)] /\ \A j \in Instance : Len(recent'[j]) <= Capacity
  <2>1. recent[i] \in Seq(Record)
    BY DEF TypeOK
  <2>2. /\ Truncate(<<record>> \o recent[i]) \in Seq(Record)
        /\ Len(Truncate(<<record>> \o recent[i])) =
              IF Len(recent[i]) + 1 < Capacity THEN Len(recent[i]) + 1 ELSE Capacity
    BY <1>3, <2>1, PutInFront
  <2>3. Len(Truncate(<<record>> \o recent[i])) <= Capacity
    BY <2>1, <2>2, LenProperties, CapacityAssumption
  <2> QED BY <1>4, <2>2, <2>3 DEF TypeOK
<1>15. wire' \in [Instance \X Instance -> Seq(Record)]
  <2>1. \A c \in Instance \X Instance : wire[c] \in Seq(Record) /\ Append(wire[c], record) \in Seq(Record)
    BY <1>3, AppendProperties DEF TypeOK
  <2> QED BY <1>4, <2>1
<1>16. log' \in [Instance -> Seq(Record)]
  <2>1. log[i] \in Seq(Record) /\ Append(log[i], record) \in Seq(Record)
    BY <1>3, AppendProperties DEF TypeOK
  <2> QED BY <1>4, <2>1 DEF TypeOK
<1>17. since' \in [Watcher -> SUBSET Record]
  BY <1>3, <1>4 DEF TypeOK
<1>18. TypeOK'
  <2>1. /\ shown' \in [Page -> Seq(Record)]
        /\ \A p \in Page : Len(shown'[p]) <= Capacity
        /\ deltas' \in [Chart -> [EventId -> Nat]]
    BY <1>3, <1>4, ReceiveType
  <2> QED
    BY <1>4, <1>10, <1>11, <1>13, <1>14, <1>15, <1>16, <1>17, <2>1
    DEF TypeOK, StateTypeOK, redisVars, watcherVars
<1>19. \A e \in processed' : Reached(e)'
  BY <1>4 DEF HandlerInv, redisVars, Reached, VersionOf, KeyOf
<1> QED BY <1>12, <1>18, <1>19 DEF HandlerInv

(* Every other step leaves the handlers alone, or crashes an instance. *)
LEMMA WatcherType ==
    ASSUME TypeOK, HandlerInv,
           \/ \E i, j \in Instance : Relay(i, j)
           \/ \E p \in Page, i \in Instance : Render(p, i) \/ Subscribe(p, i)
           \/ \E c \in Chart, i \in Instance : SubscribeChart(c, i)
           \/ \E c \in Chart : Unsubscribe(c)
           \/ \E w \in Watcher : Disconnect(w)
    PROVE  TypeOK' /\ HandlerInv'
<1>1. UNCHANGED <<redisVars, pending>> => HandlerInv'
  BY DEF HandlerInv, redisVars, Reached, VersionOf, KeyOf
<1>2. ASSUME NEW i \in Instance, NEW j \in Instance, Relay(i, j) PROVE TypeOK' /\ HandlerInv'
  <2> DEFINE s == wire[<<i, j>>]
  <2>1. s \in Seq(Record) /\ s # <<>> /\ wire' = [wire EXCEPT ![<<i, j>>] = Tail(@)]
    BY <1>2 DEF Relay, TypeOK
  <2>2. Head(s) \in Record /\ Tail(s) \in Seq(Record)
    BY <2>1, HeadTailProperties
  <2>3. wire' \in [Instance \X Instance -> Seq(Record)]
    BY <2>1, <2>2 DEF TypeOK
  <2>4. /\ shown' \in [Page -> Seq(Record)]
        /\ \A p \in Page : Len(shown'[p]) <= Capacity
        /\ deltas' \in [Chart -> [EventId -> Nat]]
    BY <1>2, <2>2, ReceiveType DEF Relay
  <2> QED BY <1>1, <1>2, <2>3, <2>4 DEF Relay, TypeOK, StateTypeOK, redisVars, feedVars, watcherVars
<1>3. ASSUME NEW i \in Instance PROVE Arriving(i) \subseteq Record
  <2>1. \A c \in Instance \X {i} : Range(wire[c]) \subseteq Record
    BY RangeOfSeq DEF TypeOK
  <2> QED BY <2>1 DEF Arriving
<1>4. ASSUME NEW w \in Watcher, NEW i \in Instance, Join(w, i)
      PROVE  /\ joined' \subseteq Watcher /\ socket' \in [Watcher -> Instance \union {None}]
             /\ \A v \in joined' : socket'[v] # None
             /\ \A v \in Watcher : v # w => socket'[v] = socket[v]
             /\ since' \in [Watcher -> SUBSET Record]
  BY <1>3, <1>4, InstanceNames DEF Join, TypeOK
<1>5. ASSUME NEW left, Leave(left)
      PROVE  /\ joined' = joined \ left
             /\ since' \in [Watcher -> SUBSET Record]
             /\ deltas' \in [Chart -> [EventId -> Nat]]
  BY <1>5 DEF Leave, TypeOK, NoDeltas
<1>6. ASSUME NEW p \in Page, NEW i \in Instance, Render(p, i) PROVE TypeOK' /\ HandlerInv'
  <2>1. /\ shown' \in [Page -> Seq(Record)] /\ \A q \in Page : Len(shown'[q]) <= Capacity
        /\ stage' \in [Page -> {"closed", "rendered", "mounted"}]
    BY <1>6 DEF Render, TypeOK
  <2>2. \A q \in Page : socket'[q] # None => stage'[q] = "mounted"
    BY <1>6 DEF Render, TypeOK
  <2> QED BY <1>1, <1>6, <2>1, <2>2 DEF Render, TypeOK, StateTypeOK, redisVars, feedVars
<1>7. ASSUME NEW p \in Page, NEW i \in Instance, Subscribe(p, i) PROVE TypeOK' /\ HandlerInv'
  <2>0. p \in Watcher
    BY DEF Watcher
  <2>1. stage' = [stage EXCEPT ![p] = "mounted"]
    BY <1>7 DEF Subscribe
  <2>2. /\ joined' \subseteq Watcher /\ socket' \in [Watcher -> Instance \union {None}]
        /\ \A v \in joined' : socket'[v] # None
        /\ \A v \in Watcher : v # p => socket'[v] = socket[v]
        /\ since' \in [Watcher -> SUBSET Record]
    BY <1>4, <1>7, <2>0 DEF Subscribe, TypeOK
  <2>3. /\ stage' \in [Page -> {"closed", "rendered", "mounted"}]
        /\ \A q \in Page : socket'[q] # None => stage'[q] = "mounted"
    BY <2>1, <2>2 DEF TypeOK, Watcher
  <2> QED BY <1>1, <1>7, <2>2, <2>3 DEF Subscribe, TypeOK, StateTypeOK, redisVars, feedVars
<1>8. ASSUME NEW c \in Chart, NEW i \in Instance, SubscribeChart(c, i) PROVE TypeOK' /\ HandlerInv'
  <2>0. c \in Watcher /\ c \notin Page
    BY WatcherAssumption DEF Watcher
  <2>1. /\ joined' \subseteq Watcher /\ socket' \in [Watcher -> Instance \union {None}]
        /\ \A v \in joined' : socket'[v] # None
        /\ \A v \in Watcher : v # c => socket'[v] = socket[v]
        /\ since' \in [Watcher -> SUBSET Record]
    BY <1>4, <1>8, <2>0 DEF SubscribeChart
  <2>2. \A q \in Page : socket'[q] # None => stage[q] = "mounted"
    BY <2>0, <2>1 DEF TypeOK, Watcher
  <2> QED BY <1>1, <1>8, <2>1, <2>2 DEF SubscribeChart, TypeOK, StateTypeOK, redisVars, feedVars
<1>9. ASSUME NEW c \in Chart, Unsubscribe(c) PROVE TypeOK' /\ HandlerInv'
  <2>1. /\ joined' = joined \ {c}
        /\ since' \in [Watcher -> SUBSET Record]
        /\ deltas' \in [Chart -> [EventId -> Nat]]
    BY <1>5, <1>9 DEF Unsubscribe
  <2> QED BY <1>1, <1>9, <2>1 DEF Unsubscribe, TypeOK, StateTypeOK, redisVars, feedVars
<1>10. ASSUME NEW w \in Watcher, Disconnect(w) PROVE TypeOK' /\ HandlerInv'
  <2>1. /\ joined' = joined \ {w}
        /\ since' \in [Watcher -> SUBSET Record]
        /\ deltas' \in [Chart -> [EventId -> Nat]]
    BY <1>5, <1>10 DEF Disconnect
  <2>2. /\ socket' \in [Watcher -> Instance \union {None}]
        /\ \A v \in joined' : socket'[v] # None
        /\ \A q \in Page : socket'[q] # None => stage[q] = "mounted"
    BY <1>10, <2>1 DEF Disconnect, TypeOK, Watcher
  <2> QED BY <1>1, <1>10, <2>1, <2>2 DEF Disconnect, TypeOK, StateTypeOK, redisVars, feedVars
<1> QED BY <1>2, <1>6, <1>7, <1>8, <1>9, <1>10

LEMMA CrashType ==
    ASSUME TypeOK, HandlerInv, NEW i \in Instance, Crash(i)
    PROVE  TypeOK' /\ HandlerInv'
<1>0. <<>> \in Seq(Record) /\ Len(<<>>) = 0 /\ <<>> \in Seq(Events \X AcceptanceStatus) /\ DOMAIN <<>> = {}
  OBVIOUS
<1>1. broker' \in [Message -> {"ready", "acked", "dead"} \union Instance]
  BY DEF Crash, TypeOK
<1>2. /\ pending' \in [Instance -> Seq(Events \X AcceptanceStatus)] /\ pending'[i] = <<>>
      /\ \A j \in Instance : j # i => pending'[j] = pending[j]
  BY <1>0 DEF Crash, TypeOK
<1>3. ASSUME NEW j \in Instance, NEW n \in DOMAIN pending'[j] PROVE broker'[pending'[j][n][1]] = j
  <2>1. j # i /\ pending'[j] = pending[j] /\ n \in DOMAIN pending[j]
    BY <1>0, <1>2, <1>3
  <2>2. broker[pending[j][n][1]] = j
    BY <2>1 DEF TypeOK
  <2>3. pending[j][n] \in Events \X AcceptanceStatus
    BY <2>1, ElementOfSeq, LenProperties DEF TypeOK
  <2>4. pending[j][n][1] \in Message
    BY <2>3 DEF Events
  <2> QED BY <2>1, <2>2, <2>4 DEF Crash
<1>4. /\ recent' \in [Instance -> Seq(Record)] /\ \A j \in Instance : Len(recent'[j]) <= Capacity
      /\ log' \in [Instance -> Seq(Record)]
  BY <1>0, CapacityAssumption DEF Crash, TypeOK
<1>5. wire' \in [Instance \X Instance -> Seq(Record)]
  BY <1>0 DEF Crash, TypeOK
<1>6. /\ joined' \subseteq Watcher
      /\ socket' \in [Watcher -> Instance \union {None}]
      /\ \A w \in joined' : socket'[w] # None
      /\ \A p \in Page : socket'[p] # None => stage[p] = "mounted"
  BY DEF Crash, Leave, TypeOK, Watcher
<1>7. since' \in [Watcher -> SUBSET Record] /\ deltas' \in [Chart -> [EventId -> Nat]]
  BY DEF Crash, Leave, TypeOK, NoDeltas
<1>8. crashes' \in 0 .. MaxCrashes
  BY CapacityAssumption DEF Crash, TypeOK
<1>9. TypeOK'
  BY <1>1, <1>2, <1>3, <1>4, <1>5, <1>6, <1>7, <1>8 DEF Crash, TypeOK, StateTypeOK, redisVars
<1>10. HandlerInv'
  BY <1>0, <1>2 DEF Crash, HandlerInv, redisVars, Reached, VersionOf, KeyOf
<1> QED BY <1>9, <1>10

LEMMA NextType == TypeOK /\ HandlerInv /\ [Next]_vars => TypeOK' /\ HandlerInv'
<1> SUFFICES ASSUME TypeOK, HandlerInv, [Next]_vars PROVE TypeOK' /\ HandlerInv'
  OBVIOUS
<1>1. CASE UNCHANGED vars
  <2>1. TypeOK'
    BY <1>1 DEF vars, feedVars, watcherVars, redisVars, TypeOK, StateTypeOK
  <2>2. HandlerInv'
    BY <1>1 DEF vars, feedVars, redisVars, HandlerInv, Reached, VersionOf, KeyOf
  <2> QED BY <2>1, <2>2
<1>2. CASE Next
  BY <1>2, DecideType, ObserveType, WatcherType, CrashType DEF Next
<1> QED BY <1>1, <1>2

LEMMA InitType == Init => TypeOK /\ HandlerInv
<1> SUFFICES ASSUME Init PROVE TypeOK /\ HandlerInv
  OBVIOUS
<1>0. <<>> \in Seq(Record) /\ Len(<<>>) = 0 /\ <<>> \in Seq(Events \X AcceptanceStatus) /\ DOMAIN <<>> = {}
  OBVIOUS
<1>1. StateTypeOK
  BY DEF Init, StateInit, StateTypeOK, EmptyProjection, Projection
<1>2. crashes \in 0 .. MaxCrashes
  BY CapacityAssumption DEF Init
<1>3. deltas \in [Chart -> [EventId -> Nat]]
  BY DEF Init, NoDeltas
<1>4. \A i \in Instance : \A n \in DOMAIN pending[i] : broker[pending[i][n][1]] = i
  BY <1>0 DEF Init
<1>5. TypeOK
  <2>1. /\ broker \in [Message -> {"ready", "acked", "dead"} \union Instance]
        /\ pending \in [Instance -> Seq(Events \X AcceptanceStatus)]
    BY <1>0 DEF Init
  <2>2. /\ recent \in [Instance -> Seq(Record)] /\ log \in [Instance -> Seq(Record)]
        /\ \A i \in Instance : Len(recent[i]) <= Capacity
    BY <1>0, CapacityAssumption DEF Init
  <2>3. /\ wire \in [Instance \X Instance -> Seq(Record)]
        /\ since \in [Watcher -> SUBSET Record]
    BY <1>0 DEF Init
  <2>4. shown \in [Page -> Seq(Record)] /\ \A p \in Page : Len(shown[p]) <= Capacity
    BY <1>0, CapacityAssumption DEF Init
  <2>5. /\ joined \subseteq Watcher /\ \A w \in joined : socket[w] # None
        /\ socket \in [Watcher -> Instance \union {None}]
        /\ stage \in [Page -> {"closed", "rendered", "mounted"}]
    BY DEF Init
  <2>6. \A p \in Page : socket[p] # None => stage[p] = "mounted"
    BY DEF Init, Watcher
  <2> QED BY <1>1, <1>2, <1>3, <1>4, <2>1, <2>2, <2>3, <2>4, <2>5, <2>6 DEF TypeOK
<1>6. HandlerInv
  BY <1>0 DEF Init, StateInit, HandlerInv
<1> QED BY <1>5, <1>6

(* The variables keep their types: no list outgrows its capacity, and a    *)
(* message that a handler holds is not given to another.                   *)
THEOREM TypeCorrect == Spec => []TypeOK
<1> QED BY InitType, NextType, PTL DEF Spec

(* A handler holds every message once, and whatever Redis remembers it has *)
(* reached the version of.                                                 *)
THEOREM HandlersCorrect == Spec => [](TypeOK /\ HandlerInv)
<1> QED BY InitType, NextType, PTL DEF Spec

-----------------------------------------------------------------------------
(* The list of recent activity                                             *)

(* A list of the newest records of a log stays one when both are given the *)
(* next.                                                                   *)
LEMMA NewestStep ==
    ASSUME NEW s \in Seq(Record), NEW u \in Seq(Record), NEW x \in Record,
           Len(s) = IF Len(u) < Capacity THEN Len(u) ELSE Capacity,
           \A n \in DOMAIN s : s[n] = u[Len(u) + 1 - n]
    PROVE  LET t == Truncate(<<x>> \o s)
               v == Append(u, x)
           IN /\ Len(t) = IF Len(v) < Capacity THEN Len(v) ELSE Capacity
              /\ \A n \in DOMAIN t : t[n] = v[Len(v) + 1 - n]
<1> DEFINE t == Truncate(<<x>> \o s)
           v == Append(u, x)
<1>1. /\ t \in Seq(Record)
      /\ Len(t) = IF Len(s) + 1 < Capacity THEN Len(s) + 1 ELSE Capacity
      /\ t[1] = x
      /\ \A n \in 2 .. Len(t) : n - 1 \in 1 .. Len(s) /\ t[n] = s[n - 1]
  BY PutInFront
<1>2. Len(v) = Len(u) + 1 /\ v[Len(u) + 1] = x /\ \A n \in 1 .. Len(u) : v[n] = u[n]
  BY AppendProperties
<1> HIDE DEF t, v
<1>3. DOMAIN t = 1 .. Len(t) /\ DOMAIN s = 1 .. Len(s) /\ Len(s) \in Nat /\ Len(u) \in Nat
      /\ Capacity \in Nat \ {0}
  BY <1>1, LenProperties, CapacityAssumption
<1>4. Len(t) = IF Len(v) < Capacity THEN Len(v) ELSE Capacity
  BY <1>1, <1>2, <1>3
<1>5. ASSUME NEW n \in DOMAIN t PROVE t[n] = v[Len(v) + 1 - n]
  <2>1. n = 1 \/ n \in 2 .. Len(t)
    BY <1>3
  <2>2. CASE n = 1
    BY <1>1, <1>2, <1>3, <2>2
  <2>3. CASE n \in 2 .. Len(t)
    <3>1. n - 1 \in 1 .. Len(s) /\ t[n] = s[n - 1]
      BY <1>1, <2>3
    <3>2. s[n - 1] = u[Len(u) + 1 - (n - 1)]
      BY <1>3, <3>1
    <3>3. Len(u) + 1 - (n - 1) \in 1 .. Len(u) /\ Len(v) + 1 - n = Len(u) + 1 - (n - 1)
      <4>1. Len(s) <= Len(u)
        BY <1>3
      <4>2. n \in Nat /\ 1 <= n - 1 /\ n - 1 <= Len(u)
        BY <1>1, <1>3, <2>3, <3>1, <4>1
      <4> QED BY <1>2, <1>3, <4>2
    <3> QED BY <1>2, <3>1, <3>2, <3>3
  <2> QED BY <2>1, <2>2, <2>3
<1> QED BY <1>4, <1>5 DEF t, v

LEMMA StoreStep == TypeOK /\ HandlerInv /\ StoreHoldsNewest /\ [Next]_vars => StoreHoldsNewest'
<1> SUFFICES ASSUME TypeOK, HandlerInv, StoreHoldsNewest, [Next]_vars PROVE StoreHoldsNewest'
  OBVIOUS
<1>1. ASSUME UNCHANGED <<recent, log>> PROVE StoreHoldsNewest'
  BY <1>1 DEF StoreHoldsNewest
<1>2. ASSUME NEW i \in Instance, Observe(i) PROVE StoreHoldsNewest'
  <2> DEFINE m == Head(pending[i])[1]
             x == [event |-> IdOf(m), outcome |-> OutcomeOf(Head(pending[i])[2])]
  <2>1. x \in Record
    <3>1. pending[i] \in Seq(Events \X AcceptanceStatus) /\ pending[i] # <<>>
      BY <1>2 DEF TypeOK, Observe
    <3>2. m \in Events
      BY <3>1, HeadTailProperties
    <3> QED BY <3>2, OutcomeType
  <2>2. /\ recent' = [recent EXCEPT ![i] = Truncate(<<x>> \o @)]
        /\ log' = [log EXCEPT ![i] = Append(@, x)]
    BY <1>2 DEF Observe
  <2> HIDE DEF m, x
  <2>3. \A j \in Instance : recent[j] \in Seq(Record) /\ log[j] \in Seq(Record)
    BY DEF TypeOK
  <2> DEFINE t == Truncate(<<x>> \o recent[i])
             v == Append(log[i], x)
  <2>4. /\ Len(t) = IF Len(v) < Capacity THEN Len(v) ELSE Capacity
        /\ \A n \in DOMAIN t : t[n] = v[Len(v) + 1 - n]
    BY <2>1, <2>3, NewestStep DEF StoreHoldsNewest
  <2>5. /\ recent'[i] = t /\ log'[i] = v
        /\ \A j \in Instance : j # i => recent'[j] = recent[j] /\ log'[j] = log[j]
    BY <2>2 DEF TypeOK
  <2> HIDE DEF t, v
  <2> QED BY <2>4, <2>5 DEF StoreHoldsNewest
<1>3. ASSUME NEW i \in Instance, Crash(i) PROVE StoreHoldsNewest'
  <2>1. /\ recent'[i] = <<>> /\ log'[i] = <<>>
        /\ \A j \in Instance : j # i => recent'[j] = recent[j] /\ log'[j] = log[j]
    BY <1>3 DEF Crash, TypeOK
  <2>2. Len(<<>>) = 0 /\ DOMAIN <<>> = {} /\ 0 < Capacity
    BY CapacityAssumption
  <2> QED BY <2>1, <2>2 DEF StoreHoldsNewest
<1>4. CASE UNCHANGED vars
  BY <1>1, <1>4 DEF vars, feedVars
<1>5. CASE Next
  BY <1>1, <1>2, <1>3, <1>5
  DEF Next, Decide, Relay, Render, Subscribe, SubscribeChart, Unsubscribe, Disconnect, feedVars
<1> QED BY <1>4, <1>5

(* The dashboard is rendered from the newest records of the instance, in   *)
(* their order and as many as fit.                                         *)
THEOREM NewestAreStored == Spec => []StoreHoldsNewest
<1>1. Init => StoreHoldsNewest
  <2>1. Len(<<>>) = 0 /\ DOMAIN <<>> = {} /\ 0 < Capacity
    BY CapacityAssumption
  <2> QED BY <2>1 DEF Init, StoreHoldsNewest
<1> QED BY <1>1, HandlersCorrect, StoreStep, PTL DEF Spec

-----------------------------------------------------------------------------
(* Lists as sets                                                           *)

LEMMA InRange ==
    ASSUME NEW S, NEW s \in Seq(S)
    PROVE  /\ \A x : x \in Range(s) <=> \E n \in 1 .. Len(s) : x = s[n]
           /\ \A x \in Range(s) : x \in S
<1>1. DOMAIN s = 1 .. Len(s)
  BY LenProperties
<1>2. \A x : x \in Range(s) <=> \E n \in 1 .. Len(s) : x = s[n]
  BY <1>1, Zenon DEF Range
<1>3. \A n \in 1 .. Len(s) : s[n] \in S
  BY ElementOfSeq
<1> QED BY <1>2, <1>3, Zenon

LEMMA RangeAppend ==
    ASSUME NEW S, NEW s \in Seq(S), NEW x \in S
    PROVE  \A y : y \in Range(Append(s, x)) <=> y \in Range(s) \/ y = x
<1> DEFINE t == Append(s, x)
           k == Len(s)
<1>1. t \in Seq(S) /\ Len(t) = k + 1 /\ k \in Nat /\ t[k + 1] = x
      /\ \A n \in 1 .. k : t[n] = s[n]
  BY AppendProperties, LenProperties
<1>2. \A y : y \in Range(t) <=> \E n \in 1 .. Len(t) : y = t[n]
  BY <1>1, InRange, Zenon
<1>3. \A y : y \in Range(s) <=> \E n \in 1 .. k : y = s[n]
  BY InRange, Zenon
<1> HIDE DEF t, k
<1>4. ASSUME NEW y PROVE (\E n \in 1 .. (k + 1) : y = t[n]) <=> (\E n \in 1 .. k : y = s[n]) \/ y = x
  <2>1. \A n \in 1 .. (k + 1) : n \in 1 .. k \/ n = k + 1
    BY <1>1
  <2>2. k + 1 \in 1 .. (k + 1) /\ \A n \in 1 .. k : n \in 1 .. (k + 1)
    BY <1>1
  <2> QED BY <1>1, <2>1, <2>2, Zenon
<1>5. Len(t) = k + 1
  BY <1>1
<1>6. \A y : y \in Range(t) <=> y \in Range(s) \/ y = x
  BY <1>2, <1>3, <1>4, <1>5, Zenon
<1> QED BY <1>6 DEF t

LEMMA RangeTail ==
    ASSUME NEW S, NEW s \in Seq(S), s # <<>>
    PROVE  \A y : y \in Range(s) <=> y \in Range(Tail(s)) \/ y = Head(s)
<1> DEFINE t == Tail(s)
           k == Len(s)
<1>1. /\ t \in Seq(S) /\ k \in Nat \ {0} /\ Len(t) = k - 1
      /\ Head(s) = s[1] /\ \A n \in 1 .. (k - 1) : t[n] = s[n + 1]
  BY HeadTailProperties, EmptySeq, LenProperties
<1>2. \A y : y \in Range(t) <=> \E n \in 1 .. Len(t) : y = t[n]
  BY <1>1, InRange, Zenon
<1>3. \A y : y \in Range(s) <=> \E n \in 1 .. k : y = s[n]
  BY InRange, Zenon
<1> HIDE DEF t, k
<1>4. ASSUME NEW y PROVE (\E n \in 1 .. k : y = s[n]) <=> (\E n \in 1 .. (k - 1) : y = t[n]) \/ y = s[1]
  <2>1. ASSUME NEW n \in 1 .. k, n # 1 PROVE n - 1 \in 1 .. (k - 1) /\ t[n - 1] = s[n]
    BY <1>1, <2>1
  <2>2. ASSUME NEW n \in 1 .. (k - 1) PROVE n + 1 \in 1 .. k /\ t[n] = s[n + 1]
    BY <1>1, <2>2
  <2>3. 1 \in 1 .. k
    BY <1>1
  <2> QED BY <2>1, <2>2, <2>3, Zenon
<1>5. Len(t) = k - 1 /\ Head(s) = s[1]
  BY <1>1
<1>6. \A y : y \in Range(s) <=> y \in Range(t) \/ y = Head(s)
  BY <1>2, <1>3, <1>4, <1>5, Zenon
<1> QED BY <1>6 DEF t

LEMMA RangeEmpty == Range(<<>>) = {}
  BY DEF Range

(* x is in the list at most once. *)
Once(s, x) == \A m, n \in 1 .. Len(s) : s[m] = x /\ s[n] = x => m = n

LEMMA OnceAppend ==
    ASSUME NEW s \in Seq(Record), NEW x \in Record, NEW y,
           (y # x /\ Once(s, y)) \/ y \notin Range(s)
    PROVE  Once(Append(s, x), y)
<1> DEFINE t == Append(s, x)
           k == Len(s)
<1>1. Len(t) = k + 1 /\ k \in Nat /\ t[k + 1] = x /\ \A n \in 1 .. k : t[n] = s[n]
  BY AppendProperties, LenProperties
<1>2. y \notin Range(s) => \A n \in 1 .. k : s[n] # y
  BY InRange
<1> HIDE DEF t, k
<1>3. ASSUME NEW m \in 1 .. Len(t), NEW n \in 1 .. Len(t), t[m] = y, t[n] = y PROVE m = n
  <2>1. (m \in 1 .. k \/ m = k + 1) /\ (n \in 1 .. k \/ n = k + 1)
    BY <1>1
  <2>2. CASE y # x /\ Once(s, y)
    <3>1. m \in 1 .. k /\ n \in 1 .. k
      BY <1>1, <1>3, <2>1, <2>2
    <3> QED BY <1>1, <1>3, <2>2, <3>1 DEF Once, k
  <2>3. CASE y \notin Range(s)
    <3>1. m = k + 1 /\ n = k + 1
      BY <1>1, <1>2, <1>3, <2>1, <2>3
    <3> QED BY <3>1
  <2> QED BY <2>2, <2>3
<1> QED BY <1>3 DEF Once, t

LEMMA OnceTail ==
    ASSUME NEW s \in Seq(Record), s # <<>>, NEW y, Once(s, y)
    PROVE  Once(Tail(s), y) /\ (Head(s) = y => y \notin Range(Tail(s)))
<1> DEFINE t == Tail(s)
           k == Len(s)
<1>1. /\ t \in Seq(Record) /\ k \in Nat \ {0} /\ Len(t) = k - 1
      /\ Head(s) = s[1] /\ \A n \in 1 .. (k - 1) : t[n] = s[n + 1]
  BY HeadTailProperties, EmptySeq, LenProperties
<1>2. y \in Range(t) => \E n \in 1 .. Len(t) : y = t[n]
  BY <1>1, InRange
<1>3. \A m, n \in 1 .. k : s[m] = y /\ s[n] = y => m = n
  BY DEF Once
<1> HIDE DEF t, k
<1>4. ASSUME NEW m \in 1 .. Len(t), NEW n \in 1 .. Len(t), t[m] = y, t[n] = y PROVE m = n
  <2>1. m + 1 \in 1 .. k /\ n + 1 \in 1 .. k /\ m \in 1 .. (k - 1) /\ n \in 1 .. (k - 1)
    BY <1>1
  <2>2. m + 1 = n + 1
    BY <1>1, <1>3, <1>4, <2>1
  <2> QED BY <2>1, <2>2
<1>5. ASSUME Head(s) = y, NEW n \in 1 .. Len(t), y = t[n] PROVE FALSE
  <2>1. n + 1 \in 1 .. k /\ 1 \in 1 .. k /\ n + 1 # 1 /\ n \in 1 .. (k - 1)
    BY <1>1
  <2> QED BY <1>1, <1>3, <1>5, <2>1
<1>6. Head(s) = y => y \notin Range(t)
  BY <1>2, <1>5
<1> QED BY <1>4, <1>6 DEF Once, t

-----------------------------------------------------------------------------
(* Deltas                                                                  *)

AppliedRecord(e) == [event |-> e, outcome |-> "applied"]

Connected(c, i) == c \in joined /\ socket[c] = i

(* What a handler holds to announce as applied was announced to nobody,    *)
(* and no other handler holds it.                                          *)
HeldInv ==
    \A i \in Instance : \A q \in Range(pending[i]) : q[2] \in Applied =>
        /\ IdOf(q[1]) \in processed
        /\ \A a, b \in Instance : AppliedRecord(IdOf(q[1])) \notin Range(wire[<<a, b>>])
        /\ \A c \in Chart : deltas[c][IdOf(q[1])] = 0
        /\ \A j \in Instance : \A r \in Range(pending[j]) :
              r[2] \in Applied /\ IdOf(r[1]) = IdOf(q[1]) => r = q

(* An applied event is on its way to an instance once, and the charts      *)
(* there have not counted it.                                              *)
WireInv ==
    \A i, j \in Instance, e \in EventId : AppliedRecord(e) \in Range(wire[<<i, j>>]) =>
        /\ e \in processed
        /\ Once(wire[<<i, j>>], AppliedRecord(e))
        /\ \A l \in Instance : AppliedRecord(e) \in Range(wire[<<l, j>>]) => l = i
        /\ \A c \in Chart : Connected(c, j) => deltas[c][e] = 0

CountInv ==
    \A c \in Chart, e \in EventId :
        /\ deltas[c][e] <= 1
        /\ deltas[c][e] # 0 =>
             /\ c \in joined /\ e \in processed
             /\ Scope[c] \in {None, Envelope[e].tenant} /\ Envelope[e].type \in ChartTypes

DeltaInv == HeldInv /\ WireInv /\ CountInv

LEMMA HeldType ==
    ASSUME TypeOK, NEW i \in Instance, NEW q \in Range(pending[i])
    PROVE  /\ q \in Events \X AcceptanceStatus /\ q[1] \in Events /\ q[1] \in Message
           /\ IdOf(q[1]) \in EventId /\ broker[q[1]] = i
<1>1. pending[i] \in Seq(Events \X AcceptanceStatus)
  BY DEF TypeOK
<1>2. PICK n \in 1 .. Len(pending[i]) : q = pending[i][n]
  BY <1>1, InRange
<1>3. q \in Events \X AcceptanceStatus
  BY <1>1, InRange
<1>4. broker[q[1]] = i
  BY <1>1, <1>2, LenProperties DEF TypeOK
<1>5. q[1] \in Events
  BY <1>3
<1> QED BY <1>3, <1>4, <1>5, EventsHaveIds

LEMMA WireType ==
    ASSUME TypeOK, NEW i \in Instance, NEW j \in Instance
    PROVE  wire[<<i, j>>] \in Seq(Record) /\ Range(wire[<<i, j>>]) \subseteq Record
<1>1. wire[<<i, j>>] \in Seq(Record)
  BY DEF TypeOK
<1> QED BY <1>1, InRange

(* What one turn of a handler does. *)
LEMMA ObserveEffect ==
    ASSUME TypeOK, HandlerInv, NEW i \in Instance, Observe(i)
    PROVE  \E q \in Range(pending[i]), x \in Record :
             /\ x = [event |-> IdOf(q[1]), outcome |-> OutcomeOf(q[2])]
             /\ \A j \in Instance : \A r \in Range(pending'[j]) : r \in Range(pending[j]) /\ r # q
             /\ \A a, b \in Instance :
                  wire'[<<a, b>>] = IF a = i /\ b # i THEN Append(wire[<<a, b>>], x) ELSE wire[<<a, b>>]
             /\ Receive(i, x)
             /\ since' = [w \in Watcher |-> IF w \in joined THEN since[w] \union {x} ELSE {}]
<1> DEFINE s == pending[i]
           q == Head(s)
           x == [event |-> IdOf(q[1]), outcome |-> OutcomeOf(q[2])]
<1>1. s \in Seq(Events \X AcceptanceStatus) /\ s # <<>>
  BY DEF TypeOK, Observe
<1>2. \A y : y \in Range(s) <=> y \in Range(Tail(s)) \/ y = q
  BY <1>1, RangeTail
<1>3. q \in Range(s) /\ q[1] \in Events /\ broker[q[1]] = i
  BY <1>2, HeldType
<1>4. x \in Record
  BY <1>3, OutcomeType
<1>5. /\ wire' = [c \in Instance \X Instance |->
           IF c[1] = i /\ c[2] # i THEN Append(wire[c], x) ELSE wire[c]]
      /\ Receive(i, x)
      /\ since' = [w \in Watcher |-> IF w \in joined THEN since[w] \union {x} ELSE {}]
      /\ pending' = [pending EXCEPT ![i] = Tail(@)]
  BY DEF Observe
<1>6. \A j \in Instance : pending'[j] = IF j = i THEN Tail(s) ELSE pending[j]
  BY <1>5 DEF TypeOK
<1>7. q \notin Range(Tail(s))
  <2> DEFINE t == Tail(s)
             k == Len(s)
  <2>1. /\ t \in Seq(Events \X AcceptanceStatus) /\ k \in Nat \ {0} /\ Len(t) = k - 1
        /\ q = s[1] /\ \A n \in 1 .. (k - 1) : t[n] = s[n + 1]
    BY <1>1, HeadTailProperties, EmptySeq, LenProperties
  <2>2. q \in Range(t) => \E n \in 1 .. Len(t) : q = t[n]
    <3>1. t \in Seq(Events \X AcceptanceStatus)
      BY <2>1
    <3> HIDE DEF t
    <3> QED BY <3>1, InRange
  <2>3. \A a, b \in 1 .. k : a # b => s[a][1] # s[b][1]
    BY DEF HandlerInv
  <2> HIDE DEF t, k, q, s
  <2>4. ASSUME NEW n \in 1 .. Len(t), q = t[n] PROVE FALSE
    <3>1. n + 1 \in 1 .. k /\ 1 \in 1 .. k /\ n + 1 # 1 /\ n \in 1 .. (k - 1)
      BY <2>1
    <3>2. s[n + 1] = q /\ s[1] = q
      BY <2>1, <2>4, <3>1
    <3> QED BY <2>3, <3>1, <3>2
  <2>5. q \notin Range(t)
    BY <2>2, <2>4
  <2> QED BY <2>5 DEF t
<1> HIDE DEF x, q, s
<1>8. ASSUME NEW j \in Instance, NEW r \in Range(pending'[j]) PROVE r \in Range(pending[j]) /\ r # q
  <2>1. CASE j = i
    BY <1>2, <1>6, <1>7, <1>8, <2>1 DEF s
  <2>2. CASE j # i
    <3>1. r \in Range(pending[j])
      BY <1>6, <1>8, <2>2
    <3>2. broker[r[1]] = j
      BY <3>1, HeldType
    <3> QED BY <1>3, <2>2, <3>1, <3>2
  <2> QED BY <2>1, <2>2
<1>9. \A a, b \in Instance :
        wire'[<<a, b>>] = IF a = i /\ b # i THEN Append(wire[<<a, b>>], x) ELSE wire[<<a, b>>]
  BY <1>5
<1>10. q \in Range(pending[i]) /\ x = [event |-> IdOf(q[1]), outcome |-> OutcomeOf(q[2])]
  BY <1>3 DEF x, s
<1> QED BY <1>4, <1>5, <1>8, <1>9, <1>10

(* What the receipt of a record does. *)
LEMMA RelayEffect ==
    ASSUME TypeOK, NEW i \in Instance, NEW j \in Instance, Relay(i, j)
    PROVE  \E x \in Range(wire[<<i, j>>]) :
             /\ x \in Record
             /\ \A a, b \in Instance : \A y \in Range(wire'[<<a, b>>]) : y \in Range(wire[<<a, b>>])
             /\ \A a, b \in Instance : \A y \in Range(wire[<<a, b>>]) :
                  y \in Range(wire'[<<a, b>>]) \/ (a = i /\ b = j /\ y = x)
             /\ \A a, b \in Instance, y \in Record : Once(wire[<<a, b>>], y) => Once(wire'[<<a, b>>], y)
             /\ Once(wire[<<i, j>>], x) => x \notin Range(wire'[<<i, j>>])
             /\ Receive(j, x)
<1> DEFINE s == wire[<<i, j>>]
           x == Head(s)
<1>1. s \in Seq(Record) /\ s # <<>> /\ Receive(j, x)
  BY DEF TypeOK, Relay
<1>2. \A a, b \in Instance : wire'[<<a, b>>] = IF a = i /\ b = j THEN Tail(s) ELSE wire[<<a, b>>]
  BY DEF TypeOK, Relay
<1>3. \A y : y \in Range(s) <=> y \in Range(Tail(s)) \/ y = x
  BY <1>1, RangeTail
<1>4. x \in Record /\ x \in Range(s)
  BY <1>1, <1>3, InRange
<1>5. \A y \in Record : Once(s, y) => Once(Tail(s), y) /\ (x = y => y \notin Range(Tail(s)))
  BY <1>1, OnceTail
<1> HIDE DEF x
<1>6. ASSUME NEW a \in Instance, NEW b \in Instance, NEW y \in Range(wire'[<<a, b>>])
      PROVE  y \in Range(wire[<<a, b>>])
  <2>1. CASE a = i /\ b = j
    BY <1>2, <1>3, <1>6, <2>1
  <2>2. CASE ~(a = i /\ b = j)
    BY <1>2, <1>6, <2>2
  <2> QED BY <2>1, <2>2
<1>7. ASSUME NEW a \in Instance, NEW b \in Instance, NEW y \in Range(wire[<<a, b>>])
      PROVE  y \in Range(wire'[<<a, b>>]) \/ (a = i /\ b = j /\ y = x)
  <2>1. CASE a = i /\ b = j
    BY <1>2, <1>3, <1>7, <2>1
  <2>2. CASE ~(a = i /\ b = j)
    BY <1>2, <1>7, <2>2
  <2> QED BY <2>1, <2>2
<1>8. \A a, b \in Instance, y \in Record : Once(wire[<<a, b>>], y) => Once(wire'[<<a, b>>], y)
  BY <1>2, <1>5
<1>9. Once(wire[<<i, j>>], x) => x \notin Range(wire'[<<i, j>>])
  BY <1>2, <1>4, <1>5
<1> QED BY <1>1, <1>4, <1>6, <1>7, <1>8, <1>9

LEMMA DeltaEffect ==
    ASSUME TypeOK, NEW i \in Instance, NEW x \in Record, Receive(i, x), NEW c \in Chart, NEW e \in EventId
    PROVE  /\ deltas'[c][e] = IF Hears(c, i, x, "delta") /\ x.event = e THEN deltas[c][e] + 1 ELSE deltas[c][e]
           /\ Hears(c, i, x, "delta") /\ x.event = e =>
                /\ x = AppliedRecord(e) /\ Connected(c, i)
                /\ Scope[c] \in {None, Envelope[e].tenant} /\ Envelope[e].type \in ChartTypes
<1>1. deltas'[c] = IF Hears(c, i, x, "delta") THEN [deltas[c] EXCEPT ![x.event] = @ + 1] ELSE deltas[c]
  BY DEF Receive
<1>2. deltas[c] \in [EventId -> Nat] /\ x.event \in EventId
  BY DEF TypeOK, Record
<1>3. deltas'[c][e] = IF Hears(c, i, x, "delta") /\ x.event = e THEN deltas[c][e] + 1 ELSE deltas[c][e]
  BY <1>1, <1>2
<1>4. ASSUME Hears(c, i, x, "delta"), x.event = e
      PROVE  /\ x = AppliedRecord(e) /\ Connected(c, i)
             /\ Scope[c] \in {None, Envelope[e].tenant} /\ Envelope[e].type \in ChartTypes
  <2>1. /\ x.outcome = "applied" /\ Envelope[x.event].type \in ChartTypes
        /\ Scope[c] \in {Envelope[x.event].tenant, None}
    BY <1>4 DEF Hears, Rooms
  <2>2. x = AppliedRecord(e)
    BY <1>4, <2>1 DEF Record, AppliedRecord
  <2>3. Connected(c, i)
    BY <1>4 DEF Hears, Connected
  <2> QED BY <1>4, <2>1, <2>2, <2>3
<1> QED BY <1>3, <1>4

LEMMA ObserveDelta ==
    ASSUME TypeOK, HandlerInv, DeltaInv, NEW i \in Instance, Observe(i)
    PROVE  DeltaInv'
<1>1. PICK q \in Range(pending[i]), x \in Record :
        /\ x = [event |-> IdOf(q[1]), outcome |-> OutcomeOf(q[2])]
        /\ \A j \in Instance : \A r \in Range(pending'[j]) : r \in Range(pending[j]) /\ r # q
        /\ \A a, b \in Instance :
             wire'[<<a, b>>] = IF a = i /\ b # i THEN Append(wire[<<a, b>>], x) ELSE wire[<<a, b>>]
        /\ Receive(i, x)
  BY ObserveEffect
<1>2. UNCHANGED <<processed, joined, socket>>
  BY DEF Observe, redisVars, watcherVars
<1>3. x.event = IdOf(q[1]) /\ (x.outcome = "applied" => q[2] \in Applied)
  BY <1>1 DEF OutcomeOf
<1>4. \A a, b \in Instance : \A y : y \in Range(wire'[<<a, b>>]) <=>
        y \in Range(wire[<<a, b>>]) \/ (a = i /\ b # i /\ y = x)
  <2> SUFFICES ASSUME NEW a \in Instance, NEW b \in Instance
               PROVE  \A y : y \in Range(wire'[<<a, b>>]) <=>
                        y \in Range(wire[<<a, b>>]) \/ (a = i /\ b # i /\ y = x)
    OBVIOUS
  <2>1. \A y : y \in Range(Append(wire[<<a, b>>], x)) <=> y \in Range(wire[<<a, b>>]) \/ y = x
    BY WireType, RangeAppend
  <2>2. CASE a = i /\ b # i
    BY <1>1, <2>1, <2>2
  <2>3. CASE ~(a = i /\ b # i)
    BY <1>1, <2>3
  <2> QED BY <2>2, <2>3
(* An event to announce is applied for the first time *)
<1>5. ASSUME NEW e \in EventId, AppliedRecord(e) = x
      PROVE  /\ e \in processed
             /\ \A a, b \in Instance : AppliedRecord(e) \notin Range(wire[<<a, b>>])
             /\ \A c \in Chart : deltas[c][e] = 0
             /\ \A j \in Instance : \A r \in Range(pending[j]) : r[2] \in Applied /\ IdOf(r[1]) = e => r = q
  <2>1. x.event = e /\ x.outcome = "applied"
    BY <1>5 DEF AppliedRecord
  <2> QED BY <1>3, <2>1 DEF DeltaInv, HeldInv
<1>6. ASSUME NEW c \in Chart, NEW e \in EventId
      PROVE  deltas'[c][e] = deltas[c][e]
             \/ /\ deltas'[c][e] = deltas[c][e] + 1 /\ AppliedRecord(e) = x /\ Connected(c, i)
                /\ Scope[c] \in {None, Envelope[e].tenant} /\ Envelope[e].type \in ChartTypes
  BY <1>1, DeltaEffect
<1>7. HeldInv'
  <2> SUFFICES ASSUME NEW j \in Instance, NEW r \in Range(pending'[j]), r[2] \in Applied
               PROVE  /\ IdOf(r[1]) \in processed'
                      /\ \A a, b \in Instance : AppliedRecord(IdOf(r[1])) \notin Range(wire'[<<a, b>>])
                      /\ \A c \in Chart : deltas'[c][IdOf(r[1])] = 0
                      /\ \A l \in Instance : \A t \in Range(pending'[l]) :
                            t[2] \in Applied /\ IdOf(t[1]) = IdOf(r[1]) => t = r
    BY DEF HeldInv
  <2>1. r \in Range(pending[j]) /\ r # q
    BY <1>1
  <2>2. IdOf(r[1]) \in EventId
    BY <2>1, HeldType
  <2>3. AppliedRecord(IdOf(r[1])) # x
    BY <1>5, <2>1, <2>2
  <2>4. /\ IdOf(r[1]) \in processed
        /\ \A a, b \in Instance : AppliedRecord(IdOf(r[1])) \notin Range(wire[<<a, b>>])
        /\ \A c \in Chart : deltas[c][IdOf(r[1])] = 0
        /\ \A l \in Instance : \A t \in Range(pending[l]) :
              t[2] \in Applied /\ IdOf(t[1]) = IdOf(r[1]) => t = r
    BY <2>1 DEF DeltaInv, HeldInv
  <2>5. \A a, b \in Instance : AppliedRecord(IdOf(r[1])) \notin Range(wire'[<<a, b>>])
    <3> DEFINE y == AppliedRecord(IdOf(r[1]))
    <3>1. y # x /\ \A a, b \in Instance : y \notin Range(wire[<<a, b>>])
      BY <2>3, <2>4
    <3> HIDE DEF y
    <3>2. ASSUME NEW a \in Instance, NEW b \in Instance PROVE y \notin Range(wire'[<<a, b>>])
      BY <1>4, <3>1
    <3> QED BY <3>2 DEF y
  <2>6. \A c \in Chart : deltas'[c][IdOf(r[1])] = 0
    BY <1>6, <2>2, <2>3, <2>4
  <2>7. \A l \in Instance : \A t \in Range(pending'[l]) :
              t[2] \in Applied /\ IdOf(t[1]) = IdOf(r[1]) => t = r
    BY <1>1, <2>4
  <2> QED BY <1>2, <2>4, <2>5, <2>6, <2>7
<1>8. WireInv'
  <2> SUFFICES ASSUME NEW a \in Instance, NEW b \in Instance, NEW e \in EventId,
                      AppliedRecord(e) \in Range(wire'[<<a, b>>])
               PROVE  /\ e \in processed'
                      /\ Once(wire'[<<a, b>>], AppliedRecord(e))
                      /\ \A l \in Instance : AppliedRecord(e) \in Range(wire'[<<l, b>>]) => l = a
                      /\ \A c \in Chart : Connected(c, b)' => deltas'[c][e] = 0
    BY DEF WireInv, AppliedRecord
  <2> DEFINE y == AppliedRecord(e)
  <2>0. wire[<<a, b>>] \in Seq(Record)
    BY WireType
  <2>1. CASE y = x
    <3>1. y \notin Range(wire[<<a, b>>]) /\ e \in processed /\ a = i /\ b # i
      BY <1>4, <1>5, <2>1
    <3>2. Once(Append(wire[<<a, b>>], x), y)
      BY <2>0, <3>1, OnceAppend
    <3>3. wire'[<<a, b>>] = Append(wire[<<a, b>>], x)
      BY <1>1, <3>1
    <3>4. Once(wire'[<<a, b>>], y)
      BY <3>2, <3>3
    <3>5. \A l \in Instance : y \in Range(wire'[<<l, b>>]) => l = a
      BY <1>4, <1>5, <2>1, <3>1
    <3>6. ASSUME NEW c \in Chart, Connected(c, b)' PROVE deltas'[c][e] = 0
      <4>1. ~Connected(c, i)
        BY <1>2, <3>1, <3>6 DEF Connected
      <4> QED BY <1>5, <1>6, <2>1, <4>1
    <3> QED BY <1>2, <3>1, <3>4, <3>5, <3>6
  <2>2. CASE y # x
    <3>1. y \in Range(wire[<<a, b>>])
      BY <1>4, <2>2
    <3>2. /\ e \in processed /\ Once(wire[<<a, b>>], y)
          /\ \A l \in Instance : y \in Range(wire[<<l, b>>]) => l = a
          /\ \A c \in Chart : Connected(c, b) => deltas[c][e] = 0
      BY <3>1 DEF DeltaInv, WireInv
    <3>3. Once(wire'[<<a, b>>], y)
      <4>1. Once(Append(wire[<<a, b>>], x), y)
        BY <2>0, <2>2, <3>2, OnceAppend
      <4>2. wire'[<<a, b>>] = Append(wire[<<a, b>>], x) \/ wire'[<<a, b>>] = wire[<<a, b>>]
        BY <1>1
      <4> QED BY <3>2, <4>1, <4>2
    <3>4. \A l \in Instance : y \in Range(wire'[<<l, b>>]) => l = a
      BY <1>4, <2>2, <3>2
    <3>5. ASSUME NEW c \in Chart, Connected(c, b)' PROVE deltas'[c][e] = 0
      <4>1. Connected(c, b)
        BY <1>2, <3>5 DEF Connected
      <4>2. deltas'[c][e] = deltas[c][e]
        BY <1>6, <2>2
      <4> QED BY <3>2, <4>1, <4>2
    <3> QED BY <1>2, <3>2, <3>3, <3>4, <3>5
  <2> QED BY <2>1, <2>2
<1>9. CountInv'
  <2> SUFFICES ASSUME NEW c \in Chart, NEW e \in EventId
               PROVE  /\ deltas'[c][e] <= 1
                      /\ deltas'[c][e] # 0 =>
                           /\ c \in joined' /\ e \in processed'
                           /\ Scope[c] \in {None, Envelope[e].tenant} /\ Envelope[e].type \in ChartTypes
    BY DEF CountInv
  <2>1. CASE deltas'[c][e] = deltas[c][e]
    BY <1>2, <2>1 DEF DeltaInv, CountInv
  <2>2. CASE /\ deltas'[c][e] = deltas[c][e] + 1 /\ AppliedRecord(e) = x /\ Connected(c, i)
             /\ Scope[c] \in {None, Envelope[e].tenant} /\ Envelope[e].type \in ChartTypes
    <3>1. deltas[c][e] = 0 /\ e \in processed
      BY <1>5, <2>2
    <3>2. c \in joined'
      BY <1>2, <2>2 DEF Connected
    <3> QED BY <1>2, <2>2, <3>1, <3>2
  <2> QED BY <1>6, <2>1, <2>2
<1> QED BY <1>7, <1>8, <1>9 DEF DeltaInv

LEMMA RelayDelta ==
    ASSUME TypeOK, DeltaInv, NEW i \in Instance, NEW j \in Instance, Relay(i, j)
    PROVE  DeltaInv'
<1>1. PICK x \in Range(wire[<<i, j>>]) :
        /\ x \in Record
        /\ \A a, b \in Instance : \A y \in Range(wire'[<<a, b>>]) : y \in Range(wire[<<a, b>>])
        /\ \A a, b \in Instance, y \in Record : Once(wire[<<a, b>>], y) => Once(wire'[<<a, b>>], y)
        /\ Once(wire[<<i, j>>], x) => x \notin Range(wire'[<<i, j>>])
        /\ Receive(j, x)
  BY RelayEffect
<1>2. UNCHANGED <<processed, pending, joined, socket>>
  BY DEF Relay, redisVars, feedVars, watcherVars
<1>3. ASSUME NEW c \in Chart, NEW e \in EventId
      PROVE  deltas'[c][e] = deltas[c][e]
             \/ /\ deltas'[c][e] = deltas[c][e] + 1 /\ AppliedRecord(e) = x /\ Connected(c, j)
                /\ Scope[c] \in {None, Envelope[e].tenant} /\ Envelope[e].type \in ChartTypes
  BY <1>1, DeltaEffect
<1>4. HeldInv'
  <2> SUFFICES ASSUME NEW l \in Instance, NEW r \in Range(pending[l]), r[2] \in Applied
               PROVE  /\ IdOf(r[1]) \in processed
                      /\ \A a, b \in Instance : AppliedRecord(IdOf(r[1])) \notin Range(wire'[<<a, b>>])
                      /\ \A c \in Chart : deltas'[c][IdOf(r[1])] = 0
                      /\ \A k \in Instance : \A t \in Range(pending[k]) :
                            t[2] \in Applied /\ IdOf(t[1]) = IdOf(r[1]) => t = r
    BY <1>2 DEF HeldInv
  <2>1. /\ IdOf(r[1]) \in processed
        /\ \A a, b \in Instance : AppliedRecord(IdOf(r[1])) \notin Range(wire[<<a, b>>])
        /\ \A c \in Chart : deltas[c][IdOf(r[1])] = 0
        /\ \A k \in Instance : \A t \in Range(pending[k]) :
              t[2] \in Applied /\ IdOf(t[1]) = IdOf(r[1]) => t = r
    BY DEF DeltaInv, HeldInv
  <2>2. IdOf(r[1]) \in EventId
    BY HeldType
  <2>3. \A c \in Chart : deltas'[c][IdOf(r[1])] = 0
    BY <1>1, <1>3, <2>1, <2>2
  <2> QED BY <1>1, <2>1, <2>3
<1>5. WireInv'
  <2> SUFFICES ASSUME NEW a \in Instance, NEW b \in Instance, NEW e \in EventId,
                      AppliedRecord(e) \in Range(wire'[<<a, b>>])
               PROVE  /\ e \in processed'
                      /\ Once(wire'[<<a, b>>], AppliedRecord(e))
                      /\ \A l \in Instance : AppliedRecord(e) \in Range(wire'[<<l, b>>]) => l = a
                      /\ \A c \in Chart : Connected(c, b)' => deltas'[c][e] = 0
    BY DEF WireInv, AppliedRecord
  <2>1. AppliedRecord(e) \in Range(wire[<<a, b>>]) /\ AppliedRecord(e) \in Record
    BY <1>1 DEF AppliedRecord, Record
  <2>2. /\ e \in processed /\ Once(wire[<<a, b>>], AppliedRecord(e))
        /\ \A l \in Instance : AppliedRecord(e) \in Range(wire[<<l, b>>]) => l = a
        /\ \A c \in Chart : Connected(c, b) => deltas[c][e] = 0
    BY <2>1 DEF DeltaInv, WireInv
  <2>3. ASSUME NEW c \in Chart, Connected(c, b)' PROVE deltas'[c][e] = 0
    <3>1. Connected(c, b)
      BY <1>2, <2>3 DEF Connected
    <3>2. ASSUME AppliedRecord(e) = x, Connected(c, j) PROVE FALSE
      <4>1. b = j
        BY <3>1, <3>2 DEF Connected
      <4>2. i = a
        BY <2>2, <3>2, <4>1
      <4> QED BY <1>1, <2>2, <3>2, <4>1, <4>2
    <3> QED BY <1>3, <2>2, <3>1, <3>2
  <2>4. \A l \in Instance : AppliedRecord(e) \in Range(wire'[<<l, b>>]) => l = a
    BY <1>1, <2>2
  <2> QED BY <1>1, <1>2, <2>1, <2>2, <2>3, <2>4
<1>6. CountInv'
  <2> SUFFICES ASSUME NEW c \in Chart, NEW e \in EventId
               PROVE  /\ deltas'[c][e] <= 1
                      /\ deltas'[c][e] # 0 =>
                           /\ c \in joined' /\ e \in processed'
                           /\ Scope[c] \in {None, Envelope[e].tenant} /\ Envelope[e].type \in ChartTypes
    BY DEF CountInv
  <2>1. CASE deltas'[c][e] = deltas[c][e]
    BY <1>2, <2>1 DEF DeltaInv, CountInv
  <2>2. CASE /\ deltas'[c][e] = deltas[c][e] + 1 /\ AppliedRecord(e) = x /\ Connected(c, j)
             /\ Scope[c] \in {None, Envelope[e].tenant} /\ Envelope[e].type \in ChartTypes
    <3>1. deltas[c][e] = 0 /\ e \in processed
      BY <1>1, <2>2 DEF DeltaInv, WireInv
    <3>2. c \in joined'
      BY <1>2, <2>2 DEF Connected
    <3> QED BY <1>2, <2>2, <3>1, <3>2
  <2> QED BY <1>3, <2>1, <2>2
<1> QED BY <1>4, <1>5, <1>6 DEF DeltaInv

LEMMA DecideDelta ==
    ASSUME TypeOK, HandlerInv, DeltaInv, NEW i \in Instance, NEW m \in Message, Decide(i, m)
    PROVE  DeltaInv'
<1>1. UNCHANGED <<wire, deltas, joined, socket>>
  BY DEF Decide, watcherVars
<1>2. CASE UNCHANGED <<redisVars, pending>>
  BY <1>1, <1>2 DEF DeltaInv, HeldInv, WireInv, CountInv, Connected, redisVars
<1>3. CASE /\ m \in Events
           /\ AcceptEvent(IdOf(m))
           /\ pending' = [pending EXCEPT ![i] = Append(@, <<m, Acceptance(IdOf(m))>>)]
  <2> DEFINE q == <<m, Acceptance(IdOf(m))>>
             f == IdOf(m)
  <2>1. /\ processed' = processed \union {f} /\ f \in EventId
        /\ Acceptance(f) \in Applied => f \notin processed
        /\ Acceptance(f) \in AcceptanceStatus
    BY <1>3, EventsHaveIds, AcceptStep DEF TypeOK, HandlerInv
  <2>2. q \in Events \X AcceptanceStatus /\ IdOf(q[1]) = f /\ q[2] = Acceptance(f)
    BY <1>3, <2>1
  <2> HIDE DEF q, f
  <2>3. \A j \in Instance : pending[j] \in Seq(Events \X AcceptanceStatus)
    BY DEF TypeOK
  <2>4. ASSUME NEW j \in Instance, NEW r \in Range(pending'[j])
        PROVE  r \in Range(pending[j]) \/ r = q
    <3>1. \A y : y \in Range(Append(pending[i], q)) <=> y \in Range(pending[i]) \/ y = q
      BY <2>2, <2>3, RangeAppend
    <3>2. pending'[j] = IF j = i THEN Append(pending[i], q) ELSE pending[j]
      BY <1>3 DEF TypeOK, q, f
    <3>3. CASE j = i
      BY <2>4, <3>1, <3>2, <3>3
    <3>4. CASE j # i
      BY <2>4, <3>2, <3>4
    <3> QED BY <3>3, <3>4
  <2>5. \A j \in Instance : \A r \in Range(pending[j]) : r[2] \in Applied => IdOf(r[1]) \in processed
    BY DEF DeltaInv, HeldInv
  <2>6. HeldInv'
    <3> SUFFICES ASSUME NEW j \in Instance, NEW r \in Range(pending'[j]), r[2] \in Applied
                 PROVE  /\ IdOf(r[1]) \in processed'
                        /\ \A a, b \in Instance : AppliedRecord(IdOf(r[1])) \notin Range(wire[<<a, b>>])
                        /\ \A c \in Chart : deltas[c][IdOf(r[1])] = 0
                        /\ \A l \in Instance : \A t \in Range(pending'[l]) :
                              t[2] \in Applied /\ IdOf(t[1]) = IdOf(r[1]) => t = r
      BY <1>1 DEF HeldInv
    <3>1. CASE r = q
      <4>1. f \notin processed /\ IdOf(r[1]) = f
        BY <2>1, <2>2, <3>1
      <4>2. \A a, b \in Instance : AppliedRecord(f) \notin Range(wire[<<a, b>>])
        BY <2>1, <4>1 DEF DeltaInv, WireInv
      <4>3. \A c \in Chart : deltas[c][f] = 0
        BY <2>1, <4>1 DEF DeltaInv, CountInv
      <4>4. \A l \in Instance : \A t \in Range(pending'[l]) :
              t[2] \in Applied /\ IdOf(t[1]) = f => t = r
        BY <2>4, <2>5, <3>1, <4>1
      <4> QED BY <2>1, <4>1, <4>2, <4>3, <4>4
    <3>2. CASE r # q
      <4>1. r \in Range(pending[j])
        BY <2>4, <3>2
      <4>2. /\ IdOf(r[1]) \in processed
            /\ \A a, b \in Instance : AppliedRecord(IdOf(r[1])) \notin Range(wire[<<a, b>>])
            /\ \A c \in Chart : deltas[c][IdOf(r[1])] = 0
            /\ \A l \in Instance : \A t \in Range(pending[l]) :
                  t[2] \in Applied /\ IdOf(t[1]) = IdOf(r[1]) => t = r
        BY <4>1 DEF DeltaInv, HeldInv
      <4>3. \A l \in Instance : \A t \in Range(pending'[l]) :
              t[2] \in Applied /\ IdOf(t[1]) = IdOf(r[1]) => t = r
        BY <2>1, <2>2, <2>4, <4>2
      <4> QED BY <2>1, <4>2, <4>3
    <3> QED BY <3>1, <3>2
  <2>7. WireInv'
    BY <1>1, <2>1 DEF DeltaInv, WireInv, Connected
  <2>8. CountInv'
    BY <1>1, <2>1 DEF DeltaInv, CountInv
  <2> QED BY <2>6, <2>7, <2>8 DEF DeltaInv
<1> QED BY <1>2, <1>3 DEF Decide

(* A watcher that stays in its room, and one that enters it. *)
Stayed(w) ==
    /\ w \in joined /\ socket'[w] = socket[w] /\ since'[w] = since[w]
    /\ w \in Chart => deltas'[w] = deltas[w]
    /\ w \in Page => shown'[w] = shown[w]

Entered(w) == socket'[w] \in Instance /\ since'[w] = Arriving(socket'[w])

(* What the steps do to watchers that publish nothing. *)
LEMMA WatcherEffect ==
    ASSUME TypeOK, CountInv,
           \/ \E i \in Instance : Crash(i)
           \/ \E i \in Instance, m \in Message : Decide(i, m)
           \/ \E p \in Page, i \in Instance : Render(p, i) \/ Subscribe(p, i)
           \/ \E c \in Chart, i \in Instance : SubscribeChart(c, i)
           \/ \E c \in Chart : Unsubscribe(c)
           \/ \E w \in Watcher : Disconnect(w)
    PROVE  /\ \A w \in joined' : Stayed(w) \/ Entered(w)
           /\ \A c \in Chart : (c \in joined' /\ Stayed(c)) \/ (\A e \in EventId : deltas'[c][e] = 0)
           /\ \A a, b \in Instance : wire'[<<a, b>>] \in {wire[<<a, b>>], <<>>}
           /\ crashes' = 0 => crashes = 0 /\ wire' = wire
<1> DEFINE Goal ==
      /\ \A w \in joined' : Stayed(w) \/ Entered(w)
      /\ \A c \in Chart : (c \in joined' /\ Stayed(c)) \/ (\A e \in EventId : deltas'[c][e] = 0)
      /\ \A a, b \in Instance : wire'[<<a, b>>] \in {wire[<<a, b>>], <<>>}
      /\ crashes' = 0 => crashes = 0 /\ wire' = wire
<1> USE DEF Watcher
<1>0. /\ joined \subseteq Watcher /\ Page \intersect Chart = {}
      /\ \A c \in Chart : c \notin joined => \A e \in EventId : deltas[c][e] = 0
  BY WatcherAssumption DEF TypeOK, CountInv
<1>1. ASSUME NEW i \in Instance, Crash(i) PROVE Goal
  <2> DEFINE left == {w \in Watcher : socket[w] = i}
  <2>1. /\ joined' = joined \ left
        /\ since' = [w \in Watcher |-> IF w \in left THEN {} ELSE since[w]]
        /\ deltas' = [c \in Chart |-> IF c \in left THEN NoDeltas ELSE deltas[c]]
        /\ socket' = [w \in Watcher |-> IF socket[w] = i THEN None ELSE socket[w]]
        /\ UNCHANGED shown
    BY <1>1 DEF Crash, Leave
  <2>2. \A w \in joined' : Stayed(w)
    BY <1>0, <2>1 DEF Stayed
  <2>3. \A c \in Chart : (c \in joined' /\ Stayed(c)) \/ (\A e \in EventId : deltas'[c][e] = 0)
    <3> SUFFICES ASSUME NEW c \in Chart, ~(c \in joined' /\ Stayed(c)), NEW e \in EventId
                 PROVE  deltas'[c][e] = 0
      OBVIOUS
    <3>1. c \in left \/ c \notin joined
      BY <2>1, <2>2
    <3> QED BY <1>0, <2>1, <3>1 DEF NoDeltas
  <2>4. \A a, b \in Instance : wire'[<<a, b>>] \in {wire[<<a, b>>], <<>>}
    BY <1>1 DEF Crash
  <2>5. crashes' # 0
    BY <1>1 DEF Crash, TypeOK
  <2> QED BY <2>2, <2>3, <2>4, <2>5
<1>2. ASSUME UNCHANGED <<wire, crashes, shown, joined, socket, since, deltas>> PROVE Goal
  BY <1>0, <1>2 DEF Stayed
<1>3. ASSUME NEW i \in Instance, NEW m \in Message, Decide(i, m) PROVE Goal
  BY <1>2, <1>3 DEF Decide, watcherVars
<1>4. ASSUME NEW p \in Page, NEW i \in Instance, Render(p, i) PROVE Goal
  <2>1. p \notin joined
    BY <1>4 DEF Render, TypeOK
  <2>2. \A w \in joined : Stayed(w)
    BY <1>0, <1>4, <2>1 DEF Render, Stayed, TypeOK
  <2> QED BY <1>0, <1>4, <2>2 DEF Render
<1>5. ASSUME NEW w \in Watcher, NEW i \in Instance, Join(w, i), w \notin joined,
             UNCHANGED <<wire, crashes, shown, deltas>>
      PROVE  Goal
  <2>1. /\ joined' = joined \union {w} /\ socket' = [socket EXCEPT ![w] = i]
        /\ since' = [since EXCEPT ![w] = Arriving(i)]
    BY <1>5 DEF Join
  <2>2. socket'[w] = i /\ since'[w] = Arriving(i)
    BY <2>1 DEF TypeOK
  <2>3. Entered(w)
    BY <2>2 DEF Entered
  <2>4. \A v \in joined : Stayed(v)
    BY <1>0, <1>5, <2>1 DEF Stayed, TypeOK
  <2> QED BY <1>0, <1>5, <2>1, <2>3, <2>4
<1>6. ASSUME NEW p \in Page, NEW i \in Instance, Subscribe(p, i) PROVE Goal
  <2>1. p \in Watcher /\ p \notin joined
    BY <1>6 DEF Subscribe, TypeOK
  <2>2. CASE Join(p, i)
    BY <1>5, <1>6, <2>1, <2>2 DEF Subscribe
  <2>3. CASE UNCHANGED <<joined, socket, since>>
    BY <1>2, <1>6, <2>3 DEF Subscribe
  <2> QED BY <1>6, <2>2, <2>3 DEF Subscribe
<1>7. ASSUME NEW c \in Chart, NEW i \in Instance, SubscribeChart(c, i) PROVE Goal
  BY <1>5, <1>7 DEF SubscribeChart
<1>8. ASSUME NEW w \in Watcher, Leave({w}), UNCHANGED <<wire, crashes, shown>>,
             \A v \in Watcher : v # w => socket'[v] = socket[v]
      PROVE  Goal
  <2>1. /\ joined' = joined \ {w}
        /\ since' = [v \in Watcher |-> IF v \in {w} THEN {} ELSE since[v]]
        /\ deltas' = [c \in Chart |-> IF c \in {w} THEN NoDeltas ELSE deltas[c]]
    BY <1>8 DEF Leave
  <2>2. \A v \in joined' : Stayed(v)
    BY <1>0, <1>8, <2>1 DEF Stayed
  <2>3. \A c \in Chart : (c \in joined' /\ Stayed(c)) \/ (\A e \in EventId : deltas'[c][e] = 0)
    <3> SUFFICES ASSUME NEW c \in Chart, ~(c \in joined' /\ Stayed(c)), NEW e \in EventId
                 PROVE  deltas'[c][e] = 0
      OBVIOUS
    <3>1. c = w \/ c \notin joined
      BY <2>1, <2>2
    <3> QED BY <1>0, <2>1, <3>1 DEF NoDeltas
  <2> QED BY <1>8, <2>2, <2>3
<1>9. ASSUME NEW c \in Chart, Unsubscribe(c) PROVE Goal
  BY <1>8, <1>9 DEF Unsubscribe
<1>10. ASSUME NEW w \in Watcher, Disconnect(w) PROVE Goal
  BY <1>8, <1>10 DEF Disconnect, TypeOK
<1>11. Goal
  BY <1>1, <1>3, <1>4, <1>6, <1>7, <1>9, <1>10
<1> QED BY <1>11

(* A step that neither decides, announces nor relays anything. *)
LEMMA QuietDelta ==
    ASSUME DeltaInv, UNCHANGED processed,
           \A j \in Instance : Range(pending'[j]) \subseteq Range(pending[j]),
           \A c \in Chart : (c \in joined' /\ Stayed(c)) \/ (\A e \in EventId : deltas'[c][e] = 0),
           \A a, b \in Instance : wire'[<<a, b>>] \in {wire[<<a, b>>], <<>>},
           \A i \in Instance : \A q \in Range(pending[i]) : IdOf(q[1]) \in EventId
    PROVE  DeltaInv'
<1>1. ASSUME NEW a \in Instance, NEW b \in Instance, NEW y \in Range(wire'[<<a, b>>])
      PROVE  y \in Range(wire[<<a, b>>]) /\ wire'[<<a, b>>] = wire[<<a, b>>]
  BY <1>1, RangeEmpty
<1>2. \A c \in Chart, e \in EventId : deltas'[c][e] \in {deltas[c][e], 0}
  BY DEF Stayed
<1>3. HeldInv'
  <2> SUFFICES ASSUME NEW j \in Instance, NEW r \in Range(pending'[j]), r[2] \in Applied
               PROVE  /\ IdOf(r[1]) \in processed
                      /\ \A a, b \in Instance : AppliedRecord(IdOf(r[1])) \notin Range(wire'[<<a, b>>])
                      /\ \A c \in Chart : deltas'[c][IdOf(r[1])] = 0
                      /\ \A k \in Instance : \A t \in Range(pending'[k]) :
                            t[2] \in Applied /\ IdOf(t[1]) = IdOf(r[1]) => t = r
    BY DEF HeldInv
  <2>1. /\ IdOf(r[1]) \in processed
        /\ \A a, b \in Instance : AppliedRecord(IdOf(r[1])) \notin Range(wire[<<a, b>>])
        /\ \A c \in Chart : deltas[c][IdOf(r[1])] = 0
        /\ \A k \in Instance : \A t \in Range(pending[k]) :
              t[2] \in Applied /\ IdOf(t[1]) = IdOf(r[1]) => t = r
    BY DEF DeltaInv, HeldInv
  <2>2. \A a, b \in Instance : AppliedRecord(IdOf(r[1])) \notin Range(wire'[<<a, b>>])
    BY <1>1, <2>1
  <2>3. \A c \in Chart : deltas'[c][IdOf(r[1])] = 0
    BY <1>2, <2>1
  <2> QED BY <2>1, <2>2, <2>3
<1>4. WireInv'
  <2> SUFFICES ASSUME NEW a \in Instance, NEW b \in Instance, NEW e \in EventId,
                      AppliedRecord(e) \in Range(wire'[<<a, b>>])
               PROVE  /\ e \in processed'
                      /\ Once(wire'[<<a, b>>], AppliedRecord(e))
                      /\ \A l \in Instance : AppliedRecord(e) \in Range(wire'[<<l, b>>]) => l = a
                      /\ \A c \in Chart : Connected(c, b)' => deltas'[c][e] = 0
    BY DEF WireInv, AppliedRecord
  <2>1. AppliedRecord(e) \in Range(wire[<<a, b>>]) /\ wire'[<<a, b>>] = wire[<<a, b>>]
    BY <1>1
  <2>2. /\ e \in processed /\ Once(wire[<<a, b>>], AppliedRecord(e))
        /\ \A l \in Instance : AppliedRecord(e) \in Range(wire[<<l, b>>]) => l = a
        /\ \A c \in Chart : Connected(c, b) => deltas[c][e] = 0
    BY <2>1 DEF DeltaInv, WireInv
  <2>3. \A l \in Instance : AppliedRecord(e) \in Range(wire'[<<l, b>>]) => l = a
    BY <1>1, <2>2
  <2>4. \A c \in Chart : Connected(c, b)' => deltas'[c][e] = 0
    BY <2>2 DEF Stayed, Connected
  <2> QED BY <2>1, <2>2, <2>3, <2>4
<1>5. CountInv'
  <2> SUFFICES ASSUME NEW c \in Chart, NEW e \in EventId
               PROVE  /\ deltas'[c][e] <= 1
                      /\ deltas'[c][e] # 0 =>
                           /\ c \in joined' /\ e \in processed
                           /\ Scope[c] \in {None, Envelope[e].tenant} /\ Envelope[e].type \in ChartTypes
    BY DEF CountInv
  <2>1. CASE deltas'[c][e] = 0
    BY <2>1
  <2>2. CASE c \in joined' /\ Stayed(c)
    BY <2>2 DEF DeltaInv, CountInv, Stayed
  <2> QED BY <2>1, <2>2
<1> QED BY <1>3, <1>4, <1>5 DEF DeltaInv

LEMMA DeltaStep == TypeOK /\ HandlerInv /\ DeltaInv /\ [Next]_vars => DeltaInv'
<1> SUFFICES ASSUME TypeOK, HandlerInv, DeltaInv, [Next]_vars PROVE DeltaInv'
  OBVIOUS
<1>0. \A i \in Instance : \A q \in Range(pending[i]) : IdOf(q[1]) \in EventId
  BY HeldType
<1>1. CASE UNCHANGED vars
  BY <1>1 DEF vars, redisVars, feedVars, watcherVars, DeltaInv, HeldInv, WireInv, CountInv, Connected
<1>2. CASE \/ \E p \in Page, i \in Instance : Render(p, i) \/ Subscribe(p, i)
           \/ \E c \in Chart, i \in Instance : SubscribeChart(c, i)
           \/ \E c \in Chart : Unsubscribe(c)
           \/ \E w \in Watcher : Disconnect(w)
  <2>1. UNCHANGED <<processed, pending>>
    BY <1>2 DEF Render, Subscribe, SubscribeChart, Unsubscribe, Disconnect, redisVars, feedVars
  <2>2. /\ \A c \in Chart : (c \in joined' /\ Stayed(c)) \/ (\A e \in EventId : deltas'[c][e] = 0)
        /\ \A a, b \in Instance : wire'[<<a, b>>] \in {wire[<<a, b>>], <<>>}
    BY <1>2, WatcherEffect DEF DeltaInv
  <2>3. \A j \in Instance : Range(pending'[j]) \subseteq Range(pending[j])
    BY <2>1
  <2> QED BY <1>0, <2>1, <2>2, <2>3, QuietDelta
<1>3. ASSUME NEW i \in Instance, Crash(i) PROVE DeltaInv'
  <2>1. UNCHANGED processed
    BY <1>3 DEF Crash, redisVars
  <2>2. /\ \A c \in Chart : (c \in joined' /\ Stayed(c)) \/ (\A e \in EventId : deltas'[c][e] = 0)
        /\ \A a, b \in Instance : wire'[<<a, b>>] \in {wire[<<a, b>>], <<>>}
    BY <1>3, WatcherEffect DEF DeltaInv
  <2>3. \A j \in Instance : pending'[j] \in {pending[j], <<>>}
    BY <1>3 DEF Crash, TypeOK
  <2>4. \A j \in Instance : Range(pending'[j]) \subseteq Range(pending[j])
    BY <2>3, RangeEmpty
  <2> QED BY <1>0, <2>1, <2>2, <2>4, QuietDelta
<1>4. CASE Next
  BY <1>2, <1>3, <1>4, DecideDelta, ObserveDelta, RelayDelta DEF Next
<1> QED BY <1>1, <1>4

LEMMA DeltaInit == Init => DeltaInv
<1> SUFFICES ASSUME Init PROVE DeltaInv
  OBVIOUS
<1>1. \A i \in Instance : Range(pending[i]) = {}
  BY RangeEmpty DEF Init
<1>2. \A i, j \in Instance : Range(wire[<<i, j>>]) = {}
  BY RangeEmpty DEF Init
<1>3. \A c \in Chart, e \in EventId : deltas[c][e] = 0
  BY DEF Init, NoDeltas
<1> QED BY <1>1, <1>2, <1>3 DEF DeltaInv, HeldInv, WireInv, CountInv

-----------------------------------------------------------------------------
(* What is on its way                                                      *)

(* The records on their way to the instance w is connected to. *)
Coming(w) == UNION {Range(wire[<<i, socket[w]>>]) : i \in Instance}

(* A watcher was promised what is on its way to it; and until an instance  *)
(* crashes, a chart has counted what it was promised, or it is on its way. *)
PromiseInv == \A w \in joined : Coming(w) \subseteq since[w]

ToldInv ==
    crashes = 0 => \A c \in Chart \intersect joined : \A r \in since[c] :
        Scope[c] \in Rooms(r, "delta") => deltas[c][r.event] # 0 \/ r \in Coming(c)

LEMMA InArriving ==
    ASSUME NEW i, NEW r
    PROVE  r \in Arriving(i) <=> \E a \in Instance : r \in Range(wire[<<a, i>>])
<1>1. ASSUME NEW a \in Instance, r \in Range(wire[<<a, i>>]) PROVE r \in Arriving(i)
  <2>1. <<a, i>> \in Instance \X {i}
    OBVIOUS
  <2> QED BY <1>1, <2>1 DEF Arriving
<1>2. ASSUME r \in Arriving(i) PROVE \E a \in Instance : r \in Range(wire[<<a, i>>])
  <2>1. PICK c \in Instance \X {i} : r \in Range(wire[c])
    BY <1>2 DEF Arriving
  <2>2. c = <<c[1], i>> /\ c[1] \in Instance
    OBVIOUS
  <2> QED BY <2>1, <2>2
<1> QED BY <1>1, <1>2

LEMMA InComing ==
    ASSUME NEW w, NEW r
    PROVE  r \in Coming(w) <=> \E a \in Instance : r \in Range(wire[<<a, socket[w]>>])
  BY DEF Coming

(* What a watcher was promised and what is on its way to it, after a step. *)
LEMMA PromiseStep == TypeOK /\ HandlerInv /\ DeltaInv /\ PromiseInv /\ [Next]_vars => PromiseInv'
<1> SUFFICES ASSUME TypeOK, HandlerInv, DeltaInv, PromiseInv, [Next]_vars PROVE PromiseInv'
  OBVIOUS
<1>0. ASSUME NEW w \in joined, NEW a \in Instance
      PROVE  Range(wire[<<a, socket[w]>>]) \subseteq since[w] /\ socket[w] \in Instance /\ w \in Watcher
  BY InComing DEF PromiseInv, TypeOK
<1> SUFFICES ASSUME NEW w \in joined', NEW a \in Instance, NEW r \in Range(wire'[<<a, socket'[w]>>])
             PROVE  r \in since'[w]
  BY DEF PromiseInv, Coming
<1>1. CASE UNCHANGED vars
  BY <1>0, <1>1 DEF vars, watcherVars
<1>2. ASSUME NEW i \in Instance, Observe(i) PROVE r \in since'[w]
  <2>1. PICK x \in Record :
        /\ \A b, c \in Instance :
             wire'[<<b, c>>] = IF b = i /\ c # i THEN Append(wire[<<b, c>>], x) ELSE wire[<<b, c>>]
        /\ since' = [v \in Watcher |-> IF v \in joined THEN since[v] \union {x} ELSE {}]
    BY <1>2, ObserveEffect
  <2>2. UNCHANGED <<joined, socket>>
    BY <1>2 DEF Observe, watcherVars
  <2>3. since'[w] = since[w] \union {x} /\ socket[w] \in Instance
    BY <1>0, <2>1, <2>2
  <2>4. CASE wire'[<<a, socket[w]>>] = wire[<<a, socket[w]>>]
    BY <1>0, <2>2, <2>3, <2>4
  <2>5. CASE wire'[<<a, socket[w]>>] = Append(wire[<<a, socket[w]>>], x)
    <3>1. \A y : y \in Range(Append(wire[<<a, socket[w]>>], x)) <=> y \in Range(wire[<<a, socket[w]>>]) \/ y = x
      BY <2>3, WireType, RangeAppend
    <3>2. r \in Range(wire[<<a, socket[w]>>]) \/ r = x
      BY <2>2, <2>5, <3>1
    <3> QED BY <1>0, <2>2, <2>3, <3>2
  <2> QED BY <2>1, <2>3, <2>4, <2>5
<1>3. ASSUME NEW i \in Instance, NEW j \in Instance, Relay(i, j) PROVE r \in since'[w]
  <2>1. UNCHANGED <<joined, socket, since>>
    BY <1>3 DEF Relay, watcherVars
  <2>2. socket[w] \in Instance
    BY <1>0, <2>1
  <2>3. r \in Range(wire[<<a, socket[w]>>])
    BY <1>3, <2>1, <2>2, RelayEffect
  <2> QED BY <1>0, <2>1, <2>3
<1>4. CASE /\ Stayed(w) \/ Entered(w)
           /\ \A b, c \in Instance : wire'[<<b, c>>] \in {wire[<<b, c>>], <<>>}
  <2>1. CASE Stayed(w)
    <3>1. socket'[w] = socket[w] /\ since'[w] = since[w] /\ w \in joined
      BY <2>1 DEF Stayed
    <3>2. r \in Range(wire[<<a, socket[w]>>])
      BY <1>0, <1>4, <3>1, RangeEmpty
    <3> QED BY <1>0, <3>1, <3>2
  <2>2. CASE Entered(w)
    <3>1. socket'[w] \in Instance /\ since'[w] = Arriving(socket'[w])
      BY <2>2 DEF Entered
    <3>2. r \in Range(wire[<<a, socket'[w]>>])
      BY <1>4, <3>1, RangeEmpty
    <3> QED BY <3>1, <3>2, InArriving
  <2> QED BY <1>4, <2>1, <2>2
<1>5. CASE Next
  BY <1>2, <1>3, <1>4, <1>5, WatcherEffect DEF Next, DeltaInv
<1> QED BY <1>1, <1>5

LEMMA ToldStep == TypeOK /\ HandlerInv /\ DeltaInv /\ ToldInv /\ [Next]_vars => ToldInv'
<1> SUFFICES ASSUME TypeOK, HandlerInv, DeltaInv, ToldInv, [Next]_vars,
                    crashes' = 0, NEW c \in Chart, c \in joined', NEW r \in since'[c],
                    Scope[c] \in Rooms(r, "delta")
             PROVE  deltas'[c][r.event] # 0
                    \/ \E a \in Instance : r \in Range(wire'[<<a, socket'[c]>>])
  BY InComing DEF ToldInv, Coming
<1> DEFINE Goal ==
      deltas'[c][r.event] # 0 \/ \E a \in Instance : r \in Range(wire'[<<a, socket'[c]>>])
<1>0. ASSUME crashes = 0, c \in joined, r \in since[c]
      PROVE  /\ deltas[c][r.event] # 0 \/ \E a \in Instance : r \in Range(wire[<<a, socket[c]>>])
             /\ socket[c] \in Instance /\ r \in Record /\ r.event \in EventId
  <2>1. deltas[c][r.event] # 0 \/ r \in Coming(c)
    BY <1>0 DEF ToldInv
  <2>2. c \in Watcher
    BY DEF Watcher
  <2>3. socket[c] \in Instance /\ r \in Record
    BY <1>0, <2>2 DEF TypeOK
  <2> QED BY <2>1, <2>3, InComing DEF Record
<1>1. CASE UNCHANGED vars
  BY <1>0, <1>1 DEF vars, watcherVars
<1>2. ASSUME NEW i \in Instance, Observe(i) PROVE Goal
  <2>1. PICK x \in Record :
        /\ \A b, d \in Instance :
             wire'[<<b, d>>] = IF b = i /\ d # i THEN Append(wire[<<b, d>>], x) ELSE wire[<<b, d>>]
        /\ Receive(i, x)
        /\ since' = [v \in Watcher |-> IF v \in joined THEN since[v] \union {x} ELSE {}]
    BY <1>2, ObserveEffect
  <2>2. UNCHANGED <<joined, socket, crashes>> /\ c \in Watcher /\ c \in joined /\ crashes = 0
    BY <1>2 DEF Observe, watcherVars, Watcher
  <2>3. socket[c] \in Instance /\ since'[c] = since[c] \union {x}
    BY <2>1, <2>2 DEF TypeOK
  <2>4. \A a \in Instance : \A y \in Range(wire[<<a, socket[c]>>]) : y \in Range(wire'[<<a, socket[c]>>])
    <3> SUFFICES ASSUME NEW a \in Instance, NEW y \in Range(wire[<<a, socket[c]>>])
                 PROVE  y \in Range(wire'[<<a, socket[c]>>])
      OBVIOUS
    <3>1. y \in Range(Append(wire[<<a, socket[c]>>], x))
      BY <2>3, WireType, RangeAppend
    <3> QED BY <2>1, <2>3, <3>1
  <2>5. CASE r \in since[c]
    <3>1. /\ deltas[c][r.event] # 0 \/ \E a \in Instance : r \in Range(wire[<<a, socket[c]>>])
          /\ r.event \in EventId
      BY <1>0, <2>2, <2>5
    <3>2. deltas[c][r.event] # 0 => deltas'[c][r.event] # 0
      <4>1. deltas[c][r.event] \in Nat
        BY <3>1 DEF TypeOK
      <4>2. deltas'[c][r.event] \in {deltas[c][r.event], deltas[c][r.event] + 1}
        BY <2>1, <3>1, DeltaEffect
      <4> QED BY <4>1, <4>2
    <3> QED BY <2>2, <2>4, <3>1, <3>2
  <2>6. CASE r = x /\ socket[c] = i
    <3>1. Hears(c, i, x, "delta")
      BY <2>2, <2>6 DEF Hears
    <3>2. deltas[c][r.event] \in Nat /\ r.event \in EventId
      BY <2>6 DEF TypeOK, Record
    <3>3. deltas'[c][r.event] = deltas[c][r.event] + 1
      BY <2>1, <2>6, <3>1, <3>2, DeltaEffect
    <3> QED BY <3>2, <3>3
  <2>7. CASE r = x /\ socket[c] # i
    <3>1. wire'[<<i, socket[c]>>] = Append(wire[<<i, socket[c]>>], x)
      BY <2>1, <2>3, <2>7
    <3>2. x \in Range(Append(wire[<<i, socket[c]>>], x))
      BY <2>3, WireType, RangeAppend
    <3> QED BY <2>2, <2>7, <3>1, <3>2
  <2> QED BY <2>3, <2>5, <2>6, <2>7
<1>3. ASSUME NEW i \in Instance, NEW j \in Instance, Relay(i, j) PROVE Goal
  <2>1. PICK x \in Record :
        /\ \A a, b \in Instance : \A y \in Range(wire[<<a, b>>]) :
             y \in Range(wire'[<<a, b>>]) \/ (a = i /\ b = j /\ y = x)
        /\ Receive(j, x)
    BY <1>3, RelayEffect
  <2>2. UNCHANGED <<joined, socket, crashes, since>> /\ c \in joined
    BY <1>3 DEF Relay, watcherVars
  <2>3. /\ deltas[c][r.event] # 0 \/ \E a \in Instance : r \in Range(wire[<<a, socket[c]>>])
        /\ socket[c] \in Instance /\ r \in Record /\ r.event \in EventId
    BY <1>0, <2>2
  <2>4. deltas[c][r.event] \in Nat /\ deltas'[c][r.event] \in {deltas[c][r.event], deltas[c][r.event] + 1}
    <3>1. deltas[c][r.event] \in Nat
      BY <2>3 DEF TypeOK
    <3>2. deltas'[c][r.event] \in {deltas[c][r.event], deltas[c][r.event] + 1}
      BY <2>1, <2>3, DeltaEffect
    <3> QED BY <3>1, <3>2
  <2>5. CASE deltas[c][r.event] # 0
    BY <2>4, <2>5
  <2>6. ASSUME NEW a \in Instance, r \in Range(wire[<<a, socket[c]>>]) PROVE Goal
    <3>1. CASE r \in Range(wire'[<<a, socket[c]>>])
      BY <2>2, <3>1
    <3>2. CASE socket[c] = j /\ r = x
      <4>1. Hears(c, j, x, "delta")
        BY <2>2, <3>2 DEF Hears
      <4>2. deltas'[c][r.event] = deltas[c][r.event] + 1
        BY <2>1, <2>3, <3>2, <4>1, DeltaEffect
      <4> QED BY <2>4, <4>2
    <3> QED BY <2>1, <2>3, <2>6, <3>1, <3>2
  <2> QED BY <2>3, <2>5, <2>6
<1>4. CASE (Stayed(c) \/ Entered(c)) /\ crashes = 0 /\ wire' = wire
  <2>1. CASE Stayed(c)
    BY <1>0, <1>4, <2>1 DEF Stayed
  <2>2. CASE Entered(c)
    BY <1>4, <2>2, InArriving DEF Entered
  <2> QED BY <1>4, <2>1, <2>2
<1>5. CASE Next
  BY <1>2, <1>3, <1>4, <1>5, WatcherEffect DEF Next, DeltaInv
<1> QED BY <1>1, <1>5

LEMMA FeedInit == Init => DeltaInv /\ PromiseInv /\ ToldInv
  BY DeltaInit DEF Init, PromiseInv, ToldInv

LEMMA FeedCorrect == Spec => [](DeltaInv /\ PromiseInv /\ ToldInv)
<1> QED BY FeedInit, HandlersCorrect, DeltaStep, PromiseStep, ToldStep, PTL DEF Spec

(* A chart counts no event twice, none of another tenant and none that the *)
(* state has not reached; and what was applied since it joined it counts,  *)
(* once all was delivered and no instance crashed.                         *)
THEOREM DeltasCountOnce == Spec => []DeltasOnceInScope
<1>1. ASSUME TypeOK, HandlerInv, DeltaInv, ToldInv PROVE DeltasOnceInScope
  <2> SUFFICES ASSUME NEW c \in Chart, NEW e \in EventId
               PROVE  /\ deltas[c][e] <= 1
                      /\ deltas[c][e] = 1 =>
                           /\ Scope[c] \in {None, Envelope[e].tenant}
                           /\ Envelope[e].type \in ChartTypes
                           /\ VersionOf(e) <= version[KeyOf(e)]
                      /\ Delivered /\ crashes = 0 /\ c \in joined /\ e \in Promised(c, "delta")
                           => deltas[c][e] = 1
    BY DEF DeltasOnceInScope
  <2>1. /\ deltas[c][e] \in Nat /\ deltas[c][e] <= 1
        /\ deltas[c][e] # 0 =>
             /\ Scope[c] \in {None, Envelope[e].tenant}
             /\ Envelope[e].type \in ChartTypes
             /\ e \in processed
    BY <1>1 DEF DeltaInv, CountInv, TypeOK
  <2>2. e \in processed => VersionOf(e) <= version[KeyOf(e)]
    BY <1>1 DEF HandlerInv, Reached
  <2>3. ASSUME Delivered, crashes = 0, c \in joined, e \in Promised(c, "delta")
        PROVE  deltas[c][e] # 0
    <3>1. PICK r \in since[c] : Scope[c] \in Rooms(r, "delta") /\ e = r.event
      BY <2>3 DEF Promised
    <3>2. socket[c] \in Instance
      BY <1>1, <2>3 DEF TypeOK
    <3>3. Coming(c) = {}
      <4>1. \A a \in Instance : wire[<<a, socket[c]>>] = <<>>
        BY <1>1, <2>3, <3>2 DEF Delivered, TypeOK
      <4> QED BY <4>1, RangeEmpty DEF Coming
    <3> QED BY <1>1, <2>3, <3>1, <3>3 DEF ToldInv
  <2> QED BY <2>1, <2>2, <2>3
<1> QED BY <1>1, FeedCorrect, HandlersCorrect, PTL

-----------------------------------------------------------------------------
(* What the dashboard shows                                                *)

(* The first k items of a list are about different events of P: as many as *)
(* fit, or all of P that are not in C.                                     *)
Shows(list, k, P, C) ==
    /\ Fresh(list, k, P)
    /\ \/ k = Capacity
       \/ \A e \in P : (\E n \in 1 .. k : list[n].event = e) \/ e \in C

ComingEvents(w) == {r.event : r \in Coming(w)}

ShownInv ==
    crashes = 0 => \A p \in Page \intersect joined :
        \E k \in 0 .. Len(shown[p]) : Shows(shown[p], k, Promised(p, "activity"), ComingEvents(p))

(* A list that is not changed, when more is promised and on its way. *)
LEMMA ShowsMore ==
    ASSUME NEW list, NEW k, NEW P, NEW C, NEW Q, NEW D, Shows(list, k, P, C),
           P \subseteq Q, C \subseteq D, \A e \in Q : e \in P \/ e \in D
    PROVE  Shows(list, k, Q, D)
  BY DEF Shows, Fresh

(* A list that is merged with an item about one of the promised events. *)
LEMMA ShowsMerged ==
    ASSUME NEW list \in Seq(Record), NEW x \in Record, NEW k \in 0 .. Len(list),
           NEW P, NEW C, NEW Q, NEW D, Shows(list, k, P, C),
           x.event \in Q, P \subseteq Q, \A e \in Q : e \in P \/ e = x.event,
           \A e \in C : e \in D \/ e = x.event
    PROVE  LET new == MergeRecentActivity(list, x) IN
           \E l \in 0 .. Len(new) : Shows(new, l, Q, D)
<1> DEFINE new == MergeRecentActivity(list, x)
<1>1. Fresh(list, k, Q)
  BY DEF Shows, Fresh
<1>2. /\ new \in Seq(Record) /\ Len(new) <= Capacity
      /\ \E l \in 1 .. Len(new) :
           /\ Fresh(new, l, Q)
           /\ new[1].event = x.event
           /\ l = Capacity \/ \A n \in 1 .. k : \E m \in 1 .. l : new[m].event = list[n].event
  BY <1>1, MergeShows
<1> HIDE DEF new
<1>3. PICK l \in 1 .. Len(new) :
        /\ Fresh(new, l, Q)
        /\ new[1].event = x.event
        /\ l = Capacity \/ \A n \in 1 .. k : \E m \in 1 .. l : new[m].event = list[n].event
  BY <1>2
<1>4. Len(list) \in Nat /\ Len(new) \in Nat /\ Capacity \in Nat \ {0} /\ l \in 0 .. Len(new) /\ 1 \in 1 .. l
  BY <1>2, LenProperties, CapacityAssumption
<1>5. ASSUME l # Capacity PROVE k # Capacity
  <2>1. \A n \in 1 .. k : \E m \in 1 .. l : new[m].event = list[n].event
    BY <1>3, <1>5
  <2> DEFINE f == [n \in 1 .. k |-> CHOOSE m \in 1 .. l : new[m].event = list[n].event]
  <2>2. \A n \in 1 .. k : f[n] \in 1 .. l /\ new[f[n]].event = list[n].event
    BY <2>1
  <2>3. f \in [1 .. k -> 1 .. l]
    BY <2>2
  <2> HIDE DEF f
  <2>4. \A m, n \in 1 .. k : m # n => f[m] # f[n]
    <3>1. \A m, n \in 1 .. k : m # n => list[m].event # list[n].event
      BY <1>1, <1>4 DEF Fresh
    <3> QED BY <2>2, <3>1
  <2>5. f \in Injection(1 .. k, 1 .. l)
    BY <2>3, <2>4 DEF Injection, IsInjective
  <2>6. /\ Cardinality(1 .. k) = k /\ IsFiniteSet(1 .. l) /\ Cardinality(1 .. l) = l
    BY <1>4, FS_Interval
  <2>7. Cardinality(1 .. k) <= Cardinality(1 .. l)
    BY <2>5, <2>6, FS_Injection
  <2> QED BY <1>2, <1>4, <1>5, <2>6, <2>7
<1>6. ASSUME l # Capacity, NEW e \in Q, e \notin D PROVE \E n \in 1 .. l : new[n].event = e
  <2>1. CASE e = x.event
    BY <1>3, <1>4, <2>1
  <2>2. CASE e # x.event
    <3>1. e \in P /\ e \notin C
      BY <1>6, <2>2
    <3>2. PICK n \in 1 .. k : list[n].event = e
      BY <1>5, <1>6, <3>1 DEF Shows
    <3> QED BY <1>3, <1>6, <3>2
  <2> QED BY <2>1, <2>2
<1>7. \E y \in 0 .. Len(new) : Shows(new, y, Q, D)
  BY <1>3, <1>4, <1>6 DEF Shows
<1> QED BY <1>7 DEF new

LEMMA ShownStep ==
    TypeOK /\ HandlerInv /\ DeltaInv /\ PromiseInv /\ ShownInv /\ [Next]_vars => ShownInv'
<1> SUFFICES ASSUME TypeOK, HandlerInv, DeltaInv, PromiseInv, ShownInv, [Next]_vars,
                    crashes' = 0, NEW p \in Page, p \in joined'
             PROVE  \E k \in 0 .. Len(shown'[p]) :
                      Shows(shown'[p], k, Promised(p, "activity")', ComingEvents(p)')
  BY DEF ShownInv
<1>1. PICK P, C : P = Promised(p, "activity") /\ C = ComingEvents(p)
  OBVIOUS
<1>2. PICK Q, D : Q = Promised(p, "activity")' /\ D = ComingEvents(p)'
  OBVIOUS
<1> DEFINE Goal == \E k \in 0 .. Len(shown'[p]) : Shows(shown'[p], k, Q, D)
<1>3. /\ \A e : e \in P <=> Scope[p] = None /\ \E r \in since[p] : r.event = e
      /\ \A e : e \in Q <=> Scope[p] = None /\ \E r \in since'[p] : r.event = e
  BY <1>1, <1>2 DEF Promised, Rooms
<1>4. /\ \A e : e \in C <=> \E a \in Instance : \E r \in Range(wire[<<a, socket[p]>>]) : r.event = e
      /\ \A e : e \in D <=> \E a \in Instance : \E r \in Range(wire'[<<a, socket'[p]>>]) : r.event = e
  BY <1>1, <1>2 DEF ComingEvents, Coming
<1>5. /\ shown[p] \in Seq(Record) /\ Len(shown'[p]) \in Nat /\ p \in Watcher
      /\ p \in joined => socket[p] \in Instance
  <2>1. TypeOK'
    BY NextType
  <2>2. shown[p] \in Seq(Record) /\ shown'[p] \in Seq(Record)
    BY <2>1 DEF TypeOK
  <2> QED BY <2>2, LenProperties DEF TypeOK, Watcher
<1>6. ASSUME p \in joined, crashes = 0
      PROVE  \E k \in 0 .. Len(shown[p]) : Shows(shown[p], k, P, C)
  BY <1>1, <1>6 DEF ShownInv
(* Nothing is promised to a page of one tenant, or that has just entered *)
<1>7. CASE \A e \in Q : e \in D
  <2>1. 0 \in 0 .. Len(shown'[p]) /\ Shows(shown'[p], 0, Q, D)
    BY <1>5, <1>7 DEF Shows, Fresh
  <2> QED BY <1>2, <2>1
<1>8. ASSUME p \in joined, crashes = 0, shown'[p] = shown[p],
             P \subseteq Q, C \subseteq D, \A e \in Q : e \in P \/ e \in D
      PROVE  Goal
  BY <1>6, <1>8, ShowsMore
<1>9. ASSUME NEW x \in Record, p \in joined, crashes = 0,
             shown'[p] = MergeRecentActivity(shown[p], x), x.event \in Q, P \subseteq Q,
             \A e \in Q : e \in P \/ e = x.event, \A e \in C : e \in D \/ e = x.event
      PROVE  Goal
  <2>1. PICK k \in 0 .. Len(shown[p]) : Shows(shown[p], k, P, C)
    BY <1>6, <1>9
  <2>2. PICK s, new : s = shown[p] /\ new = MergeRecentActivity(s, x)
    OBVIOUS
  <2>3. \E l \in 0 .. Len(new) : Shows(new, l, Q, D)
    <3>1. s \in Seq(Record) /\ k \in 0 .. Len(s) /\ Shows(s, k, P, C)
      BY <1>5, <2>1, <2>2
    <3> QED BY <1>9, <2>2, <3>1, ShowsMerged
  <2> QED BY <1>9, <2>2, <2>3
<1>10. CASE UNCHANGED vars
  <2>1. Promised(p, "activity")' = Promised(p, "activity") /\ ComingEvents(p)' = ComingEvents(p)
    BY <1>10 DEF vars, watcherVars, Promised, ComingEvents, Coming
  <2> QED BY <1>1, <1>2, <1>8, <1>10, <2>1 DEF vars, watcherVars
<1>11. ASSUME NEW i \in Instance, Observe(i), Scope[p] = None PROVE Goal
  <2>1. PICK x \in Record :
        /\ \A a, b \in Instance :
             wire'[<<a, b>>] = IF a = i /\ b # i THEN Append(wire[<<a, b>>], x) ELSE wire[<<a, b>>]
        /\ Receive(i, x)
        /\ since' = [v \in Watcher |-> IF v \in joined THEN since[v] \union {x} ELSE {}]
    BY <1>11, ObserveEffect
  <2>2. UNCHANGED <<joined, socket, crashes>> /\ p \in joined /\ crashes = 0
    BY <1>11 DEF Observe, watcherVars
  <2>3. socket[p] \in Instance /\ since'[p] = since[p] \union {x}
    BY <1>5, <2>1, <2>2
  <2>4. x.event \in Q /\ P \subseteq Q /\ \A e \in Q : e \in P \/ e = x.event
    BY <1>3, <1>11, <2>3
  <2>5. \A a \in Instance : \A y \in Range(wire[<<a, socket[p]>>]) : y \in Range(wire'[<<a, socket[p]>>])
    <3> SUFFICES ASSUME NEW a \in Instance, NEW y \in Range(wire[<<a, socket[p]>>])
                 PROVE  y \in Range(wire'[<<a, socket[p]>>])
      OBVIOUS
    <3>1. y \in Range(Append(wire[<<a, socket[p]>>], x))
      BY <2>3, WireType, RangeAppend
    <3> QED BY <2>1, <2>3, <3>1
  <2>6. C \subseteq D
    BY <1>4, <2>2, <2>5
  <2>7. shown'[p] = IF socket[p] = i THEN MergeRecentActivity(shown[p], x) ELSE shown[p]
    BY <1>11, <2>1, <2>2 DEF Receive, Hears, Rooms
  <2>8. CASE socket[p] = i
    BY <1>9, <2>2, <2>4, <2>6, <2>7, <2>8
  <2>9. CASE socket[p] # i
    <3>1. wire'[<<i, socket[p]>>] = Append(wire[<<i, socket[p]>>], x)
      BY <2>1, <2>3, <2>9
    <3>2. x \in Range(Append(wire[<<i, socket[p]>>], x))
      BY <2>3, WireType, RangeAppend
    <3>3. x.event \in D
      BY <1>4, <2>2, <3>1, <3>2
    <3> QED BY <1>8, <2>2, <2>4, <2>6, <2>7, <2>9, <3>3
  <2> QED BY <2>8, <2>9
<1>12. ASSUME NEW i \in Instance, NEW j \in Instance, Relay(i, j), Scope[p] = None PROVE Goal
  <2>1. PICK x \in Range(wire[<<i, j>>]) :
        /\ x \in Record
        /\ \A a, b \in Instance : \A y \in Range(wire[<<a, b>>]) :
             y \in Range(wire'[<<a, b>>]) \/ (a = i /\ b = j /\ y = x)
        /\ Receive(j, x)
    BY <1>12, RelayEffect
  <2>2. UNCHANGED <<joined, socket, crashes, since>> /\ p \in joined /\ crashes = 0
    BY <1>12 DEF Relay, watcherVars
  <2>3. P = Q
    BY <1>3, <2>2
  <2>4. shown'[p] = IF socket[p] = j THEN MergeRecentActivity(shown[p], x) ELSE shown[p]
    BY <1>12, <2>1, <2>2 DEF Receive, Hears, Rooms
  <2>5. socket[p] \in Instance
    BY <1>5, <2>2
  <2>6. CASE socket[p] = j
    <3>1. x \in since[p]
      BY <2>2, <2>6, InComing DEF PromiseInv
    <3>2. x.event \in P
      BY <1>3, <1>12, <3>1
    <3>3. \A e \in C : e \in D \/ e = x.event
      BY <1>4, <2>1, <2>2, <2>5
    <3> QED BY <1>9, <2>1, <2>2, <2>3, <2>4, <2>6, <3>2, <3>3
  <2>7. CASE socket[p] # j
    <3>1. C \subseteq D
      BY <1>4, <2>1, <2>2, <2>5, <2>7
    <3> QED BY <1>8, <2>2, <2>3, <2>4, <2>7, <3>1
  <2> QED BY <2>6, <2>7
<1>13. CASE (Stayed(p) \/ Entered(p)) /\ crashes = 0 /\ wire' = wire
  <2>1. CASE Stayed(p)
    <3>1. /\ p \in joined /\ socket'[p] = socket[p] /\ since'[p] = since[p] /\ shown'[p] = shown[p]
      BY <2>1 DEF Stayed
    <3>2. \A e : (e \in P <=> e \in Q) /\ (e \in C <=> e \in D)
      BY <1>3, <1>4, <1>13, <3>1
    <3> QED BY <1>2, <1>8, <1>13, <3>1, <3>2
  <2>2. CASE Entered(p)
    <3>1. since'[p] = Arriving(socket'[p])
      BY <2>2 DEF Entered
    <3>2. \A r \in since'[p] : \E a \in Instance : r \in Range(wire'[<<a, socket'[p]>>])
      BY <1>13, <3>1, InArriving
    <3>3. \A e \in Q : e \in D
      BY <1>3, <1>4, <3>2
    <3> QED BY <1>7, <3>3
  <2> QED BY <1>13, <2>1, <2>2
<1>14. CASE Scope[p] # None
  BY <1>3, <1>7, <1>14
<1>15. CASE Next /\ Scope[p] = None
  BY <1>2, <1>11, <1>12, <1>13, <1>15, WatcherEffect DEF Next, DeltaInv
<1> QED BY <1>2, <1>10, <1>14, <1>15

LEMMA ShownCorrect == Spec => []ShownInv
<1>1. Init => ShownInv
  BY DEF Init, ShownInv
<1> QED BY <1>1, FeedCorrect, HandlersCorrect, ShownStep, PTL DEF Spec

(* Once everything was delivered and no instance crashed, a page that      *)
(* joined its room shows every event announced since, once, unless newer   *)
(* ones have filled its list; and it was rendered from the newest records. *)
THEOREM DashboardShowsNewest == Spec => []NewestAreShown
<1>1. ASSUME TypeOK, ShownInv, StoreHoldsNewest PROVE NewestAreShown
  <2> SUFFICES ASSUME Delivered, crashes = 0, NEW p \in Page, p \in joined
               PROVE  LET list == {shown[p][n].event : n \in DOMAIN shown[p]}
                          promised == Promised(p, "activity")
                      IN /\ \/ promised \subseteq list
                            \/ Len(shown[p]) = Capacity /\ list \subseteq promised
                         /\ \A m, n \in DOMAIN shown[p] :
                              shown[p][m].event = shown[p][n].event /\ shown[p][m].event \in promised
                                => m = n
    BY <1>1 DEF NewestAreShown
  <2>1. PICK P, s : P = Promised(p, "activity") /\ s = shown[p]
    OBVIOUS
  <2>2. s \in Seq(Record) /\ Len(s) <= Capacity
    BY <1>1, <2>1 DEF TypeOK
  <2>3. Len(s) \in Nat /\ DOMAIN s = 1 .. Len(s) /\ Capacity \in Nat
    BY <2>2, LenProperties, CapacityAssumption
  <2>4. ComingEvents(p) = {}
    <3>1. socket[p] \in Instance
      BY <1>1 DEF TypeOK
    <3>2. \A a \in Instance : wire[<<a, socket[p]>>] = <<>>
      BY <1>1, <3>1 DEF Delivered, TypeOK
    <3> QED BY <3>2, RangeEmpty DEF ComingEvents, Coming
  <2>5. PICK k \in 0 .. Len(s) : Shows(s, k, P, {})
    BY <1>1, <2>1, <2>4 DEF ShownInv
  <2>6. /\ \A n \in 1 .. k : s[n].event \in P
        /\ \A n \in 1 .. k, m \in 1 .. Len(s) : m # n => s[m].event # s[n].event
        /\ k = Capacity \/ \A e \in P : \E n \in 1 .. k : s[n].event = e
    BY <2>5 DEF Shows, Fresh
  <2>7. CASE k = Capacity
    <3>1. k = Len(s)
      <4>1. PICK N : N = Len(s)
        OBVIOUS
      <4>2. N \in Nat /\ N <= k /\ k \in 0 .. N
        BY <2>2, <2>3, <2>7, <4>1
      <4>3. k = N
        BY <4>2
      <4> QED BY <4>1, <4>3
    <3> QED BY <2>1, <2>3, <2>6, <2>7, <3>1
  <2>8. CASE \A e \in P : \E n \in 1 .. k : s[n].event = e
    <3>1. P \subseteq {s[n].event : n \in DOMAIN s}
      BY <2>3, <2>8
    <3>2. \A m, n \in DOMAIN s : s[m].event = s[n].event /\ s[m].event \in P => m = n
      <4> SUFFICES ASSUME NEW m \in 1 .. Len(s), NEW n \in 1 .. Len(s),
                          s[m].event = s[n].event, s[m].event \in P
                   PROVE  m = n
        BY <2>3
      <4>1. PICK l \in 1 .. k : s[l].event = s[m].event
        BY <2>8
      <4>2. m = l /\ n = l
        BY <2>6, <4>1
      <4> QED BY <4>2
    <3> QED BY <2>1, <3>1, <3>2
  <2> QED BY <2>6, <2>7, <2>8
<1> QED BY <1>1, HandlersCorrect, ShownCorrect, NewestAreStored, PTL

-----------------------------------------------------------------------------
(* What an accepted body is good for (EventContract)                       *)

(* The types of events of auctions *)
LEMMA AuctionTypesAre ==
    AuctionTypes = {"BidAccepted", "AuctionClosed", "WinnerSelected", "AuctionPurchased", "AuctionCancelled"}
  BY DEF AuctionTypes, IntegrationEventType, PayloadContract, AggregateOf

LEMMA FieldIsValue ==
    ASSUME NEW m, IsBody(m), IsRecord(m)
    PROVE  /\ \A f : IsValue(Field(m, f))
           /\ IsRecord(Field(m, "payload")) => \A f : IsValue(Field(Field(m, "payload"), f))
<1>1. IsValue(<<"undefined">>)
  BY DEF IsValue
<1>2. \A f : IsValue(Field(m, f))
  BY <1>1 DEF IsBody, Field
<1>3. ASSUME IsRecord(Field(m, "payload")), NEW f PROVE IsValue(Field(Field(m, "payload"), f))
  <2>1. "payload" \in DOMAIN m[2] /\ Field(m, "payload") = m[2].payload
    BY <1>3 DEF Field, IsRecord
  <2> QED BY <1>1, <1>3, <2>1 DEF IsBody, Field
<1> QED BY <1>2, <1>3

LEMMA ValueOfKind ==
    ASSUME NEW v, IsValue(v)
    PROVE  /\ IsUuid(v) => v = <<"uuid", v[2]>>
           /\ IsPositiveInteger(v) => v = <<"number", v[2]>> /\ v[2] \in Nat \ {0}
           /\ IsValidAmount(v) => v[1] \in {"number", "fraction"} /\ v[2] \in Int /\ v[2] >= 0 /\ v # <<"">>
                                  /\ v # <<"null">>
           /\ v # <<"">>
<1>1. IsUuid(v) => v = <<"uuid", v[2]>>
  BY DEF IsValue, IsUuid
<1>2. IsPositiveInteger(v) => v = <<"number", v[2]>> /\ v[2] \in Nat \ {0}
  BY DEF IsValue, IsPositiveInteger
<1>3. v[1] # "" /\ <<"">>[1] = ""
  BY DEF IsValue
<1>4. v # <<"">>
  BY <1>3
<1>5. ASSUME IsValidAmount(v)
      PROVE  v[1] \in {"number", "fraction"} /\ v[2] \in Int /\ v[2] >= 0 /\ v # <<"null">>
  <2>1. v[1] \in {"number", "fraction"} /\ v[2] \in Int /\ v[2] >= 0
    BY <1>5 DEF IsValue, IsValidAmount
  <2>2. v[1] # "null" /\ <<"null">>[1] = "null"
    BY <2>1
  <2>3. v # <<"null">>
    BY <2>2
  <2> QED BY <2>1, <2>3
<1> QED BY <1>1, <1>2, <1>4, <1>5

LEMMA BaseFields ==
    ASSUME NEW m, IsBody(m), ValidBaseEnvelope(m)
    PROVE  /\ IsUuid(Field(m, "eventId")) /\ IsIsoDate(Field(m, "occurredAtUtc"))
           /\ Field(m, "aggregateId") = <<"uuid", Field(m, "aggregateId")[2]>>
           /\ Field(m, "aggregateVersion") = <<"number", Field(m, "aggregateVersion")[2]>>
           /\ Field(m, "aggregateVersion")[2] \in Nat \ {0}
           /\ Field(m, "correlationId")[1] \in {"uuid", "date", "text", "blank", "null"}
<1>1. \A f : IsValue(Field(m, f))
  BY FieldIsValue DEF ValidBaseEnvelope
<1>2. Field(m, "correlationId")[1] \in {"uuid", "date", "text", "blank", "null"}
  <2>1. CASE Field(m, "correlationId") = <<"null">>
    BY <2>1
  <2>2. CASE IsString(Field(m, "correlationId"))
    BY <2>2 DEF IsString
  <2> QED BY <2>1, <2>2 DEF ValidBaseEnvelope
<1>3. IsUuid(Field(m, "aggregateId")) /\ IsPositiveInteger(Field(m, "aggregateVersion"))
      /\ IsUuid(Field(m, "eventId")) /\ IsIsoDate(Field(m, "occurredAtUtc"))
  BY DEF ValidBaseEnvelope
<1> QED BY <1>1, <1>2, <1>3, ValueOfKind

Shapes == {"aggregate", "version", "event", "occurrence",
           "uuid", "text", "text?", "date", "amount", "amount?", "price", "status"}

(* A field that the contract names is there and has a value of its shape. *)
LEMMA ConformingKind ==
    ASSUME NEW m, IsBody(m), ValidBaseEnvelope(m), NEW v, NEW shape \in Shapes, Conforms(v, shape, m)
    PROVE  v[1] \in {"uuid", "text", "date", "number", "fraction", "null"}
<1>1. DOMAIN Linked = {"aggregate", "version", "event", "occurrence"}
      /\ Linked["aggregate"] = "aggregateId" /\ Linked["version"] = "aggregateVersion"
      /\ Linked["event"] = "eventId" /\ Linked["occurrence"] = "occurredAtUtc"
  BY DEF Linked
<1>2. CASE shape \in DOMAIN Linked
  <2>1. v = Field(m, Linked[shape])
    BY <1>1, <1>2 DEF Conforms
  <2>2. CASE shape = "aggregate"
    <3>1. v[1] = "uuid"
      BY <1>1, <2>1, <2>2, BaseFields
    <3> QED BY <3>1
  <2>3. CASE shape = "version"
    <3>1. v[1] = "number"
      BY <1>1, <2>1, <2>3, BaseFields
    <3> QED BY <3>1
  <2>4. CASE shape = "event"
    BY <1>1, <2>1, <2>4, BaseFields DEF IsUuid
  <2>5. CASE shape = "occurrence"
    BY <1>1, <2>1, <2>5, BaseFields DEF IsIsoDate
  <2> QED BY <1>1, <1>2, <2>2, <2>3, <2>4, <2>5
<1>3. CASE shape = "uuid"
  BY <1>1, <1>3 DEF Conforms, IsUuid
<1>4. CASE shape \in {"text", "text?"}
  <2>1. IsText(v) \/ v = <<"null">>
    BY <1>1, <1>4 DEF Conforms
  <2>2. IsText(v) => v[1] \in {"uuid", "text", "date"}
    BY DEF IsText, IsString
  <2> QED BY <2>1, <2>2
<1>5. CASE shape = "date"
  BY <1>1, <1>5 DEF Conforms, IsIsoDate
<1>6. CASE shape \in {"amount", "amount?", "price"}
  <2>1. IsValidAmount(v) \/ v = <<"null">>
    BY <1>1, <1>6 DEF Conforms
  <2>2. IsValidAmount(v) => v[1] \in {"number", "fraction"}
    BY DEF IsValidAmount
  <2> QED BY <2>1, <2>2
<1>7. CASE shape = "status"
  <2>1. v \in Statuses
    BY <1>1, <1>7 DEF Conforms
  <2>2. PICK t : v = <<"text", t>>
    BY <2>1 DEF Statuses
  <2> QED BY <2>2
<1> QED BY <1>1, <1>2, <1>3, <1>4, <1>5, <1>6, <1>7 DEF Shapes

(* What is kept of an accepted body of a type of auction event *)
LEMMA KeptOfBody ==
    ASSUME NEW m, IsBody(m), IsLiveFeedEnvelope(m), NEW type \in AuctionTypes,
           Field(m, "eventType")[2] = type,
           NEW contract, PayloadContract[type] = contract,
           \A f \in DOMAIN contract : contract[f] \in Shapes
    PROVE  LET e == ValidateLiveFeedEnvelope(m) IN
           /\ ValidBaseEnvelope(m)
           /\ e.eventType = type /\ e.occurredAtUtc = Field(m, "occurredAtUtc")
           /\ e.aggregateId = Field(m, "aggregateId")
           /\ e.aggregateVersion = Field(m, "aggregateVersion")
           /\ e.correlationId = Field(m, "correlationId")
           /\ e.payload = [f \in DOMAIN contract |-> e.payload[f]]
           /\ \A f \in DOMAIN contract :
                IsValue(e.payload[f]) /\ Conforms(e.payload[f], contract[f], m)
<1> DEFINE p == Field(m, "payload")
           e == ValidateLiveFeedEnvelope(m)
<1>1. ValidBaseEnvelope(m) /\ IsRecord(p) /\ IsRecord(m)
  BY DEF IsLiveFeedEnvelope, ValidBaseEnvelope
<1>2. \A f \in DOMAIN contract : Conforms(Field(p, f), contract[f], m)
  <2>1. PICK t \in IntegrationEventType :
          /\ Field(m, "eventType") = <<"text", t>>
          /\ \A f \in DOMAIN PayloadContract[t] : Conforms(Field(p, f), PayloadContract[t][f], m)
    BY DEF IsLiveFeedEnvelope
  <2>2. t = type
    BY <2>1
  <2> QED BY <2>1, <2>2
<1>3. ASSUME NEW f \in DOMAIN contract PROVE f \in DOMAIN p[2] /\ IsValue(Field(p, f)) /\ p[2][f] = Field(p, f)
  <2>1. Field(p, f)[1] # "undefined"
    BY <1>1, <1>2, ConformingKind
  <2>2. f \in DOMAIN p[2]
    BY <2>1 DEF Field
  <2>3. IsValue(Field(p, f))
    BY <1>1, FieldIsValue
  <2> QED BY <2>2, <2>3 DEF Field
<1>4. e.payload = Restrict(p[2], DOMAIN contract) /\ e.eventType = type
      /\ e.occurredAtUtc = Field(m, "occurredAtUtc") /\ e.aggregateId = Field(m, "aggregateId")
      /\ e.aggregateVersion = Field(m, "aggregateVersion") /\ e.correlationId = Field(m, "correlationId")
  BY DEF ValidateLiveFeedEnvelope
<1> HIDE DEF p, e
<1>5. e.payload = [f \in DOMAIN contract |-> p[2][f]]
  BY <1>4 DEF Restrict
<1> QED BY <1>1, <1>2, <1>3, <1>4, <1>5 DEF e

LEMMA BesidesTold ==
    ASSUME NEW e, e.eventType \in AuctionTypes
    PROVE  /\ DOMAIN Besides(e) \subseteq {"correlationId", "occurredAtUtc", "status", "auctionVersion"}
           /\ "auctionVersion" \in DOMAIN Besides(e) <=> e.eventType = "AuctionCancelled"
           /\ \A f \in DOMAIN Besides(e) :
                /\ f = "correlationId" => Besides(e)[f] = e.correlationId
                /\ f = "occurredAtUtc" => Besides(e)[f] = e.occurredAtUtc
                /\ f = "status" => Besides(e)[f] = <<"text", "Cancelled">>
                /\ f = "auctionVersion" => Besides(e)[f] = e.aggregateVersion
<1>1. CASE e.eventType = "AuctionClosed"
  <2>1. Besides(e) = [correlationId |-> e.correlationId]
    BY <1>1 DEF Besides
  <2> QED BY <1>1, <2>1
<1>2. CASE e.eventType = "AuctionCancelled"
  <2>1. Besides(e) = [correlationId |-> e.correlationId, occurredAtUtc |-> e.occurredAtUtc,
                      status |-> <<"text", "Cancelled">>, auctionVersion |-> e.aggregateVersion]
    BY <1>2 DEF Besides
  <2> QED BY <1>2, <2>1
<1>3. CASE e.eventType \notin {"AuctionClosed", "AuctionCancelled"}
  <2>1. Besides(e) = [correlationId |-> e.correlationId, occurredAtUtc |-> e.occurredAtUtc]
    BY <1>3 DEF Besides
  <2> QED BY <1>3, <2>1
<1> QED BY <1>1, <1>2, <1>3

(* What the room is told of any event: its tenant, auction and version are *)
(* those in Redis, and every field has a value.                            *)
LEMMA SoundParts ==
    ASSUME NEW m, IsBody(m), IsLiveFeedEnvelope(m), NEW type \in AuctionTypes,
           Field(m, "eventType")[2] = type,
           NEW contract, PayloadContract[type] = contract,
           \A f \in DOMAIN contract : contract[f] \in Shapes,
           "tenantId" \in DOMAIN contract, contract["tenantId"] = "uuid",
           "auctionId" \in DOMAIN contract, contract["auctionId"] = "aggregate",
           \/ type = "AuctionCancelled"
           \/ "auctionVersion" \in DOMAIN contract /\ contract["auctionVersion"] = "version"
    PROVE  LET e == ValidateLiveFeedEnvelope(m)
               told == ToSocketPayload(e)
               digest == Digest(e)
           IN
           /\ e.eventType = type
           /\ \A f \in DOMAIN contract :
                IsValue(e.payload[f]) /\ Conforms(e.payload[f], contract[f], m)
           /\ DOMAIN told = DOMAIN contract \union DOMAIN Besides(e)
           /\ \A f \in DOMAIN contract \ DOMAIN Besides(e) : told[f] = e.payload[f]
           /\ digest.version \in Nat \ {0}
           /\ told.auctionId = <<"uuid", digest.auction>> /\ told.tenantId = <<"uuid", digest.tenant>>
           /\ told.auctionVersion = <<"number", digest.version>>
           /\ \A f \in DOMAIN told : told[f][1] \notin {"undefined", "other", "infinite", "object"}
<1> DEFINE e == ValidateLiveFeedEnvelope(m)
           told == ToSocketPayload(e)
           digest == Digest(e)
           more == Besides(e)
<1>1. /\ ValidBaseEnvelope(m) /\ e.occurredAtUtc = Field(m, "occurredAtUtc")
      /\ e.aggregateId = Field(m, "aggregateId") /\ e.aggregateVersion = Field(m, "aggregateVersion")
      /\ e.correlationId = Field(m, "correlationId") /\ e.eventType = type
      /\ DOMAIN e.payload = DOMAIN contract
      /\ \A f \in DOMAIN contract : IsValue(e.payload[f]) /\ Conforms(e.payload[f], contract[f], m)
  <2>1. /\ ValidBaseEnvelope(m) /\ e.occurredAtUtc = Field(m, "occurredAtUtc")
        /\ e.aggregateId = Field(m, "aggregateId") /\ e.aggregateVersion = Field(m, "aggregateVersion")
        /\ e.correlationId = Field(m, "correlationId") /\ e.eventType = type
        /\ e.payload = [f \in DOMAIN contract |-> e.payload[f]]
        /\ \A f \in DOMAIN contract : IsValue(e.payload[f]) /\ Conforms(e.payload[f], contract[f], m)
    BY KeptOfBody
  <2> HIDE DEF e
  <2>2. DOMAIN e.payload = DOMAIN contract
    BY <2>1
  <2> QED BY <2>1, <2>2
<1>2. digest.version = e.aggregateVersion[2] /\ digest.auction = e.aggregateId[2]
      /\ digest.tenant = e.payload.tenantId[2]
  BY DEF Digest
<1> HIDE DEF digest, e
<1>3. /\ e.aggregateId = <<"uuid", digest.auction>> /\ e.aggregateVersion = <<"number", digest.version>>
      /\ digest.version \in Nat \ {0}
      /\ e.correlationId[1] \in {"uuid", "date", "text", "blank", "null"}
      /\ e.occurredAtUtc[1] = "date"
  BY <1>1, <1>2, BaseFields DEF IsIsoDate
<1>4. /\ DOMAIN told = DOMAIN contract \union DOMAIN more
      /\ \A f \in DOMAIN contract \ DOMAIN more : told[f] = e.payload[f]
      /\ \A f \in DOMAIN more : told[f] = more[f]
  BY <1>1 DEF ToSocketPayload, Extended
<1>5. /\ DOMAIN more \subseteq {"correlationId", "occurredAtUtc", "status", "auctionVersion"}
      /\ "auctionVersion" \in DOMAIN more <=> type = "AuctionCancelled"
      /\ \A f \in DOMAIN more :
           /\ f = "correlationId" => more[f] = e.correlationId
           /\ f = "occurredAtUtc" => more[f] = e.occurredAtUtc
           /\ f = "status" => more[f] = <<"text", "Cancelled">>
           /\ f = "auctionVersion" => more[f] = e.aggregateVersion
  BY <1>1, BesidesTold
<1> HIDE DEF told, more
<1>6. told.auctionId = <<"uuid", digest.auction>>
  <2>1. Conforms(e.payload.auctionId, "aggregate", m) /\ told.auctionId = e.payload.auctionId
    BY <1>1, <1>4, <1>5
  <2>2. e.payload.auctionId = Field(m, "aggregateId")
    BY <2>1 DEF Conforms, Linked
  <2> QED BY <1>1, <1>3, <2>1, <2>2
<1>7. told.tenantId = <<"uuid", digest.tenant>>
  <2>1. /\ Conforms(e.payload.tenantId, "uuid", m) /\ told.tenantId = e.payload.tenantId
        /\ IsValue(e.payload.tenantId)
    BY <1>1, <1>4, <1>5
  <2>2. IsUuid(e.payload.tenantId)
    BY <2>1 DEF Conforms, Linked
  <2> QED BY <1>2, <2>1, <2>2, ValueOfKind
<1>8. told.auctionVersion = <<"number", digest.version>>
  <2>1. CASE "auctionVersion" \in DOMAIN more
    BY <1>3, <1>4, <1>5, <2>1
  <2>2. CASE "auctionVersion" \notin DOMAIN more
    <3>1. /\ Conforms(e.payload.auctionVersion, "version", m)
          /\ told.auctionVersion = e.payload.auctionVersion
      BY <1>1, <1>4, <1>5, <2>2
    <3>2. e.payload.auctionVersion = Field(m, "aggregateVersion")
      BY <3>1 DEF Conforms, Linked
    <3> QED BY <1>1, <1>3, <3>1, <3>2
  <2> QED BY <2>1, <2>2
<1>9. ASSUME NEW f \in DOMAIN told
      PROVE  told[f][1] \notin {"undefined", "other", "infinite", "object"}
  <2>1. CASE f \in DOMAIN more
    <3>1. told[f] = more[f]
      BY <1>4, <2>1
    <3>2. CASE f = "correlationId"
      <4>1. told[f] = e.correlationId
        BY <1>5, <2>1, <3>1, <3>2
      <4> QED BY <1>3, <4>1
    <3>3. CASE f = "occurredAtUtc"
      <4>1. told[f] = e.occurredAtUtc
        BY <1>5, <2>1, <3>1, <3>3
      <4> QED BY <1>3, <4>1
    <3>4. CASE f = "status"
      <4>1. told[f] = <<"text", "Cancelled">>
        BY <1>5, <2>1, <3>1, <3>4
      <4> QED BY <4>1
    <3>5. CASE f = "auctionVersion"
      <4>1. told[f] = <<"number", digest.version>>
        BY <1>8, <3>5
      <4> QED BY <4>1
    <3> QED BY <1>5, <2>1, <3>2, <3>3, <3>4, <3>5
  <2>2. CASE f \notin DOMAIN more
    <3>1. f \in DOMAIN contract /\ told[f] = e.payload[f]
      BY <1>4, <2>2
    <3>2. told[f][1] \in {"uuid", "text", "date", "number", "fraction", "null"}
      BY <1>1, <3>1, ConformingKind
    <3> QED BY <3>2
  <2> QED BY <2>1, <2>2
<1> QED BY <1>1, <1>3, <1>4, <1>6, <1>7, <1>8, <1>9 DEF digest, e, told, more

(* The digest of an event: who and how much, if an amount is stored. *)
LEMMA DigestValue ==
    ASSUME NEW e
    PROVE  LET stored == ProjectionArguments(e) IN
           /\ Digest(e).type = e.eventType
           /\ e.eventType = "BidAccepted" => Digest(e).value =
                IF stored.currentBidAmount = <<"">> THEN <<>>
                ELSE <<stored.currentBidderId, stored.currentBidAmount>>
           /\ e.eventType # "BidAccepted" => Digest(e).value =
                IF stored.finalPrice = <<"">> THEN <<>> ELSE <<stored.finalWinnerId, stored.finalPrice>>
  BY DEF Digest

LEMMA TextOfValue ==
    ASSUME NEW v, v # <<"null">>
    PROVE  Text(v) = v
  BY DEF Text

LEMMA SoundWhen ==
    ASSUME NEW m, NEW e, e = ValidateLiveFeedEnvelope(m), NEW told, told = ToSocketPayload(e),
           NEW stored, stored = ProjectionArguments(e), NEW digest, digest = Digest(e),
           digest.version \in Nat \ {0},
           digest.value = <<>> => digest.type \in {"AuctionClosed", "AuctionCancelled"},
           told.auctionId = <<"uuid", digest.auction>>, told.tenantId = <<"uuid", digest.tenant>>,
           told.auctionVersion = <<"number", digest.version>>,
           \A f \in DOMAIN told : told[f][1] \notin {"undefined", "other", "infinite", "object"},
           \A f \in DOMAIN told \intersect {"amount", "finalBidAmount", "finalPrice"} :
             \/ told[f] = <<"null">> /\ stored.finalPrice = <<"">>
             \/ told[f][2] >= 0 /\ told[f] \in {stored.currentBidAmount, stored.finalPrice},
           digest.value # <<>> =>
             \E f \in {"bidderId", "winnerId", "finalBidderId"} \intersect DOMAIN told :
               Text(told[f]) = digest.value[1]
    PROVE  IsSound(m)
  BY DEF IsSound

(* A name and an amount, as they are stored *)
LEMMA StoredField ==
    ASSUME NEW v, NEW m, IsValue(v)
    PROVE  /\ Conforms(v, "text", m) => Text(v) = v
           /\ Conforms(v, "text?", m) => v = <<"null">> \/ Text(v) = v
           /\ Conforms(v, "amount", m) \/ Conforms(v, "price", m) => v # <<"">> /\ v[2] >= 0
           /\ Conforms(v, "amount?", m) =>
                v = <<"null">> \/ (v # <<"">> /\ v # <<"null">> /\ v[2] >= 0)
<1>1. IsText(v) => v # <<"null">>
  <2>1. <<"null">>[1] = "null"
    OBVIOUS
  <2> QED BY <2>1 DEF IsText, IsString
<1>2. Conforms(v, "text", m) => IsText(v)
  BY DEF Conforms, Linked
<1>3. Conforms(v, "text?", m) => v = <<"null">> \/ IsText(v)
  BY DEF Conforms, Linked
<1>4. Conforms(v, "amount", m) \/ Conforms(v, "price", m) => IsValidAmount(v)
  BY DEF Conforms, Linked
<1>5. Conforms(v, "amount?", m) => v = <<"null">> \/ IsValidAmount(v)
  BY DEF Conforms, Linked
<1> QED BY <1>1, <1>2, <1>3, <1>4, <1>5, ValueOfKind, TextOfValue

(* A bid: its bidder and its amount are stored. *)
LEMMA SoundBid ==
    ASSUME NEW m, IsBody(m), IsLiveFeedEnvelope(m), Field(m, "eventType")[2] = "BidAccepted"
    PROVE  IsSound(m)
<1> DEFINE contract == BidAcceptedPayload
           e == ValidateLiveFeedEnvelope(m)
           told == ToSocketPayload(e)
           stored == ProjectionArguments(e)
<1>1. /\ DOMAIN contract = {"bidId", "tenantId", "auctionId", "bidderId", "amount", "auctionVersion"}
      /\ contract["tenantId"] = "uuid" /\ contract["auctionId"] = "aggregate" /\ contract["auctionVersion"] = "version"
      /\ contract["bidderId"] = "text" /\ contract["amount"] = "amount"
      /\ \A f \in DOMAIN contract : contract[f] \in Shapes
      /\ PayloadContract["BidAccepted"] = contract
  BY DEF BidAcceptedPayload, PayloadContract, Shapes
<1>2. "BidAccepted" \in AuctionTypes
  BY AuctionTypesAre
<1> HIDE DEF contract
<1>3. /\ e.eventType = "BidAccepted"
      /\ \A f \in DOMAIN contract : IsValue(e.payload[f]) /\ Conforms(e.payload[f], contract[f], m)
      /\ DOMAIN told = DOMAIN contract \union DOMAIN Besides(e)
      /\ \A f \in DOMAIN contract \ DOMAIN Besides(e) : told[f] = e.payload[f]
      /\ Digest(e).version \in Nat \ {0}
      /\ told.auctionId = <<"uuid", Digest(e).auction>> /\ told.tenantId = <<"uuid", Digest(e).tenant>>
      /\ told.auctionVersion = <<"number", Digest(e).version>>
      /\ \A f \in DOMAIN told : told[f][1] \notin {"undefined", "other", "infinite", "object"}
  BY <1>1, <1>2, SoundParts
<1>4. DOMAIN Besides(e) \subseteq {"correlationId", "occurredAtUtc", "status", "auctionVersion"}
  BY <1>2, <1>3, BesidesTold
<1> HIDE DEF e, told
<1>5. told.bidderId = e.payload.bidderId /\ told.amount = e.payload.amount
  BY <1>1, <1>3, <1>4
<1>6. stored.currentBidderId = e.payload.bidderId /\ stored.currentBidAmount = e.payload.amount
  BY <1>3 DEF ProjectionArguments
<1> HIDE DEF stored
<1>7. e.payload.amount # <<"">> /\ e.payload.amount[2] >= 0 /\ Text(e.payload.bidderId) = e.payload.bidderId
  <2>1. /\ IsValue(e.payload.bidderId) /\ Conforms(e.payload.bidderId, "text", m)
        /\ IsValue(e.payload.amount) /\ Conforms(e.payload.amount, "amount", m)
    BY <1>1, <1>3
  <2> QED BY <2>1, StoredField
<1>8. Digest(e).value = <<e.payload.bidderId, e.payload.amount>>
  <2>1. Digest(e).value = IF stored.currentBidAmount = <<"">> THEN <<>>
                             ELSE <<stored.currentBidderId, stored.currentBidAmount>>
    BY <1>3, DigestValue DEF stored
  <2>2. stored.currentBidAmount # <<"">>
    BY <1>6, <1>7
  <2> QED BY <1>6, <2>1, <2>2
<1>9. DOMAIN told \intersect {"amount", "finalBidAmount", "finalPrice"} = {"amount"}
       /\ "bidderId" \in DOMAIN told
  BY <1>1, <1>3, <1>4
<1>10. Digest(e).value # <<>> /\ Text(told["bidderId"]) = Digest(e).value[1]
  <2>1. Digest(e).value # <<>> /\ Digest(e).value[1] = e.payload.bidderId
    BY <1>8
  <2> QED BY <1>5, <1>7, <2>1
<1>11. told["amount"][2] >= 0 /\ told["amount"] \in {stored.currentBidAmount, stored.finalPrice}
  BY <1>5, <1>6, <1>7
<1> QED BY <1>3, <1>9, <1>10, <1>11, SoundWhen DEF e, told, stored

(* The selection of a winner *)
LEMMA SoundWinner ==
    ASSUME NEW m, IsBody(m), IsLiveFeedEnvelope(m), Field(m, "eventType")[2] = "WinnerSelected"
    PROVE  IsSound(m)
<1> DEFINE contract == WinnerSelectedPayload
           e == ValidateLiveFeedEnvelope(m)
           told == ToSocketPayload(e)
           stored == ProjectionArguments(e)
<1>1. /\ DOMAIN contract = {"tenantId", "auctionId", "winningBidId", "winnerId", "amount",
                         "selectedAtUtc", "auctionVersion"}
      /\ contract["tenantId"] = "uuid" /\ contract["auctionId"] = "aggregate" /\ contract["auctionVersion"] = "version"
      /\ contract["winnerId"] = "text" /\ contract["amount"] = "amount"
      /\ \A f \in DOMAIN contract : contract[f] \in Shapes
      /\ PayloadContract["WinnerSelected"] = contract
  BY DEF WinnerSelectedPayload, PayloadContract, Shapes
<1>2. "WinnerSelected" \in AuctionTypes
  BY AuctionTypesAre
<1> HIDE DEF contract
<1>3. /\ e.eventType = "WinnerSelected"
      /\ \A f \in DOMAIN contract : IsValue(e.payload[f]) /\ Conforms(e.payload[f], contract[f], m)
      /\ DOMAIN told = DOMAIN contract \union DOMAIN Besides(e)
      /\ \A f \in DOMAIN contract \ DOMAIN Besides(e) : told[f] = e.payload[f]
      /\ Digest(e).version \in Nat \ {0}
      /\ told.auctionId = <<"uuid", Digest(e).auction>> /\ told.tenantId = <<"uuid", Digest(e).tenant>>
      /\ told.auctionVersion = <<"number", Digest(e).version>>
      /\ \A f \in DOMAIN told : told[f][1] \notin {"undefined", "other", "infinite", "object"}
  BY <1>1, <1>2, SoundParts
<1>4. DOMAIN Besides(e) \subseteq {"correlationId", "occurredAtUtc", "status", "auctionVersion"}
  BY <1>2, <1>3, BesidesTold
<1> HIDE DEF e, told
<1>5. told.winnerId = e.payload.winnerId /\ told.amount = e.payload.amount
  BY <1>1, <1>3, <1>4
<1>6. stored.finalWinnerId = e.payload.winnerId /\ stored.finalPrice = e.payload.amount
  BY <1>3 DEF ProjectionArguments
<1> HIDE DEF stored
<1>7. e.payload.amount # <<"">> /\ e.payload.amount[2] >= 0 /\ Text(e.payload.winnerId) = e.payload.winnerId
  <2>1. /\ IsValue(e.payload.winnerId) /\ Conforms(e.payload.winnerId, "text", m)
        /\ IsValue(e.payload.amount) /\ Conforms(e.payload.amount, "amount", m)
    BY <1>1, <1>3
  <2> QED BY <2>1, StoredField
<1>8. Digest(e).value = <<e.payload.winnerId, e.payload.amount>>
  <2>1. Digest(e).value = IF stored.finalPrice = <<"">> THEN <<>>
                             ELSE <<stored.finalWinnerId, stored.finalPrice>>
    BY <1>3, DigestValue DEF stored
  <2>2. stored.finalPrice # <<"">>
    BY <1>6, <1>7
  <2> QED BY <1>6, <2>1, <2>2
<1>9. DOMAIN told \intersect {"amount", "finalBidAmount", "finalPrice"} = {"amount"}
       /\ "winnerId" \in DOMAIN told
  BY <1>1, <1>3, <1>4
<1>10. Digest(e).value # <<>> /\ Text(told["winnerId"]) = Digest(e).value[1]
  <2>1. Digest(e).value # <<>> /\ Digest(e).value[1] = e.payload.winnerId
    BY <1>8
  <2> QED BY <1>5, <1>7, <2>1
<1>11. told["amount"][2] >= 0 /\ told["amount"] \in {stored.currentBidAmount, stored.finalPrice}
  BY <1>5, <1>6, <1>7
<1> QED BY <1>3, <1>9, <1>10, <1>11, SoundWhen DEF e, told, stored

(* A purchase *)
LEMMA SoundPurchase ==
    ASSUME NEW m, IsBody(m), IsLiveFeedEnvelope(m), Field(m, "eventType")[2] = "AuctionPurchased"
    PROVE  IsSound(m)
<1> DEFINE contract == AuctionPurchasedPayload
           e == ValidateLiveFeedEnvelope(m)
           told == ToSocketPayload(e)
           stored == ProjectionArguments(e)
<1>1. /\ DOMAIN contract = {"tenantId", "auctionId", "bidderId", "finalPrice",
                         "purchasedAtUtc", "auctionVersion"}
      /\ contract["tenantId"] = "uuid" /\ contract["auctionId"] = "aggregate" /\ contract["auctionVersion"] = "version"
      /\ contract["bidderId"] = "text" /\ contract["finalPrice"] = "price"
      /\ \A f \in DOMAIN contract : contract[f] \in Shapes
      /\ PayloadContract["AuctionPurchased"] = contract
  BY DEF AuctionPurchasedPayload, PayloadContract, Shapes
<1>2. "AuctionPurchased" \in AuctionTypes
  BY AuctionTypesAre
<1> HIDE DEF contract
<1>3. /\ e.eventType = "AuctionPurchased"
      /\ \A f \in DOMAIN contract : IsValue(e.payload[f]) /\ Conforms(e.payload[f], contract[f], m)
      /\ DOMAIN told = DOMAIN contract \union DOMAIN Besides(e)
      /\ \A f \in DOMAIN contract \ DOMAIN Besides(e) : told[f] = e.payload[f]
      /\ Digest(e).version \in Nat \ {0}
      /\ told.auctionId = <<"uuid", Digest(e).auction>> /\ told.tenantId = <<"uuid", Digest(e).tenant>>
      /\ told.auctionVersion = <<"number", Digest(e).version>>
      /\ \A f \in DOMAIN told : told[f][1] \notin {"undefined", "other", "infinite", "object"}
  BY <1>1, <1>2, SoundParts
<1>4. DOMAIN Besides(e) \subseteq {"correlationId", "occurredAtUtc", "status", "auctionVersion"}
  BY <1>2, <1>3, BesidesTold
<1> HIDE DEF e, told
<1>5. told.bidderId = e.payload.bidderId /\ told.finalPrice = e.payload.finalPrice
  BY <1>1, <1>3, <1>4
<1>6. stored.finalWinnerId = e.payload.bidderId /\ stored.finalPrice = e.payload.finalPrice
  BY <1>3 DEF ProjectionArguments
<1> HIDE DEF stored
<1>7. e.payload.finalPrice # <<"">> /\ e.payload.finalPrice[2] >= 0 /\ Text(e.payload.bidderId) = e.payload.bidderId
  <2>1. /\ IsValue(e.payload.bidderId) /\ Conforms(e.payload.bidderId, "text", m)
        /\ IsValue(e.payload.finalPrice) /\ Conforms(e.payload.finalPrice, "price", m)
    BY <1>1, <1>3
  <2> QED BY <2>1, StoredField
<1>8. Digest(e).value = <<e.payload.bidderId, e.payload.finalPrice>>
  <2>1. Digest(e).value = IF stored.finalPrice = <<"">> THEN <<>>
                             ELSE <<stored.finalWinnerId, stored.finalPrice>>
    BY <1>3, DigestValue DEF stored
  <2>2. stored.finalPrice # <<"">>
    BY <1>6, <1>7
  <2> QED BY <1>6, <2>1, <2>2
<1>9. DOMAIN told \intersect {"amount", "finalBidAmount", "finalPrice"} = {"finalPrice"}
       /\ "bidderId" \in DOMAIN told
  BY <1>1, <1>3, <1>4
<1>10. Digest(e).value # <<>> /\ Text(told["bidderId"]) = Digest(e).value[1]
  <2>1. Digest(e).value # <<>> /\ Digest(e).value[1] = e.payload.bidderId
    BY <1>8
  <2> QED BY <1>5, <1>7, <2>1
<1>11. told["finalPrice"][2] >= 0 /\ told["finalPrice"] \in {stored.currentBidAmount, stored.finalPrice}
  BY <1>5, <1>6, <1>7
<1> QED BY <1>3, <1>9, <1>10, <1>11, SoundWhen DEF e, told, stored

(* A close: without a bid nothing is stored, and the room is told null. *)
LEMMA SoundClose ==
    ASSUME NEW m, IsBody(m), IsLiveFeedEnvelope(m), Field(m, "eventType")[2] = "AuctionClosed"
    PROVE  IsSound(m)
<1> DEFINE contract == AuctionClosedPayload
           e == ValidateLiveFeedEnvelope(m)
           told == ToSocketPayload(e)
           stored == ProjectionArguments(e)
<1>1. /\ DOMAIN contract = {"tenantId", "auctionId", "closedAtUtc", "finalBidAmount",
                         "finalBidderId", "auctionVersion"}
      /\ contract["tenantId"] = "uuid" /\ contract["auctionId"] = "aggregate" /\ contract["auctionVersion"] = "version"
      /\ contract["finalBidderId"] = "text?" /\ contract["finalBidAmount"] = "amount?"
      /\ \A f \in DOMAIN contract : contract[f] \in Shapes
      /\ PayloadContract["AuctionClosed"] = contract
  BY DEF AuctionClosedPayload, PayloadContract, Shapes
<1>2. "AuctionClosed" \in AuctionTypes
  BY AuctionTypesAre
<1> HIDE DEF contract
<1>3. /\ e.eventType = "AuctionClosed"
      /\ \A f \in DOMAIN contract : IsValue(e.payload[f]) /\ Conforms(e.payload[f], contract[f], m)
      /\ DOMAIN told = DOMAIN contract \union DOMAIN Besides(e)
      /\ \A f \in DOMAIN contract \ DOMAIN Besides(e) : told[f] = e.payload[f]
      /\ Digest(e).version \in Nat \ {0}
      /\ told.auctionId = <<"uuid", Digest(e).auction>> /\ told.tenantId = <<"uuid", Digest(e).tenant>>
      /\ told.auctionVersion = <<"number", Digest(e).version>>
      /\ \A f \in DOMAIN told : told[f][1] \notin {"undefined", "other", "infinite", "object"}
  BY <1>1, <1>2, SoundParts
<1>4. DOMAIN Besides(e) \subseteq {"correlationId", "occurredAtUtc", "status", "auctionVersion"}
  BY <1>2, <1>3, BesidesTold
<1> HIDE DEF e, told
<1>5. told.finalBidderId = e.payload.finalBidderId /\ told.finalBidAmount = e.payload.finalBidAmount
  BY <1>1, <1>3, <1>4
<1>6. /\ stored.finalWinnerId = Text(e.payload.finalBidderId)
      /\ stored.finalPrice = Text(e.payload.finalBidAmount)
  BY <1>3 DEF ProjectionArguments
<1> HIDE DEF stored
<1>7. /\ e.payload.finalBidAmount = <<"null">>
         \/ (e.payload.finalBidAmount # <<"">> /\ e.payload.finalBidAmount # <<"null">>
               /\ e.payload.finalBidAmount[2] >= 0)
      /\ Text(<<"null">>) = <<"">>
  <2>1. /\ IsValue(e.payload.finalBidderId) /\ Conforms(e.payload.finalBidderId, "text?", m)
        /\ IsValue(e.payload.finalBidAmount) /\ Conforms(e.payload.finalBidAmount, "amount?", m)
    BY <1>1, <1>3
  <2> QED BY <2>1, StoredField DEF Text
<1>8. /\ Digest(e).type = "AuctionClosed"
      /\ Digest(e).value # <<>> => Digest(e).value[1] = Text(e.payload.finalBidderId)
  <2>1. /\ Digest(e).type = "AuctionClosed"
        /\ Digest(e).value = IF stored.finalPrice = <<"">> THEN <<>>
                              ELSE <<stored.finalWinnerId, stored.finalPrice>>
    BY <1>3, DigestValue DEF stored
  <2>2. <<stored.finalWinnerId, stored.finalPrice>>[1] = stored.finalWinnerId
    OBVIOUS
  <2>3. CASE stored.finalPrice = <<"">>
    BY <2>1, <2>3
  <2>4. CASE stored.finalPrice # <<"">>
    BY <1>6, <2>1, <2>2, <2>4
  <2> QED BY <2>3, <2>4
<1>9. DOMAIN told \intersect {"amount", "finalBidAmount", "finalPrice"} = {"finalBidAmount"}
       /\ "finalBidderId" \in DOMAIN told
  BY <1>1, <1>3, <1>4
<1>10. Digest(e).value # <<>> => Text(told["finalBidderId"]) = Digest(e).value[1]
  BY <1>5, <1>8
<1>11. \/ told["finalBidAmount"] = <<"null">> /\ stored.finalPrice = <<"">>
       \/ /\ told["finalBidAmount"][2] >= 0
          /\ told["finalBidAmount"] \in {stored.currentBidAmount, stored.finalPrice}
  BY <1>5, <1>6, <1>7, TextOfValue
<1>12. /\ Digest(e).value = <<>> => Digest(e).type \in {"AuctionClosed", "AuctionCancelled"}
       /\ \A f \in DOMAIN told \intersect {"amount", "finalBidAmount", "finalPrice"} :
            \/ told[f] = <<"null">> /\ stored.finalPrice = <<"">>
            \/ told[f][2] >= 0 /\ told[f] \in {stored.currentBidAmount, stored.finalPrice}
       /\ Digest(e).value # <<>> =>
            \E f \in {"bidderId", "winnerId", "finalBidderId"} \intersect DOMAIN told :
              Text(told[f]) = Digest(e).value[1]
  BY <1>8, <1>9, <1>10, <1>11
<1> QED BY <1>3, <1>12, SoundWhen DEF e, told, stored

(* A cancellation stores no amount and tells of none. *)
LEMMA SoundCancellation ==
    ASSUME NEW m, IsBody(m), IsLiveFeedEnvelope(m), Field(m, "eventType")[2] = "AuctionCancelled"
    PROVE  IsSound(m)
<1> DEFINE contract == AuctionCancelledPayload
           e == ValidateLiveFeedEnvelope(m)
           told == ToSocketPayload(e)
           stored == ProjectionArguments(e)
<1>1. /\ DOMAIN contract = {"tenantId", "auctionId"}
      /\ contract["tenantId"] = "uuid" /\ contract["auctionId"] = "aggregate"
      /\ \A f \in DOMAIN contract : contract[f] \in Shapes
      /\ PayloadContract["AuctionCancelled"] = contract
  BY DEF AuctionCancelledPayload, PayloadContract, Shapes
<1>2. "AuctionCancelled" \in AuctionTypes
  BY AuctionTypesAre
<1> HIDE DEF contract
<1>3. /\ e.eventType = "AuctionCancelled"
      /\ \A f \in DOMAIN contract : IsValue(e.payload[f]) /\ Conforms(e.payload[f], contract[f], m)
      /\ DOMAIN told = DOMAIN contract \union DOMAIN Besides(e)
      /\ \A f \in DOMAIN contract \ DOMAIN Besides(e) : told[f] = e.payload[f]
      /\ Digest(e).version \in Nat \ {0}
      /\ told.auctionId = <<"uuid", Digest(e).auction>> /\ told.tenantId = <<"uuid", Digest(e).tenant>>
      /\ told.auctionVersion = <<"number", Digest(e).version>>
      /\ \A f \in DOMAIN told : told[f][1] \notin {"undefined", "other", "infinite", "object"}
  BY <1>1, <1>2, SoundParts
<1>4. DOMAIN Besides(e) \subseteq {"correlationId", "occurredAtUtc", "status", "auctionVersion"}
  BY <1>2, <1>3, BesidesTold
<1> HIDE DEF e, told
<1>5. stored.finalPrice = <<"">>
  BY <1>3 DEF ProjectionArguments
<1> HIDE DEF stored
<1>6. Digest(e).type = "AuctionCancelled" /\ Digest(e).value = <<>>
  BY <1>3, <1>5, DigestValue DEF stored
<1>7. DOMAIN told \intersect {"amount", "finalBidAmount", "finalPrice"} = {}
  BY <1>1, <1>3, <1>4
<1> QED BY <1>3, <1>6, <1>7, SoundWhen DEF e, told, stored

(* Whatever JSON a message holds, if it is accepted as an auction event    *)
(* then the room and the accept script are told of one tenant, auction and *)
(* version, of every field they need, and of the same amount               *)
(* (validateLiveFeedEnvelope, toSocketPayload, projectionArguments).       *)
THEOREM AcceptedBodiesAreSound ==
    ASSUME NEW m, IsBody(m), IsLiveFeedEnvelope(m), Field(m, "eventType")[2] \in AuctionTypes
    PROVE  IsSound(m)
  BY SoundBid, SoundWinner, SoundPurchase, SoundClose, SoundCancellation, AuctionTypesAre

-----------------------------------------------------------------------------
(* The search in the history (HistoryQuery)                                *)

(* Newer is a strict total order of the rows of a table. *)
LEMMA NewerOrders ==
    ASSUME NEW rows, IsTable(rows)
    PROVE  /\ \A r, s, t \in rows : Newer(r, s) /\ Newer(s, t) => Newer(r, t)
           /\ \A r, s \in rows : r # s => Newer(r, s) \/ Newer(s, r)
           /\ \A r, s \in rows : ~(Newer(r, s) /\ Newer(s, r))
<1>1. \A r, s \in rows : r.id \in Int /\ r.processedAt \in Int /\ (r.id = s.id => r = s)
  BY DEF IsTable
<1> QED BY <1>1 DEF Newer

LEMMA RankOrders ==
    ASSUME NEW rows, IsTable(rows), NEW r \in rows, NEW s \in rows, Newer(r, s)
    PROVE  Cardinality({t \in rows : Newer(t, r)}) < Cardinality({t \in rows : Newer(t, s)})
<1> DEFINE A == {t \in rows : Newer(t, r)}
           B == {t \in rows : Newer(t, s)}
<1>1. IsFiniteSet(A) /\ IsFiniteSet(B)
  BY FS_Subset DEF IsTable
<1>2. A \subseteq B
  BY NewerOrders
<1>3. r \in B /\ r \notin A
  BY NewerOrders
<1> HIDE DEF A, B
<1>4. Cardinality(A) <= Cardinality(B) /\ (Cardinality(A) = Cardinality(B) => A = B)
  BY <1>1, <1>2, FS_Subset
<1>5. Cardinality(A) \in Nat /\ Cardinality(B) \in Nat /\ A # B
  BY <1>1, <1>3, FS_CardinalityType
<1>6. Cardinality(A) < Cardinality(B)
  BY <1>4, <1>5
<1> QED BY <1>6 DEF A, B

(* Every row has its place, and every place its row. *)
LEMMA NthIsRanked ==
    ASSUME NEW rows, IsTable(rows)
    PROVE  /\ Cardinality(rows) \in Nat
           /\ \A n \in 1 .. Cardinality(rows) :
                /\ Nth(rows, n) \in rows
                /\ Cardinality({s \in rows : Newer(s, Nth(rows, n))}) = n - 1
           /\ \A r \in rows : \E n \in 1 .. Cardinality(rows) : Nth(rows, n) = r
<1> DEFINE N == Cardinality(rows)
           Rank(r) == Cardinality({s \in rows : Newer(s, r)})
           rank == [r \in rows |-> Rank(r) + 1]
<1>1. IsFiniteSet(rows) /\ N \in Nat
  BY FS_CardinalityType DEF IsTable
<1>2. ASSUME NEW r \in rows PROVE Rank(r) \in Nat /\ Rank(r) + 1 \in 1 .. N
  <2> DEFINE A == {s \in rows : Newer(s, r)}
  <2>1. A \subseteq rows /\ r \notin A
    BY NewerOrders
  <2> HIDE DEF A
  <2>2. IsFiniteSet(A) /\ Cardinality(A) <= N /\ (Cardinality(A) = N => A = rows)
    BY <1>1, <2>1, FS_Subset
  <2>3. Cardinality(A) \in Nat /\ Cardinality(A) # N
    BY <2>1, <2>2, FS_CardinalityType
  <2>4. Cardinality(A) \in Nat /\ Cardinality(A) + 1 \in 1 .. N
    BY <1>1, <2>2, <2>3
  <2> QED BY <2>4 DEF A
<1>3. ASSUME NEW r \in rows, NEW s \in rows, Rank(r) = Rank(s) PROVE r = s
  <2> SUFFICES ASSUME r # s PROVE FALSE
    OBVIOUS
  <2>1. Rank(r) < Rank(s) \/ Rank(s) < Rank(r)
    BY NewerOrders, RankOrders
  <2>2. Rank(r) \in Nat /\ Rank(s) \in Nat
    BY <1>2
  <2> HIDE DEF Rank
  <2> QED BY <1>3, <2>1, <2>2
<1> HIDE DEF N, Rank
<1>4. rank \in Surjection(rows, 1 .. N)
  <2>1. rank \in Injection(rows, 1 .. N)
    <3>1. rank \in [rows -> 1 .. N]
      BY <1>2
    <3>2. ASSUME NEW r \in rows, NEW s \in rows, rank[r] = rank[s] PROVE r = s
      <4>1. Rank(r) = Rank(s)
        BY <1>2, <3>2
      <4> QED BY <1>3, <4>1
    <3> QED BY <3>1, <3>2 DEF Injection, IsInjective
  <2>2. IsFiniteSet(1 .. N) /\ Cardinality(1 .. N) = N
    <3>1. IsFiniteSet(1 .. N) /\ Cardinality(1 .. N) = IF 1 > N THEN 0 ELSE N - 1 + 1
      BY <1>1, FS_Interval
    <3> QED BY <1>1, <3>1
  <2> HIDE DEF rank
  <2> QED BY <2>1, <2>2, FS_Injection DEF N
<1>5. \A n \in 1 .. N : \E r \in rows : rank[r] = n
  BY <1>4 DEF Surjection
<1>6. ASSUME NEW n \in 1 .. N PROVE Nth(rows, n) \in rows /\ Rank(Nth(rows, n)) = n - 1
  <2>1. PICK r \in rows : rank[r] = n
    BY <1>5
  <2>2. Rank(r) = n - 1
    BY <1>2, <2>1
  <2> QED BY <2>2 DEF Nth, Rank
<1>7. ASSUME NEW r \in rows PROVE \E n \in 1 .. N : Nth(rows, n) = r
  <2>1. Rank(r) + 1 \in 1 .. N /\ (Rank(r) + 1) - 1 = Rank(r)
    BY <1>1, <1>2
  <2>2. Nth(rows, Rank(r) + 1) \in rows /\ Rank(Nth(rows, Rank(r) + 1)) = Rank(r)
    BY <1>6, <2>1
  <2>3. Nth(rows, Rank(r) + 1) = r
    BY <1>3, <2>2
  <2> QED BY <2>1, <2>3
<1> QED BY <1>1, <1>6, <1>7 DEF N, Rank

(* The rows of an answer are the newest of those that match, in order. *)
LEMMA QueryAnswers ==
    ASSUME NEW table, IsTable(table), NEW filters, filters.limit \in Nat
    PROVE  LET wanted == {row \in table : Matches(row, filters)}
               rows == Query(table, filters)
           IN /\ rows \in Seq(table) /\ Len(rows) <= filters.limit
              /\ \A n \in 1 .. Len(rows) : rows[n] \in wanted
              /\ \A m, n \in 1 .. Len(rows) : m < n => Newer(rows[m], rows[n])
              /\ \A row \in wanted : \/ \E n \in 1 .. Len(rows) : rows[n] = row
                                     \/ /\ Len(rows) = filters.limit
                                        /\ \A n \in 1 .. Len(rows) : Newer(rows[n], row)
<1> DEFINE wanted == {row \in table : Matches(row, filters)}
           rows == Query(table, filters)
           N == Cardinality(wanted)
           k == IF N < filters.limit THEN N ELSE filters.limit
           Rank(r) == Cardinality({s \in wanted : Newer(s, r)})
<1>1. IsTable(wanted)
  BY FS_Subset DEF IsTable
<1>2. /\ N \in Nat
      /\ \A n \in 1 .. N : Nth(wanted, n) \in wanted /\ Rank(Nth(wanted, n)) = n - 1
      /\ \A r \in wanted : \E n \in 1 .. N : Nth(wanted, n) = r
  BY <1>1, NthIsRanked
<1>3. rows = [n \in 1 .. k |-> Nth(wanted, n)]
  BY DEF Query
<1>4. \A r, s \in wanted : Newer(r, s) => Rank(r) < Rank(s)
  BY <1>1, RankOrders
<1>5. \A r, s \in wanted : r # s => Newer(r, s) \/ Newer(s, r)
  BY <1>1, NewerOrders
<1>6. wanted \subseteq table
  OBVIOUS
<1> HIDE DEF rows, wanted, N, Rank
<1>7. k \in Nat /\ k <= N /\ k <= filters.limit /\ (k < N => k = filters.limit)
  BY <1>2
<1> HIDE DEF k
<1>8. ASSUME NEW m \in 1 .. N, NEW n \in 1 .. N, m < n PROVE Newer(Nth(wanted, m), Nth(wanted, n))
  <2> DEFINE r == Nth(wanted, m)
             s == Nth(wanted, n)
  <2>1. r \in wanted /\ s \in wanted /\ Rank(r) = m - 1 /\ Rank(s) = n - 1
    BY <1>2
  <2>2. r # s /\ ~(Rank(s) < Rank(r))
    BY <1>8, <2>1
  <2> HIDE DEF r, s
  <2>3. Newer(r, s)
    BY <1>4, <1>5, <2>1, <2>2
  <2> QED BY <2>3 DEF r, s
<1>9. rows \in Seq(table) /\ Len(rows) = k
  <2>1. rows \in [1 .. k -> table]
    BY <1>2, <1>3, <1>6, <1>7
  <2> QED BY <1>7, <2>1
<1>10. \A n \in 1 .. k : n \in 1 .. N /\ rows[n] = Nth(wanted, n) /\ rows[n] \in wanted
  BY <1>2, <1>3, <1>7
<1>11. ASSUME NEW row \in wanted
       PROVE  \/ \E n \in 1 .. k : rows[n] = row
              \/ k = filters.limit /\ \A n \in 1 .. k : Newer(rows[n], row)
  <2>1. PICK l \in 1 .. N : Nth(wanted, l) = row
    BY <1>2
  <2>2. CASE l <= k
    BY <1>7, <1>10, <2>1, <2>2
  <2>3. CASE ~(l <= k)
    <3>1. k = filters.limit /\ \A n \in 1 .. k : n < l
      BY <1>2, <1>7, <2>3
    <3> QED BY <1>8, <1>10, <2>1, <3>1
  <2> QED BY <2>2, <2>3
<1>12. \A m, n \in 1 .. k : m < n => Newer(rows[m], rows[n])
  BY <1>8, <1>10
<1>13. Len(rows) <= filters.limit
  BY <1>7, <1>9
<1> QED BY <1>9, <1>10, <1>11, <1>12, <1>13 DEF rows, wanted

(* What the parameters ask for is what the filters match. *)
LEMMA FiltersMatch ==
    ASSUME NEW q, NEW now \in Int, NEW export \in BOOLEAN, NEW row, IsSearch(q),
           IsValidQuery(q, now, export), row.processedAt \in Int
    PROVE  Matches(row, ParseHistoryFilters(q, now)) <=>
             /\ q.to[1] = "time" => row.processedAt <= q.to[2]
             /\ q.from[1] = "time" => row.processedAt >= q.from[2]
             /\ \A c \in Criteria : q[c][1] \in {"uuid", "text"} => row[c] = q[c]
             /\ q.to[1] # "time" => row.processedAt <= now
             /\ q.from[1] # "time" =>
                  row.processedAt >= (IF q.to[1] = "time" THEN q.to[2] ELSE now) - DefaultRange
<1> DEFINE filters == ParseHistoryFilters(q, now)
<1>1. filters.to = (IF q.to[1] = "time" THEN q.to[2] ELSE now)
  BY DEF ParseHistoryFilters, To, Time
<1>2. filters.from = (IF q.from[1] = "time" THEN q.from[2]
                      ELSE (IF q.to[1] = "time" THEN q.to[2] ELSE now) - DefaultRange)
  BY DEF ParseHistoryFilters, From, To, Time
<1>3. ASSUME NEW c \in Criteria
      PROVE  filters.criteria[c] \in {All, row[c]}
               <=> (q[c][1] \in {"uuid", "text"} => row[c] = q[c])
  <2>1. filters.criteria[c] = OptionalText(q[c])
    BY DEF ParseHistoryFilters
  <2>2. q[c][1] \in {"undefined", "empty", "blank", "text", "uuid"}
    <3>1. q[c][1] \in {"undefined", "empty", "blank", "text", "uuid", "long", "other"}
      BY DEF IsSearch
    <3>2. CASE c \in {"auctionId", "eventType"}
      BY <3>1, <3>2 DEF IsValidQuery, IsOptionalText
    <3>3. CASE c = "tenantId"
      BY <3>3 DEF IsValidQuery, IsTenantId, Missing
    <3>4. CASE c = "outcome"
      <4>1. IsOutcome(q[c])
        BY <3>4 DEF IsValidQuery
      <4>2. CASE q[c] \in Outcomes
        <5>1. PICK o : q[c] = <<"text", o>>
          BY <4>2 DEF Outcomes
        <5> QED BY <5>1
      <4>3. CASE Missing(q[c])
        BY <4>3 DEF Missing
      <4> QED BY <4>1, <4>2, <4>3 DEF IsOutcome
    <3> QED BY <3>2, <3>3, <3>4 DEF Criteria
  <2>3. CASE q[c][1] \in {"undefined", "empty", "blank"}
    BY <2>1, <2>3 DEF OptionalText, Missing
  <2>4. CASE q[c][1] \in {"text", "uuid"}
    <3>1. filters.criteria[c] = q[c]
      BY <2>1, <2>4 DEF OptionalText, Missing
    <3>2. q[c] # All
      BY <2>4 DEF All
    <3> QED BY <2>4, <3>1, <3>2
  <2> QED BY <2>2, <2>3, <2>4
<1> HIDE DEF filters
<1>4. Matches(row, filters) <=>
        /\ filters.from <= row.processedAt /\ row.processedAt <= filters.to
        /\ \A c \in Criteria : q[c][1] \in {"uuid", "text"} => row[c] = q[c]
  BY <1>3 DEF Matches
<1>5. /\ q.to[1] = "time" => q.to[2] \in Int
      /\ q.from[1] = "time" => q.from[2] \in Int
      /\ DefaultRange \in Nat
  BY LimitsAssumption DEF IsSearch
<1>6. filters.from <= row.processedAt /\ row.processedAt <= filters.to <=>
             /\ q.to[1] = "time" => row.processedAt <= q.to[2]
             /\ q.from[1] = "time" => row.processedAt >= q.from[2]
             /\ q.to[1] # "time" => row.processedAt <= now
             /\ q.from[1] # "time" =>
                  row.processedAt >= (IF q.to[1] = "time" THEN q.to[2] ELSE now) - DefaultRange
  BY <1>1, <1>2, <1>5
<1> QED BY <1>4, <1>6 DEF filters

(* A search that is accepted is answered with what it asked for: the       *)
(* newest rows in its range that meet its criteria, as many as allowed,    *)
(* whatever rows the table holds (parseHistoryFilters, query).             *)
THEOREM AnswersAreRight ==
    ASSUME NEW q, NEW now \in Int, NEW export \in BOOLEAN, NEW table,
           IsSearch(q), IsTable(table), IsValidQuery(q, now, export)
    PROVE  IsRightAnswer(q, now, export, table, Query(table, ParseHistoryFilters(q, now)))
<1> DEFINE filters == ParseHistoryFilters(q, now)
           rows == Query(table, filters)
           wanted == {row \in table : Matches(row, filters)}
           returned == {rows[n] : n \in DOMAIN rows}
           limit == IF q.limit[1] = "digits" THEN q.limit[2] ELSE DefaultLimit
           greatest == IF export THEN MaxExportLimit ELSE MaxLimit
<1>1. limit \in Nat /\ limit <= greatest /\ filters.limit = limit
  <2>1. IsLimit(q.limit, greatest)
    BY DEF IsValidQuery
  <2>2. CASE q.limit[1] = "digits" /\ q.limit[2] \in 1 .. greatest
    <3>1. ~Missing(q.limit) /\ greatest \in Nat
      BY <2>2, LimitsAssumption DEF Missing
    <3> QED BY <2>2, <3>1 DEF ParseHistoryFilters
  <2>3. CASE Missing(q.limit)
    <3>1. q.limit[1] # "digits"
      BY <2>3 DEF Missing
    <3> QED BY <2>3, <3>1, LimitsAssumption DEF ParseHistoryFilters
  <2> QED BY <2>1, <2>2, <2>3 DEF IsLimit
<1>2. /\ rows \in Seq(table) /\ Len(rows) <= limit
      /\ \A n \in 1 .. Len(rows) : rows[n] \in wanted
      /\ \A m, n \in 1 .. Len(rows) : m < n => Newer(rows[m], rows[n])
      /\ \A row \in wanted : \/ \E n \in 1 .. Len(rows) : rows[n] = row
                             \/ /\ Len(rows) = limit
                                /\ \A n \in 1 .. Len(rows) : Newer(rows[n], row)
  BY <1>1, QueryAnswers
<1>3. DOMAIN rows = 1 .. Len(rows) /\ Len(rows) \in Nat
  BY <1>2, LenProperties
<1>4. \A row \in table : row.processedAt \in Int
  BY DEF IsTable
<1>5. \A r, s \in table : ~(Newer(r, s) /\ Newer(s, r))
  BY NewerOrders
<1>6. wanted = {row \in table :
             /\ /\ q.to[1] = "time" => row.processedAt <= q.to[2]
                /\ q.from[1] = "time" => row.processedAt >= q.from[2]
                /\ \A c \in Criteria : q[c][1] \in {"uuid", "text"} => row[c] = q[c]
             /\ /\ q.to[1] # "time" => row.processedAt <= now
                /\ q.from[1] # "time" =>
                     row.processedAt >= (IF q.to[1] = "time" THEN q.to[2] ELSE now) - DefaultRange}
  BY <1>4, FiltersMatch
<1>7. ASSUME NEW r \in wanted, NEW s \in wanted PROVE r.processedAt - s.processedAt <= MaxRange
  <2>1. /\ To(q, now) - From(q, now) <= MaxRange
        /\ filters.to = To(q, now) /\ filters.from = From(q, now)
    BY DEF IsValidQuery, ParseHistoryFilters
  <2>2. To(q, now) \in Int /\ From(q, now) \in Int /\ MaxRange \in Nat
    BY LimitsAssumption DEF To, From, Time, IsSearch
  <2>3. filters.from <= s.processedAt /\ r.processedAt <= filters.to
    BY DEF Matches
  <2>4. r.processedAt \in Int /\ s.processedAt \in Int
    BY <1>4
  <2> QED BY <2>1, <2>2, <2>3, <2>4
<1> HIDE DEF rows, wanted
<1>8. Cardinality(returned) = Len(rows)
  <2> DEFINE f == [n \in 1 .. Len(rows) |-> rows[n]]
  <2>1. f \in Bijection(1 .. Len(rows), returned)
    <3>1. f \in [1 .. Len(rows) -> returned] /\ \A r \in returned : \E n \in 1 .. Len(rows) : f[n] = r
      BY <1>3
    <3>2. ASSUME NEW m \in 1 .. Len(rows), NEW n \in 1 .. Len(rows), f[m] = f[n] PROVE m = n
      <4> SUFFICES ASSUME m # n PROVE FALSE
        OBVIOUS
      <4>1. rows[m] = rows[n] /\ (m < n \/ n < m) /\ rows[m] \in table
        BY <1>2, <1>3, <3>2, ElementOfSeq
      <4>2. Newer(rows[m], rows[n]) /\ Newer(rows[n], rows[m])
        BY <1>2, <4>1
      <4> QED BY <1>5, <4>1, <4>2
    <3> QED BY <3>1, <3>2 DEF Bijection, Injection, IsInjective, Surjection
  <2>2. IsFiniteSet(1 .. Len(rows)) /\ Cardinality(1 .. Len(rows)) = Len(rows)
    <3>1. IsFiniteSet(1 .. Len(rows)) /\ Cardinality(1 .. Len(rows)) = IF 1 > Len(rows) THEN 0 ELSE Len(rows) - 1 + 1
      BY <1>3, FS_Interval
    <3> QED BY <1>3, <3>1
  <2>3. ExistsBijection(1 .. Len(rows), returned)
    BY <2>1 DEF ExistsBijection
  <2> HIDE DEF f, returned
  <2> QED BY <2>2, <2>3, FS_Bijection
<1>9. returned \subseteq wanted
  BY <1>2, <1>3
<1>10. \A row \in wanted \ returned : Len(rows) = limit /\ \A n \in DOMAIN rows : Newer(rows[n], row)
  BY <1>2, <1>3
<1>11. \A m, n \in DOMAIN rows : m < n => Newer(rows[m], rows[n])
  BY <1>2, <1>3
<1>12. \A r, s \in returned : r.processedAt - s.processedAt <= MaxRange
  BY <1>7, <1>9
<1> HIDE DEF returned, limit, greatest
<1>13. /\ returned \subseteq wanted /\ Cardinality(returned) = Len(rows)
       /\ \A m, n \in DOMAIN rows : m < n => Newer(rows[m], rows[n])
       /\ Len(rows) <= limit /\ limit <= greatest
       /\ \A row \in wanted \ returned : Len(rows) = limit /\ \A n \in DOMAIN rows : Newer(rows[n], row)
       /\ \A row, s \in returned : row.processedAt - s.processedAt <= MaxRange
  BY <1>1, <1>2, <1>8, <1>9, <1>10, <1>11, <1>12
<1> QED BY <1>6, <1>13, Zenon DEF IsRightAnswer, returned, limit, greatest, rows, filters

-----------------------------------------------------------------------------
(* What reaches Redis, and what a page is answered                         *)

(* Only events leave the queue for a handler. *)
EventInv == \A m \in Message : broker[m] \notin {"ready", "dead"} => m \in Events

LEMMA EventStep == TypeOK /\ EventInv /\ [Next]_vars => EventInv'
<1> SUFFICES ASSUME TypeOK, EventInv, [Next]_vars PROVE EventInv'
  OBVIOUS
<1>1. ASSUME UNCHANGED broker PROVE EventInv'
  BY <1>1 DEF EventInv
<1>2. ASSUME NEW i \in Instance, Observe(i) PROVE EventInv'
  <2>1. pending[i] \in Seq(Events \X AcceptanceStatus) /\ pending[i] # <<>>
    BY <1>2 DEF TypeOK, Observe
  <2>2. Head(pending[i])[1] \in Events
    BY <2>1, HeadTailProperties
  <2>3. broker' = [broker EXCEPT ![Head(pending[i])[1]] = "acked"]
    BY <1>2 DEF Observe
  <2> QED BY <2>2, <2>3 DEF EventInv, TypeOK
<1>3. ASSUME NEW i \in Instance, NEW m \in Message, Decide(i, m) PROVE EventInv'
  <2>1. \/ m \in Events /\ broker' = [broker EXCEPT ![m] = i]
        \/ broker' = [broker EXCEPT ![m] = "dead"]
    BY <1>3 DEF Decide
  <2> QED BY <2>1 DEF EventInv, TypeOK
<1>4. ASSUME NEW i \in Instance, Crash(i) PROVE EventInv'
  BY <1>4 DEF Crash, EventInv
<1>5. CASE UNCHANGED vars
  BY <1>1, <1>5 DEF vars, feedVars
<1>6. CASE Next
  BY <1>1, <1>2, <1>3, <1>4, <1>6
  DEF Next, Relay, Render, Subscribe, SubscribeChart, Unsubscribe, Disconnect, feedVars
<1> QED BY <1>5, <1>6

(* Every message that got past the contract is a sound event, and so is    *)
(* every body that would get past it, among any set of JSON bodies.        *)
THEOREM ContractIsKept == Spec => []ContractIsRight
<1>1. Init => EventInv
  BY DEF Init, EventInv
<1>2. ASSUME EventInv PROVE ContractIsRight
  <2>1. BodiesAreSound
    BY BodiesAssumption, AcceptedBodiesAreSound DEF BodiesAreSound
  <2>2. ASSUME NEW m \in Events PROVE IsSound(Body[m])
    <3>1. Body[m] \in Bodies /\ IsLiveFeedEnvelope(Body[m]) /\ IdOf(m) \in EventId
      BY BodyAssumption DEF Events
    <3>2. Field(Body[m], "eventType")[2] \in AuctionTypes
      <4>1. Envelope[IdOf(m)].type \in EventType
        BY <3>1, EnvelopeAssumption DEF ValidEnvelope
      <4> QED BY <4>1, BodyAssumption, AuctionTypesAre DEF EventType
    <3> QED BY <2>1, <3>1, <3>2 DEF BodiesAreSound
  <2> QED BY <1>2, <2>1, <2>2 DEF ContractIsRight, SoundEvents, EventInv
<1> QED BY <1>1, <1>2, EventStep, HandlersCorrect, PTL DEF Spec

(* A page is answered what it searched for, whatever the searches and the  *)
(* rows there are.                                                         *)
THEOREM HistoryIsAnswered == Spec => []HistoryIsRight
<1>1. HistoryIsRight
  BY SearchAssumption, AnswersAreRight DEF HistoryIsRight, EveryAnswerIsRight
<1> QED BY <1>1, PTL

=============================================================================
