------------------------- MODULE ExposureJobsProofs -------------------------
(***************************************************************************)
(* The three walks over the graph, for any statements, co-mentions,        *)
(* requests and depths; then what the jobs on the snapshot write, for any  *)
(* corpus, curated entities and fund filings, and what every question is   *)
(* answered afterwards.                                                    *)
(***************************************************************************)
EXTENDS ExposureJobs, SequenceTheorems, FiniteSetTheorems, TLAPS

------------------------------------------------------------------------------
(* Positions and sequences.                                                *)

LEMMA LeastNumber ==
  ASSUME NEW S, S \subseteq Nat, S # {}
  PROVE  \E n \in S : \A m \in S : n <= m
<1>1. \E n \in S : \A m \in S : <<m, n>> \notin OpToRel(<, Nat)
  BY NatLessThanWellFounded, WFMin, Zenon
<1>2. \A m, n \in S : <<m, n>> \notin OpToRel(<, Nat) => n <= m
  BY DEF OpToRel
<1> QED
  BY <1>1, <1>2

\* The enumeration of a set of positions has each of them once.
LEMMA OrderSound ==
  ASSUME NEW I, I \subseteq Nat, IsFiniteSet(I)
  PROVE  /\ Cardinality(I) \in Nat
         /\ \A k \in 1..Cardinality(I) : InOrder(I)[k] \in I
         /\ \A k, l \in 1..Cardinality(I) : InOrder(I)[k] = InOrder(I)[l] => k = l
         /\ \A i \in I : \E k \in 1..Cardinality(I) : InOrder(I)[k] = i
<1> DEFINE below(i) == {j \in I : j < i}
           rank == [i \in I |-> Cardinality(below(i))]
           size == Cardinality(I)
<1>1. size \in Nat
  BY FS_CardinalityType
<1>2. ASSUME NEW i \in I PROVE IsFiniteSet(below(i)) /\ rank[i] \in 0..(size - 1)
  <2>1. below(i) \in SUBSET (I \ {i})
    OBVIOUS
  <2>2. IsFiniteSet(I \ {i}) /\ Cardinality(I \ {i}) = size - 1
    BY FS_RemoveElement
  <2>3. IsFiniteSet(below(i)) /\ Cardinality(below(i)) <= size - 1
    BY <2>1, <2>2, FS_Subset
  <2>4. Cardinality(below(i)) \in Nat
    BY <2>3, FS_CardinalityType
  <2> QED
    BY <1>1, <2>3, <2>4
<1>3. ASSUME NEW i \in I, NEW j \in I, i < j PROVE rank[i] < rank[j]
  <2>1. below(i) \in SUBSET below(j) /\ i \in below(j) /\ i \notin below(i)
    <3>1. i \in Nat /\ j \in Nat
      OBVIOUS
    <3>2. ASSUME NEW h \in I, h < i PROVE h < j
      <4>1. h \in Nat
        OBVIOUS
      <4> QED
        BY <1>3, <3>1, <3>2, <4>1
    <3>3. i \in below(j) /\ i \notin below(i)
      BY <1>3, <3>1
    <3> QED
      BY <3>2, <3>3
  <2>2. IsFiniteSet(below(j))
    BY <1>2
  <2>3. /\ Cardinality(below(i)) <= Cardinality(below(j))
        /\ Cardinality(below(j)) = Cardinality(below(i)) => below(j) = below(i)
    BY <2>1, <2>2, FS_Subset
  <2>4. rank[i] \in Nat /\ rank[j] \in Nat
    BY <1>1, <1>2
  <2> QED
    BY <2>1, <2>3, <2>4
<1>4. rank \in Injection(I, 0..(size - 1))
  <2>1. \A i, j \in I : rank[i] = rank[j] => i = j
    <3> SUFFICES ASSUME NEW i \in I, NEW j \in I, rank[i] = rank[j], i # j PROVE FALSE
      OBVIOUS
    <3>1. i \in Nat /\ j \in Nat /\ rank[i] \in Nat /\ rank[j] \in Nat
      BY <1>1, <1>2
    <3>2. i < j \/ j < i
      BY <3>1
    <3> QED
      BY <1>3, <3>1, <3>2
  <2>2. rank \in [I -> 0..(size - 1)]
    BY <1>2
  <2> QED
    BY <2>1, <2>2 DEF Injection, IsInjective
<1>5. IsFiniteSet(0..(size - 1)) /\ Cardinality(0..(size - 1)) = size
  <2>1. 0 \in Int /\ size - 1 \in Int /\ (0 > size - 1 => size = 0)
    BY <1>1
  <2> QED
    BY <1>1, <2>1, FS_Interval
<1>6. rank \in Surjection(I, 0..(size - 1))
  BY <1>4, <1>5, FS_Injection
<1>7. ASSUME NEW k \in 1..size
      PROVE  InOrder(I)[k] \in I /\ Cardinality(below(InOrder(I)[k])) = k - 1
  <2>1. k - 1 \in 0..(size - 1)
    BY <1>1
  <2>2. PICK i \in I : rank[i] = k - 1
    BY <1>6, <2>1 DEF Surjection
  <2>3. \E j \in I : Cardinality(below(j)) = k - 1
    BY <2>2
  <2>4. InOrder(I)[k] = CHOOSE j \in I : Cardinality(below(j)) = k - 1
    BY DEF InOrder
  <2> QED
    BY <2>3, <2>4
<1>8. ASSUME NEW i \in I PROVE \E k \in 1..size : InOrder(I)[k] = i
  <2>1. rank[i] \in 0..(size - 1)
    BY <1>2
  <2>2. rank[i] + 1 \in 1..size
    BY <1>1, <2>1
  <2>3. /\ InOrder(I)[rank[i] + 1] \in I
        /\ Cardinality(below(InOrder(I)[rank[i] + 1])) = (rank[i] + 1) - 1
    BY <1>7, <2>2
  <2>4. rank[InOrder(I)[rank[i] + 1]] = rank[i]
    BY <2>1, <2>3
  <2> QED
    BY <1>4, <2>2, <2>3, <2>4 DEF Injection, IsInjective
<1>9. ASSUME NEW k \in 1..size, NEW l \in 1..size, InOrder(I)[k] = InOrder(I)[l] PROVE k = l
  <2>1. k - 1 = l - 1
    BY <1>7, <1>9
  <2> QED
    BY <2>1
<1> QED
  BY <1>1, <1>7, <1>8, <1>9

\* What a sequence has at some of its positions.
LEMMA ThoseSound ==
  ASSUME NEW S, NEW s \in Seq(S), NEW I, I \subseteq DOMAIN s
  PROVE  /\ Those(s, I) \in Seq(S) /\ IsFiniteSet(I)
         /\ DOMAIN Those(s, I) = 1..Cardinality(I) /\ Cardinality(I) \in Nat
         /\ \A k \in DOMAIN Those(s, I) : InOrder(I)[k] \in I /\ Those(s, I)[k] = s[InOrder(I)[k]]
         /\ \A i \in I : \E k \in DOMAIN Those(s, I) : InOrder(I)[k] = i
         /\ \A k, l \in DOMAIN Those(s, I) : InOrder(I)[k] = InOrder(I)[l] => k = l
<1>1. DOMAIN s = 1..Len(s) /\ Len(s) \in Nat
  BY LenProperties
<1>2. IsFiniteSet(I) /\ I \subseteq Nat
  <2>1. IsFiniteSet(1..Len(s))
    BY <1>1, FS_Interval
  <2>2. I \in SUBSET (1..Len(s))
    BY <1>1
  <2> QED
    BY <2>1, <2>2, FS_Subset
<1>3. DOMAIN InOrder(I) = 1..Cardinality(I)
  BY DEF InOrder
<1>4. Those(s, I) = [k \in 1..Cardinality(I) |-> s[InOrder(I)[k]]]
  BY <1>3 DEF Those
<1>5. Cardinality(I) \in Nat /\ \A k \in 1..Cardinality(I) : InOrder(I)[k] \in I
  BY <1>2, OrderSound
<1>6. \A k \in 1..Cardinality(I) : s[InOrder(I)[k]] \in S
  BY <1>1, <1>5
<1>7. Those(s, I) \in Seq(S)
  BY <1>4, <1>5, <1>6
<1> QED
  BY <1>2, <1>4, <1>5, <1>7, OrderSound

\* Taking the first of what a queue holds, or the last of what a stack holds, and
\* adding more at the end.
LEMMA QueueStep ==
  ASSUME NEW S, NEW s \in Seq(S), s # <<>>, NEW t \in Seq(S)
  PROVE  /\ Tail(s) \o t \in Seq(S) /\ Len(Tail(s) \o t) = Len(s) - 1 + Len(t)
         /\ \A i \in 1..(Len(s) - 1) : (Tail(s) \o t)[i] = s[i + 1]
         /\ \A i \in 1..Len(t) : (Tail(s) \o t)[Len(s) - 1 + i] = t[i]
<1>1. Tail(s) \in Seq(S) /\ Len(Tail(s)) = Len(s) - 1 /\ \A i \in 1..Len(Tail(s)) : Tail(s)[i] = s[i + 1]
  BY HeadTailProperties
<1>2. /\ Tail(s) \o t \in Seq(S) /\ Len(Tail(s) \o t) = Len(Tail(s)) + Len(t)
      /\ \A i \in 1..(Len(Tail(s)) + Len(t)) :
           (Tail(s) \o t)[i] = IF i <= Len(Tail(s)) THEN Tail(s)[i] ELSE t[i - Len(Tail(s))]
  BY <1>1, ConcatProperties
<1>3. Len(s) \in Nat /\ Len(t) \in Nat /\ Len(s) # 0
  BY LenProperties, EmptySeq
<1> QED
  BY <1>1, <1>2, <1>3

LEMMA StackStep ==
  ASSUME NEW S, NEW s \in Seq(S), s # <<>>, NEW t \in Seq(S)
  PROVE  /\ Front(s) \o t \in Seq(S) /\ Len(Front(s) \o t) = Len(s) - 1 + Len(t)
         /\ \A i \in 1..(Len(s) - 1) : (Front(s) \o t)[i] = s[i]
         /\ \A i \in 1..Len(t) : (Front(s) \o t)[Len(s) - 1 + i] = t[i]
         /\ Last(s) = s[Len(s)] /\ Len(s) \in Nat \ {0}
<1>1. Len(s) \in Nat /\ Len(t) \in Nat /\ Len(s) # 0 /\ \A i \in 1..Len(s) : s[i] \in S
  BY LenProperties, EmptySeq
<1>2. 1 \in Int /\ Len(s) - 1 \in Int /\ \A i \in 1..(Len(s) - 1) : s[i] \in S
  BY <1>1
<1>3. /\ SubSeq(s, 1, Len(s) - 1) \in Seq(S)
      /\ Len(SubSeq(s, 1, Len(s) - 1)) = IF 1 <= Len(s) - 1 THEN Len(s) - 1 - 1 + 1 ELSE 0
      /\ \A i \in 1..(Len(s) - 1 - 1 + 1) : SubSeq(s, 1, Len(s) - 1)[i] = s[1 + i - 1]
  BY <1>2, SubSeqProperties
<1>4. Front(s) \in Seq(S) /\ Len(Front(s)) = Len(s) - 1 /\ \A i \in 1..(Len(s) - 1) : Front(s)[i] = s[i]
  <2> DEFINE r == SubSeq(s, 1, Len(s) - 1)
  <2>1. Front(s) = r
    BY DEF Front
  <2>2. /\ r \in Seq(S) /\ Len(r) = IF 1 <= Len(s) - 1 THEN Len(s) - 1 - 1 + 1 ELSE 0
        /\ \A i \in 1..(Len(s) - 1 - 1 + 1) : r[i] = s[1 + i - 1]
    BY <1>3
  <2> HIDE DEF r
  <2>3. Len(r) = Len(s) - 1
    <3>1. Len(s) \in Nat /\ Len(s) # 0
      BY <1>1
    <3>2. CASE Len(s) = 1
      BY <2>2, <3>2
    <3>3. CASE Len(s) # 1
      <4>1. 1 <= Len(s) - 1
        <5> SUFFICES ASSUME NEW n \in Nat, n # 0, n # 1 PROVE 1 <= n - 1
          BY <3>1, <3>3
        <5> QED
          OBVIOUS
      <4>2. Len(r) = Len(s) - 1 - 1 + 1
        BY <2>2, <4>1
      <4>3. Len(s) - 1 - 1 + 1 = Len(s) - 1
        BY <3>1
      <4> QED
        BY <4>2, <4>3
    <3> QED
      BY <3>2, <3>3
  <2>4. ASSUME NEW i \in 1..(Len(s) - 1) PROVE r[i] = s[i]
    <3>1. i \in 1..(Len(s) - 1 - 1 + 1) /\ 1 + i - 1 = i
      BY <1>1
    <3> QED
      BY <2>2, <3>1
  <2> QED
    BY <2>1, <2>2, <2>3, <2>4
<1>5. /\ Front(s) \o t \in Seq(S) /\ Len(Front(s) \o t) = Len(Front(s)) + Len(t)
      /\ \A i \in 1..(Len(Front(s)) + Len(t)) :
           (Front(s) \o t)[i] = IF i <= Len(Front(s)) THEN Front(s)[i] ELSE t[i - Len(Front(s))]
  BY <1>4, ConcatProperties
<1> QED
  BY <1>1, <1>4, <1>5 DEF Last

------------------------------------------------------------------------------
(* What some number of hops leads to.                                      *)

Hops(next, nodes, start) == next \in [nodes -> SUBSET nodes] /\ start \in nodes

LEMMA NoHops ==
  ASSUME NEW next, NEW nodes, NEW start, Hops(next, nodes, start)
  PROVE  Within(next, start, 0) = {start}
<1> USE DEF Hops
<1>1. ASSUME NEW n \in Within(next, start, 0) PROVE n = start
  BY <1>1 DEF Within, Trails
<1>2. start \in Within(next, start, 0)
  <2> DEFINE p == [i \in 0..0 |-> start]
  <2>1. p \in Trails(next, start, 0) /\ p[0] = start
    BY DEF Trails
  <2> QED
    BY <2>1 DEF Within
<1> QED
  BY <1>1, <1>2

\* One more hop leads to what was reached before, and what is one hop from it.
LEMMA OneMoreHop ==
  ASSUME NEW next, NEW nodes, NEW start, Hops(next, nodes, start), NEW h \in Nat
  PROVE  Within(next, start, h + 1) =
           Within(next, start, h) \cup UNION {next[n] : n \in Within(next, start, h)}
<1> USE DEF Hops
<1>1. ASSUME NEW n \in Within(next, start, h) PROVE n \in Within(next, start, h + 1)
  BY <1>1 DEF Within
<1>2. ASSUME NEW n \in Within(next, start, h), NEW m \in next[n] PROVE m \in Within(next, start, h + 1)
  <2> PICK k \in 0..h : \E p \in Trails(next, start, k) : n = p[k]
    BY <1>2 DEF Within
  <2>1. PICK p \in Trails(next, start, k) : n = p[k]
    OBVIOUS
  <2>2. p \in [0..k -> nodes] /\ p[0] = start /\ \A i \in 1..k : p[i] \in next[p[i - 1]]
    BY <2>1 DEF Trails
  <2> DEFINE q == [i \in 0..(k + 1) |-> IF i = k + 1 THEN m ELSE p[i]]
  <2>3. n \in nodes /\ m \in nodes
    BY <1>2, <2>1, <2>2
  <2>4. q \in [0..(k + 1) -> nodes] /\ q[0] = start /\ q[k + 1] = m
    BY <2>1, <2>2, <2>3
  <2>5. ASSUME NEW i \in 1..(k + 1) PROVE q[i] \in next[q[i - 1]]
    <3>1. CASE i = k + 1
      BY <1>2, <2>1, <3>1
    <3>2. CASE i # k + 1
      BY <2>1, <2>2, <3>2
    <3> QED
      BY <3>1, <3>2
  <2>6. q \in Trails(next, start, k + 1)
    BY <2>4, <2>5 DEF Trails
  <2> QED
    BY <2>1, <2>4, <2>6 DEF Within
<1>3. ASSUME NEW m \in Within(next, start, h + 1), m \notin Within(next, start, h)
      PROVE  \E n \in Within(next, start, h) : m \in next[n]
  <2> PICK k \in 0..(h + 1) : \E p \in Trails(next, start, k) : m = p[k]
    BY <1>3 DEF Within
  <2>1. PICK p \in Trails(next, start, k) : m = p[k]
    OBVIOUS
  <2>2. k = h + 1
    BY <1>3, <2>1 DEF Within
  <2>3. p \in [0..k -> nodes] /\ p[0] = start /\ \A i \in 1..k : p[i] \in next[p[i - 1]]
    BY <2>1 DEF Trails
  <2> DEFINE q == [i \in 0..h |-> p[i]]
  <2>4. q \in [0..h -> nodes] /\ q[0] = start
    BY <2>2, <2>3
  <2>5. \A i \in 1..h : q[i] \in next[q[i - 1]]
    BY <2>2, <2>3
  <2>6. q \in Trails(next, start, h) /\ q[h] = p[h]
    <3>1. DOMAIN next = nodes /\ h \in 0..h
      OBVIOUS
    <3> QED
      BY <2>4, <2>5, <3>1 DEF Trails
  <2>7. p[h] \in Within(next, start, h)
    BY <2>6 DEF Within
  <2>8. m \in next[p[h]]
    <3>1. k \in 1..k /\ k - 1 = h
      BY <2>2
    <3> QED
      BY <2>1, <2>3, <3>1
  <2> QED
    BY <2>7, <2>8
<1> QED
  BY <1>1, <1>2, <1>3

LEMMA MoreHops ==
  ASSUME NEW next, NEW start, NEW h \in Nat, NEW k \in Nat, h <= k
  PROVE  Within(next, start, h) \subseteq Within(next, start, k)
BY DEF Within

LEMMA WithinNodes ==
  ASSUME NEW next, NEW nodes, NEW start, Hops(next, nodes, start), NEW h \in Nat
  PROVE  Within(next, start, h) \subseteq nodes
BY DEF Hops, Within, Trails

------------------------------------------------------------------------------
(* Breadth first: what a queue of nodes, each with the path to it, and the *)
(* set of nodes that were met have in common at every step.                *)

\* d hops lead to n and fewer do not.
Away(next, start, n, d) ==
  n \in Within(next, start, d) /\ \A k \in 0..(d - 1) : n \notin Within(next, start, k)

\* The queue has each of its nodes once, by distance, over at most two distances;
\* of a node that left it, what is one hop away has been met, within the limit.
Breadth(next, start, limit, q, met) ==
  /\ start \in met /\ met \subseteq Within(next, start, limit)
  /\ \A i \in DOMAIN q : /\ q[i].at \in met /\ Len(q[i].path) \in 0..limit
                         /\ Away(next, start, q[i].at, Len(q[i].path))
  /\ \A i, j \in DOMAIN q : i <= j => /\ Len(q[i].path) <= Len(q[j].path)
                                      /\ Len(q[j].path) <= Len(q[1].path) + 1
  /\ \A i, j \in DOMAIN q : q[i].at = q[j].at => i = j
  /\ \A n \in met : \/ \E i \in DOMAIN q : q[i].at = n
                    \/ next[n] \subseteq met
                    \/ n \notin Within(next, start, limit - 1)

\* What is nearer than everything in the queue has been met.
LEMMA NearerIsMet ==
  ASSUME NEW next, NEW nodes, NEW start, Hops(next, nodes, start), NEW limit \in Nat,
         NEW q, NEW met, Breadth(next, start, limit, q, met),
         NEW d \in 0..limit, \A i \in DOMAIN q : d <= Len(q[i].path)
  PROVE  Within(next, start, d) \subseteq met
<1> DEFINE short == {k \in 0..d : ~(Within(next, start, k) \subseteq met)}
<1> SUFFICES ASSUME short # {} PROVE FALSE
  OBVIOUS
<1>1. short \subseteq Nat
  OBVIOUS
<1>2. PICK k \in short : \A j \in short : k <= j
  <2> HIDE DEF short
  <2> QED
    BY <1>1, LeastNumber
<1>3. k # 0
  BY <1>2, NoHops DEF Breadth
<1>4. k - 1 \in Nat /\ k - 1 \in 0..d /\ k - 1 + 1 = k /\ ~(k <= k - 1)
  BY <1>3
<1>5. Within(next, start, k - 1) \subseteq met
  BY <1>2, <1>4
<1>6. Within(next, start, k) =
        Within(next, start, k - 1) \cup UNION {next[n] : n \in Within(next, start, k - 1)}
  BY <1>4, OneMoreHop
<1>7. PICK n \in Within(next, start, k - 1) : ~(next[n] \subseteq met)
  BY <1>2, <1>5, <1>6
<1>8. n \in Within(next, start, limit - 1)
  <2>1. limit - 1 \in Nat /\ k - 1 <= limit - 1
    BY <1>4
  <2> QED
    BY <1>4, <1>7, <2>1, MoreHops
<1>9. PICK i \in DOMAIN q : q[i].at = n
  BY <1>5, <1>7, <1>8 DEF Breadth
<1>10. Len(q[i].path) \in Nat /\ k <= Len(q[i].path) /\ \A j \in 0..(Len(q[i].path) - 1) : n \notin Within(next, start, j)
  BY <1>9 DEF Breadth, Away
<1>11. k - 1 \in 0..(Len(q[i].path) - 1)
  BY <1>4, <1>10
<1> QED
  BY <1>7, <1>10, <1>11

\* A queue that is empty has met everything within the limit.
LEMMA BreadthDone ==
  ASSUME NEW next, NEW nodes, NEW start, Hops(next, nodes, start), NEW limit \in Nat,
         NEW met, Breadth(next, start, limit, <<>>, met)
  PROVE  met = Within(next, start, limit)
<1>1. Within(next, start, limit) \subseteq met
  BY NearerIsMet
<1> QED
  BY <1>1 DEF Breadth

LEMMA BreadthStart ==
  ASSUME NEW next, NEW nodes, NEW start, Hops(next, nodes, start), NEW limit \in Nat
  PROVE  Breadth(next, start, limit, <<[at |-> start, path |-> <<>>]>>, {start})
<1> DEFINE q == <<[at |-> start, path |-> <<>>]>>
<1>1. DOMAIN q = {1} /\ q[1].at = start /\ Len(q[1].path) = 0
  OBVIOUS
<1>2. start \in Within(next, start, 0) /\ Within(next, start, 0) \subseteq Within(next, start, limit)
  BY NoHops, MoreHops
<1>3. Away(next, start, start, 0)
  BY <1>2 DEF Away
<1> HIDE DEF q
<1>4. start \in Within(next, start, limit) /\ 0 \in 0..limit
  BY <1>2
<1>5. Breadth(next, start, limit, q, {start})
  BY <1>1, <1>3, <1>4 DEF Breadth
<1> QED
  BY <1>5 DEF q

LEMMA Further ==
  ASSUME NEW a \in Nat, NEW b \in Nat, NEW c \in Nat, a <= b + 1, b <= c
  PROVE  a <= c + 1
OBVIOUS

\* The first of the queue is as far as the walk goes, and is left.
LEMMA BreadthCut ==
  ASSUME NEW next, NEW nodes, NEW start, Hops(next, nodes, start), NEW limit \in Nat \ {0},
         NEW S, NEW q \in Seq(S), q # <<>>, NEW met, Breadth(next, start, limit, q, met),
         Len(q[1].path) >= limit
  PROVE  Breadth(next, start, limit, Tail(q), met)
<1>1. /\ Len(q) \in Nat \ {0} /\ DOMAIN q = 1..Len(q) /\ DOMAIN Tail(q) = 1..(Len(q) - 1)
      /\ \A i \in DOMAIN Tail(q) : i + 1 \in DOMAIN q /\ Tail(q)[i] = q[i + 1]
  BY HeadTailProperties, LenProperties, EmptySeq
<1>2. q[1].at \notin Within(next, start, limit - 1)
  <2>1. 1 \in DOMAIN q
    BY <1>1
  <2>2. Len(q[1].path) = limit /\ Away(next, start, q[1].at, Len(q[1].path))
    BY <2>1 DEF Breadth
  <2> QED
    BY <2>2 DEF Away
<1>3. ASSUME NEW n \in met
      PROVE  \/ \E i \in DOMAIN Tail(q) : Tail(q)[i].at = n
             \/ next[n] \subseteq met
             \/ n \notin Within(next, start, limit - 1)
  <2>1. SUFFICES ASSUME NEW i \in DOMAIN q, q[i].at = n, i # 1
                 PROVE  \E j \in DOMAIN Tail(q) : Tail(q)[j].at = n
    BY <1>2 DEF Breadth
  <2>2. i - 1 \in DOMAIN Tail(q) /\ Tail(q)[i - 1] = q[i]
    BY <1>1, <2>1
  <2> QED
    BY <2>1, <2>2
<1>4. ASSUME NEW i \in DOMAIN Tail(q), NEW j \in DOMAIN Tail(q)
      PROVE  /\ i <= j => /\ Len(Tail(q)[i].path) <= Len(Tail(q)[j].path)
                          /\ Len(Tail(q)[j].path) <= Len(Tail(q)[1].path) + 1
             /\ Tail(q)[i].at = Tail(q)[j].at => i = j
  <2>1. /\ i + 1 \in DOMAIN q /\ j + 1 \in DOMAIN q /\ 1 \in DOMAIN Tail(q) /\ 2 \in DOMAIN q /\ 1 \in DOMAIN q
        /\ Tail(q)[i] = q[i + 1] /\ Tail(q)[j] = q[j + 1] /\ Tail(q)[1] = q[2] /\ i \in Nat /\ j \in Nat
    BY <1>1
  <2>2. /\ \A k \in DOMAIN q : Len(q[k].path) \in Nat
        /\ \A k, l \in DOMAIN q : k <= l => /\ Len(q[k].path) <= Len(q[l].path)
                                            /\ Len(q[l].path) <= Len(q[1].path) + 1
        /\ \A k, l \in DOMAIN q : q[k].at = q[l].at => k = l
    BY DEF Breadth
  <2>3. Len(q[1].path) <= Len(q[2].path) /\ Len(q[1].path) \in Nat /\ Len(q[2].path) \in Nat
    BY <2>1, <2>2
  <2>4. q[i + 1].at = q[j + 1].at => i = j
    BY <2>1, <2>2
  <2>5. ASSUME i <= j
        PROVE  Len(q[i + 1].path) <= Len(q[j + 1].path) /\ Len(q[j + 1].path) <= Len(q[2].path) + 1
    <3>1. i + 1 <= j + 1
      BY <2>1, <2>5
    <3>2. /\ Len(q[i + 1].path) <= Len(q[j + 1].path) /\ Len(q[j + 1].path) <= Len(q[1].path) + 1
          /\ Len(q[j + 1].path) \in Nat
      BY <2>1, <2>2, <3>1
    <3> QED
      BY <2>3, <3>2, Further
  <2> QED
    BY <2>1, <2>4, <2>5
<1>5. \A i \in DOMAIN Tail(q) : /\ Tail(q)[i].at \in met /\ Len(Tail(q)[i].path) \in 0..limit
                                /\ Away(next, start, Tail(q)[i].at, Len(Tail(q)[i].path))
  BY <1>1 DEF Breadth
<1> QED
  BY <1>3, <1>4, <1>5 DEF Breadth

\* A place in the queue after a step is one behind the first before it, or one of
\* what was added.
LEMMA QueuePlaces ==
  ASSUME NEW S, NEW q \in Seq(S), q # <<>>, NEW t \in Seq(S), NEW r, r = Tail(q) \o t
  PROVE  /\ r \in Seq(S)
         /\ \A k \in DOMAIN r :
              \/ k + 1 \in DOMAIN q /\ k + 1 # 1 /\ r[k] = q[k + 1]
              \/ k >= Len(q) /\ k - (Len(q) - 1) \in DOMAIN t /\ r[k] = t[k - (Len(q) - 1)]
         /\ \A i \in DOMAIN q : i # 1 => i - 1 \in DOMAIN r /\ r[i - 1] = q[i]
         /\ \A i \in DOMAIN t : Len(q) - 1 + i \in DOMAIN r /\ r[Len(q) - 1 + i] = t[i]
         /\ 1 \in DOMAIN q /\ Head(q) = q[1] /\ DOMAIN q = 1..Len(q) /\ Len(q) \in Nat
         /\ DOMAIN r \subseteq Nat
<1>1. Len(q) \in Nat \ {0} /\ DOMAIN q = 1..Len(q) /\ Len(t) \in Nat /\ DOMAIN t = 1..Len(t)
  BY LenProperties, EmptySeq
<1>2. /\ r \in Seq(S) /\ Len(r) = Len(q) - 1 + Len(t)
      /\ \A i \in 1..(Len(q) - 1) : r[i] = q[i + 1]
      /\ \A i \in 1..Len(t) : r[Len(q) - 1 + i] = t[i]
  BY QueueStep
<1>3. Head(q) = q[1]
  BY <1>1
<1>4. DOMAIN r = 1..(Len(q) - 1 + Len(t))
  BY <1>2, LenProperties
<1>5. ASSUME NEW k \in DOMAIN r
      PROVE  \/ k + 1 \in DOMAIN q /\ k + 1 # 1 /\ r[k] = q[k + 1]
             \/ k >= Len(q) /\ k - (Len(q) - 1) \in DOMAIN t /\ r[k] = t[k - (Len(q) - 1)]
  <2>1. CASE k <= Len(q) - 1
    BY <1>1, <1>2, <1>4, <2>1
  <2>2. CASE k >= Len(q)
    <3> DEFINE i == k - (Len(q) - 1)
    <3>1. i \in 1..Len(t) /\ Len(q) - 1 + i = k
      BY <1>1, <1>4, <2>2
    <3>2. r[Len(q) - 1 + i] = t[i]
      BY <1>2, <3>1
    <3> QED
      BY <1>1, <2>2, <3>1, <3>2
  <2> QED
    BY <1>1, <1>4, <2>1, <2>2
<1>6. \A i \in DOMAIN q : i # 1 => i - 1 \in DOMAIN r /\ r[i - 1] = q[i]
  <2> SUFFICES ASSUME NEW i \in DOMAIN q, i # 1 PROVE i - 1 \in DOMAIN r /\ r[i - 1] = q[i]
    OBVIOUS
  <2>1. i - 1 \in 1..(Len(q) - 1) /\ i - 1 + 1 = i
    BY <1>1
  <2>2. r[i - 1] = q[i - 1 + 1]
    BY <1>2, <2>1
  <2> QED
    BY <1>1, <1>4, <2>1, <2>2
<1>7. \A i \in DOMAIN t : Len(q) - 1 + i \in DOMAIN r /\ r[Len(q) - 1 + i] = t[i]
  BY <1>1, <1>2, <1>4
<1> QED
  BY <1>1, <1>2, <1>3, <1>4, <1>5, <1>6, <1>7

\* What is one hop from the first of the queue and was not met goes to its end.
LEMMA BreadthSpread ==
  ASSUME NEW next, NEW nodes, NEW start, Hops(next, nodes, start), NEW limit \in Nat,
         NEW S, NEW q \in Seq(S), q # <<>>, NEW met, Breadth(next, start, limit, q, met),
         Len(q[1].path) < limit,
         NEW t \in Seq(S), {t[i].at : i \in DOMAIN t} = next[q[1].at] \ met,
         \A i, j \in DOMAIN t : t[i].at = t[j].at => i = j,
         \A i \in DOMAIN t : Len(t[i].path) = Len(q[1].path) + 1
  PROVE  Breadth(next, start, limit, Tail(q) \o t, met \cup next[q[1].at])
<1> SUFFICES ASSUME NEW r, r = Tail(q) \o t
             PROVE  Breadth(next, start, limit, r, met \cup next[q[1].at])
  OBVIOUS
<1> DEFINE far == Len(q[1].path)
           seen2 == met \cup next[q[1].at]
<1>1. /\ r \in Seq(S)
      /\ \A k \in DOMAIN r :
           \/ k + 1 \in DOMAIN q /\ k + 1 # 1 /\ r[k] = q[k + 1]
           \/ k >= Len(q) /\ k - (Len(q) - 1) \in DOMAIN t /\ r[k] = t[k - (Len(q) - 1)]
      /\ \A i \in DOMAIN q : i # 1 => i - 1 \in DOMAIN r /\ r[i - 1] = q[i]
      /\ \A i \in DOMAIN t : Len(q) - 1 + i \in DOMAIN r /\ r[Len(q) - 1 + i] = t[i]
      /\ 1 \in DOMAIN q /\ DOMAIN q = 1..Len(q) /\ Len(q) \in Nat /\ DOMAIN r \subseteq Nat
  BY QueuePlaces
<1>2. DOMAIN t = 1..Len(t) /\ Len(t) \in Nat
  BY LenProperties
<1>3. far \in Nat /\ Away(next, start, q[1].at, far) /\ q[1].at \in met
  BY <1>1 DEF Breadth
<1>4. \A i \in DOMAIN q : Len(q[i].path) \in Nat /\ far <= Len(q[i].path) /\ Len(q[i].path) <= far + 1
  <2> SUFFICES ASSUME NEW i \in DOMAIN q
               PROVE  Len(q[i].path) \in Nat /\ far <= Len(q[i].path) /\ Len(q[i].path) <= far + 1
    OBVIOUS
  <2>1. 1 <= i
    BY <1>1
  <2>2. Len(q[i].path) \in 0..limit
    BY DEF Breadth
  <2>3. /\ \A j, k \in DOMAIN q : j <= k => Len(q[j].path) <= Len(q[k].path)
        /\ \A j, k \in DOMAIN q : j <= k => Len(q[k].path) <= Len(q[1].path) + 1
    BY DEF Breadth
  <2>4. far <= Len(q[i].path)
    BY <1>1, <2>1, <2>3
  <2> QED
    BY <1>1, <2>1, <2>2, <2>3, <2>4
<1>5. Within(next, start, far) \subseteq met
  <2>1. far \in 0..limit
    BY <1>3
  <2> QED
    BY <1>4, <2>1, NearerIsMet
<1>6. next[q[1].at] \subseteq Within(next, start, far + 1)
  <2>1. Within(next, start, far + 1) =
          Within(next, start, far) \cup UNION {next[n] : n \in Within(next, start, far)}
    BY <1>3, OneMoreHop
  <2>2. q[1].at \in Within(next, start, far)
    BY <1>3 DEF Away
  <2> HIDE DEF far
  <2> QED
    BY <2>1, <2>2
<1>7. ASSUME NEW i \in DOMAIN t
      PROVE  /\ t[i].at \in seen2 /\ t[i].at \notin met
             /\ Len(t[i].path) = far + 1 /\ Away(next, start, t[i].at, far + 1)
  <2>1. t[i].at \in next[q[1].at] /\ t[i].at \notin met
    OBVIOUS
  <2>2. ASSUME NEW k \in 0..far PROVE t[i].at \notin Within(next, start, k)
    BY <1>3, <1>5, <2>1, MoreHops
  <2>3. 0..(far + 1 - 1) = 0..far
    BY <1>3
  <2> QED
    BY <1>6, <2>1, <2>2, <2>3 DEF Away
<1> HIDE DEF far
<1>8. seen2 \subseteq Within(next, start, limit)
  <2>1. far + 1 \in Nat /\ far + 1 <= limit
    BY <1>3 DEF far
  <2>2. Within(next, start, far + 1) \subseteq Within(next, start, limit)
    BY <2>1, MoreHops
  <2> QED
    BY <1>6, <2>2 DEF Breadth
<1>9. ASSUME NEW k \in DOMAIN r
      PROVE  /\ r[k].at \in seen2 /\ Len(r[k].path) \in 0..limit
             /\ Away(next, start, r[k].at, Len(r[k].path))
             /\ far <= Len(r[k].path) /\ Len(r[k].path) <= far + 1
  <2>1. CASE k + 1 \in DOMAIN q /\ r[k] = q[k + 1]
    BY <1>4, <2>1 DEF Breadth
  <2>2. CASE k - (Len(q) - 1) \in DOMAIN t /\ r[k] = t[k - (Len(q) - 1)]
    <3>1. far + 1 \in 0..limit /\ far <= far + 1
      BY <1>3 DEF far
    <3> QED
      BY <1>7, <2>2, <3>1
  <2> QED
    BY <1>1, <2>1, <2>2
<1>10. ASSUME NEW k \in DOMAIN r, NEW l \in DOMAIN r, k <= l
       PROVE  /\ Len(r[k].path) <= Len(r[l].path)
              /\ Len(r[l].path) <= Len(r[1].path) + 1
  <2>1. k \in Nat /\ l \in Nat /\ 1 \in DOMAIN r
    <3>1. DOMAIN r = 1..Len(r) /\ Len(r) \in Nat
      BY <1>1, LenProperties
    <3> QED
      BY <3>1
  <2>2. \A m \in DOMAIN r : Len(r[m].path) \in Nat
    <3>1. \A m \in DOMAIN r : Len(r[m].path) \in 0..limit
      BY <1>9
    <3> QED
      BY <3>1
  <2>3. Len(r[l].path) <= Len(r[1].path) + 1
    BY <1>3, <1>9, <2>1, <2>2, Further
  <2>4. CASE l >= Len(q) /\ l - (Len(q) - 1) \in DOMAIN t /\ r[l] = t[l - (Len(q) - 1)]
    <3>1. Len(r[l].path) = far + 1
      BY <1>7, <2>4
    <3> QED
      BY <1>9, <2>3, <3>1
  <2>5. CASE l + 1 \in DOMAIN q /\ r[l] = q[l + 1]
    <3>1. k + 1 \in DOMAIN q /\ r[k] = q[k + 1]
      BY <1>1, <1>10, <2>1, <2>5
    <3>2. k + 1 <= l + 1
      BY <1>10, <2>1
    <3>3. Len(q[k + 1].path) <= Len(q[l + 1].path)
      BY <2>5, <3>1, <3>2 DEF Breadth
    <3> QED
      BY <2>3, <2>5, <3>1, <3>3
  <2> QED
    BY <1>1, <2>4, <2>5
<1>11. ASSUME NEW k \in DOMAIN r, NEW l \in DOMAIN r, r[k].at = r[l].at PROVE k = l
  <2>1. k \in Nat /\ l \in Nat
    BY <1>1
  <2>2. CASE k + 1 \in DOMAIN q /\ r[k] = q[k + 1]
    <3>1. r[k].at \in met
      BY <2>2 DEF Breadth
    <3>2. l + 1 \in DOMAIN q /\ r[l] = q[l + 1]
      BY <1>1, <1>7, <1>11, <3>1
    <3>3. k + 1 = l + 1
      BY <1>11, <2>2, <3>2 DEF Breadth
    <3> QED
      BY <2>1, <3>3
  <2>3. CASE k - (Len(q) - 1) \in DOMAIN t /\ r[k] = t[k - (Len(q) - 1)]
    <3>1. r[k].at \notin met
      BY <1>7, <2>3
    <3>2. ~(l + 1 \in DOMAIN q /\ r[l] = q[l + 1])
      BY <1>11, <3>1 DEF Breadth
    <3>3. l - (Len(q) - 1) \in DOMAIN t /\ r[l] = t[l - (Len(q) - 1)]
      BY <1>1, <3>2
    <3>4. k - (Len(q) - 1) = l - (Len(q) - 1)
      BY <1>11, <2>3, <3>3
    <3> QED
      BY <1>1, <2>1, <3>4
  <2> QED
    BY <1>1, <2>2, <2>3
<1>12. ASSUME NEW n \in seen2
       PROVE  \/ \E k \in DOMAIN r : r[k].at = n
              \/ next[n] \subseteq seen2
              \/ n \notin Within(next, start, limit - 1)
  <2>1. CASE n \notin met
    <3>1. PICK i \in DOMAIN t : t[i].at = n
      BY <2>1
    <3> QED
      BY <1>1, <3>1
  <2>2. ASSUME NEW i \in DOMAIN q, q[i].at = n PROVE (\E k \in DOMAIN r : r[k].at = n) \/ next[n] \subseteq seen2
    BY <1>1, <2>2
  <2> QED
    BY <2>1, <2>2 DEF Breadth
<1>13. start \in seen2
  BY DEF Breadth
<1>14. Breadth(next, start, limit, r, seen2)
  <2> HIDE DEF seen2
  <2> QED
    BY <1>8, <1>9, <1>10, <1>11, <1>12, <1>13 DEF Breadth
<1> QED
  BY <1>14

------------------------------------------------------------------------------
(* Hops that lead to what was not met, and paths of hops.                  *)

LEMMA FreshSound ==
  ASSUME NEW S, NEW hops \in Seq(S), NEW met, NEW new, new = Fresh(hops, met)
  PROVE  /\ new \in Seq(S) /\ \A k \in DOMAIN new : \E i \in DOMAIN hops : new[k] = hops[i]
         /\ {new[k].to : k \in DOMAIN new} = {hops[i].to : i \in DOMAIN hops} \ met
         /\ \A k, l \in DOMAIN new : new[k].to = new[l].to => k = l
<1> DEFINE I == {i \in DOMAIN hops : /\ hops[i].to \notin met
                                    /\ \A j \in 1..(i - 1) : hops[j].to # hops[i].to}
<1>1. new = Those(hops, I)
  BY DEF Fresh
<1>2. /\ new \in Seq(S)
      /\ \A k \in DOMAIN new : InOrder(I)[k] \in I /\ new[k] = hops[InOrder(I)[k]]
      /\ \A i \in I : \E k \in DOMAIN new : InOrder(I)[k] = i
      /\ \A k, l \in DOMAIN new : InOrder(I)[k] = InOrder(I)[l] => k = l
  <2>1. I \subseteq DOMAIN hops
    OBVIOUS
  <2> HIDE DEF I
  <2> QED
    BY <1>1, <2>1, ThoseSound
<1>3. DOMAIN hops = 1..Len(hops) /\ Len(hops) \in Nat
  BY LenProperties
<1>4. ASSUME NEW i \in DOMAIN hops, hops[i].to \notin met PROVE \E j \in I : hops[j].to = hops[i].to
  <2> DEFINE same == {j \in DOMAIN hops : hops[j].to = hops[i].to}
  <2>1. same \subseteq Nat /\ same # {}
    BY <1>3
  <2>2. PICK j \in same : \A k \in same : j <= k
    <3> HIDE DEF same
    <3> QED
      BY <2>1, LeastNumber
  <2>3. \A k \in 1..(j - 1) : hops[k].to # hops[j].to
    <3> SUFFICES ASSUME NEW k \in 1..(j - 1), hops[k].to = hops[j].to PROVE FALSE
      OBVIOUS
    <3>1. k \in same /\ ~(j <= k)
      BY <1>3, <2>2
    <3> QED
      BY <2>2, <3>1
  <2> QED
    BY <1>4, <2>2, <2>3
<1>5. \A i, j \in I : hops[i].to = hops[j].to => i = j
  <2> SUFFICES ASSUME NEW i \in I, NEW j \in I, hops[i].to = hops[j].to, i # j PROVE FALSE
    OBVIOUS
  <2>1. i \in 1..(j - 1) \/ j \in 1..(i - 1)
    BY <1>3
  <2> QED
    BY <2>1
<1>6. \A k \in DOMAIN new : \E i \in DOMAIN hops : new[k] = hops[i] /\ hops[i].to \notin met
  BY <1>2
<1>7. {new[k].to : k \in DOMAIN new} = {hops[i].to : i \in DOMAIN hops} \ met
  <2>1. ASSUME NEW i \in DOMAIN hops, hops[i].to \notin met PROVE \E k \in DOMAIN new : new[k].to = hops[i].to
    <3>1. PICK j \in I : hops[j].to = hops[i].to
      BY <1>4, <2>1
    <3>2. PICK k \in DOMAIN new : InOrder(I)[k] = j
      BY <1>2
    <3> QED
      BY <1>2, <3>1, <3>2
  <2> QED
    BY <1>6, <2>1
<1>8. \A k, l \in DOMAIN new : new[k].to = new[l].to => k = l
  <2> HIDE DEF I
  <2> QED
    BY <1>2, <1>5
<1> QED
  BY <1>2, <1>6, <1>7, <1>8

LEMMA JoinedFurther ==
  ASSUME NEW S, NEW path \in Seq(S), NEW hop \in S,
         path = <<>> => hop.from = ask.seed, path # <<>> => Joined(path, hop.from)
  PROVE  Joined(Append(path, hop), hop.to)
<1> DEFINE more == Append(path, hop)
<1>1. /\ more \in Seq(S) /\ Len(more) = Len(path) + 1 /\ Len(path) \in Nat
      /\ \A i \in 1..Len(path) : more[i] = path[i]
      /\ more[Len(path) + 1] = hop
  BY AppendProperties, LenProperties
<1>2. path = <<>> <=> Len(path) = 0
  BY EmptySeq
<1> HIDE DEF more
<1>3. more # <<>> /\ more[Len(more)].to = hop.to
  BY <1>1
<1>4. more[1].from = ask.seed
  BY <1>1, <1>2 DEF Joined
<1>5. ASSUME NEW i \in 2..Len(more) PROVE more[i].from = more[i - 1].to
  <2>1. CASE i <= Len(path)
    <3>1. i \in 2..Len(path) /\ i \in 1..Len(path) /\ i - 1 \in 1..Len(path) /\ path # <<>>
      BY <1>1, <1>2, <2>1
    <3> QED
      BY <1>1, <3>1 DEF Joined
  <2>2. CASE i = Len(path) + 1
    <3>1. i - 1 = Len(path) /\ Len(path) \in 1..Len(path) /\ path # <<>>
      BY <1>1, <1>2, <2>2
    <3> QED
      BY <1>1, <2>2, <3>1 DEF Joined
  <2> QED
    BY <1>1, <2>1, <2>2
<1>6. Joined(more, hop.to)
  BY <1>3, <1>4, <1>5 DEF Joined
<1> QED
  BY <1>6 DEF more

\* The places of two sequences one after the other.
LEMMA ConcatPlaces ==
  ASSUME NEW S, NEW s \in Seq(S), NEW t \in Seq(S), NEW r, r = s \o t
  PROVE  /\ r \in Seq(S) /\ DOMAIN r \subseteq Nat
         /\ \A k \in DOMAIN r :
              \/ k \in DOMAIN s /\ r[k] = s[k]
              \/ k > Len(s) /\ k - Len(s) \in DOMAIN t /\ r[k] = t[k - Len(s)]
         /\ \A i \in DOMAIN s : i \in DOMAIN r /\ r[i] = s[i]
         /\ \A i \in DOMAIN t : Len(s) + i \in DOMAIN r /\ r[Len(s) + i] = t[i]
         /\ Len(s) \in Nat /\ DOMAIN s = 1..Len(s)
<1>1. /\ Len(s) \in Nat /\ Len(t) \in Nat /\ DOMAIN s = 1..Len(s) /\ DOMAIN t = 1..Len(t)
  BY LenProperties
<1>2. /\ r \in Seq(S) /\ Len(r) = Len(s) + Len(t)
      /\ \A k \in 1..(Len(s) + Len(t)) : r[k] = IF k <= Len(s) THEN s[k] ELSE t[k - Len(s)]
  BY ConcatProperties
<1>3. DOMAIN r = 1..(Len(s) + Len(t))
  BY <1>2, LenProperties
<1>4. ASSUME NEW i \in DOMAIN t PROVE Len(s) + i \in DOMAIN r /\ r[Len(s) + i] = t[i]
  <2>1. Len(s) + i \in 1..(Len(s) + Len(t)) /\ ~(Len(s) + i <= Len(s)) /\ Len(s) + i - Len(s) = i
    BY <1>1
  <2>2. r[Len(s) + i] = t[Len(s) + i - Len(s)]
    BY <1>2, <2>1
  <2> QED
    BY <1>3, <2>1, <2>2
<1>5. ASSUME NEW k \in DOMAIN r
      PROVE  \/ k \in DOMAIN s /\ r[k] = s[k]
             \/ k > Len(s) /\ k - Len(s) \in DOMAIN t /\ r[k] = t[k - Len(s)]
  <2>1. CASE k <= Len(s)
    BY <1>1, <1>2, <1>3, <2>1
  <2>2. CASE k > Len(s)
    <3>1. k - Len(s) \in 1..Len(t)
      BY <1>1, <1>3, <2>2
    <3> QED
      BY <1>1, <1>2, <1>3, <2>2, <3>1
  <2> QED
    BY <1>1, <1>3, <2>1, <2>2
<1>6. \A i \in DOMAIN s : i \in DOMAIN r /\ r[i] = s[i]
  BY <1>1, <1>2, <1>3
<1> QED
  BY <1>1, <1>2, <1>3, <1>4, <1>5, <1>6

------------------------------------------------------------------------------
(* The graph that is walked.                                               *)

Good(g) ==
  /\ g = [nodes |-> g.nodes, edges |-> g.edges]
  /\ g.edges \in Seq(Statements \cup CoMentions)
  /\ \A i, j \in DOMAIN g.edges : Identity(g.edges[i]) = Identity(g.edges[j]) => i = j
  /\ \A i \in DOMAIN g.edges : g.edges[i].src \in DOMAIN g.nodes /\ g.edges[i].dst \in DOMAIN g.nodes
  /\ \A n \in Surrogates : HasNode(g, n) => IsUnresolved(g, n)

LEMMA TrackedGood == Good(TrackedOnly)
<1>1. TrackedOnly = [nodes |-> [c \in Tracked |-> [name |-> c[2]]], edges |-> <<>>]
  BY DEF TrackedOnly, EmptyGraph
<1>2. <<>> \in Seq(Statements \cup CoMentions) /\ DOMAIN <<>> = {}
  OBVIOUS
<1>3. \A n \in Surrogates : ~HasNode(TrackedOnly, n)
  BY <1>1, WalkAssumption DEF HasNode
<1> QED
  BY <1>1, <1>2, <1>3 DEF Good

LEMMA EnsureGood ==
  ASSUME NEW g, Good(g), NEW n, NEW h, h = EnsureNode(g, n, PartyProps(n))
  PROVE  Good(h) /\ n \in DOMAIN h.nodes /\ DOMAIN g.nodes \subseteq DOMAIN h.nodes
<1>1. CASE HasNode(g, n)
  BY <1>1 DEF EnsureNode, HasNode
<1>2. CASE ~HasNode(g, n)
  <2>1. h = [nodes |-> [m \in DOMAIN g.nodes \cup {n} |-> IF m = n THEN PartyProps(n) ELSE g.nodes[m]],
             edges |-> g.edges]
    BY <1>2 DEF EnsureNode, UpsertNode, Good
  <2>2. ASSUME NEW m \in Surrogates, HasNode(h, m) PROVE IsUnresolved(h, m)
    <3>1. CASE m = n
      <4>1. h.nodes[m] = [name |-> n[2], ownership_status |-> "unresolved"]
        BY <2>1, <3>1 DEF PartyProps
      <4> QED
        BY <2>2, <4>1 DEF IsUnresolved, NodeProp, Prop
    <3>2. CASE m # n
      <4>1. HasNode(g, m) /\ h.nodes[m] = g.nodes[m]
        BY <2>1, <2>2, <3>2 DEF HasNode
      <4> QED
        BY <2>2, <4>1 DEF Good, IsUnresolved, NodeProp
    <3> QED
      BY <3>1, <3>2
  <2>3. h.edges = g.edges /\ DOMAIN h.nodes = DOMAIN g.nodes \cup {n} /\ h = [nodes |-> h.nodes, edges |-> h.edges]
    BY <2>1
  <2> QED
    BY <2>2, <2>3 DEF Good
<1> QED
  BY <1>1, <1>2

LEMMA UpsertGood ==
  ASSUME NEW g, Good(g), NEW e \in Statements \cup CoMentions,
         e.src \in DOMAIN g.nodes, e.dst \in DOMAIN g.nodes
  PROVE  Good(UpsertEdge(g, e))
<1> DEFINE E == Statements \cup CoMentions
           h == [nodes |-> g.nodes, edges |-> Append(g.edges, e)]
<1>1. CASE \E x \in EdgeSet(g) : Identity(x) = Identity(e)
  BY <1>1 DEF UpsertEdge
<1>2. CASE ~\E x \in EdgeSet(g) : Identity(x) = Identity(e)
  <2>1. UpsertEdge(g, e) = h
    BY <1>2 DEF UpsertEdge, Good
  <2>2. g.edges \in Seq(E) /\ DOMAIN g.edges = 1..Len(g.edges) /\ Len(g.edges) \in Nat
    BY LenProperties DEF Good
  <2>3. /\ h.edges \in Seq(E) /\ DOMAIN h.edges = 1..(Len(g.edges) + 1)
        /\ \A i \in 1..Len(g.edges) : h.edges[i] = g.edges[i]
        /\ h.edges[Len(g.edges) + 1] = e /\ h.nodes = g.nodes /\ h = [nodes |-> h.nodes, edges |-> h.edges]
    BY <2>2, AppendProperties, LenProperties
  <2>4. \A i \in DOMAIN g.edges : Identity(g.edges[i]) # Identity(e)
    BY <1>2 DEF EdgeSet, Range
  <2> HIDE DEF h
  <2>5. ASSUME NEW i \in DOMAIN h.edges
        PROVE  \/ i \in DOMAIN g.edges /\ h.edges[i] = g.edges[i]
               \/ i = Len(g.edges) + 1 /\ h.edges[i] = e
    BY <2>2, <2>3
  <2>6. \A i, j \in DOMAIN h.edges : Identity(h.edges[i]) = Identity(h.edges[j]) => i = j
    <3> SUFFICES ASSUME NEW i \in DOMAIN h.edges, NEW j \in DOMAIN h.edges,
                        Identity(h.edges[i]) = Identity(h.edges[j])
                 PROVE  i = j
      OBVIOUS
    <3> QED
      BY <2>4, <2>5 DEF Good
  <2>7. \A i \in DOMAIN h.edges : h.edges[i].src \in DOMAIN h.nodes /\ h.edges[i].dst \in DOMAIN h.nodes
    BY <2>3, <2>5 DEF Good
  <2>8. \A n \in Surrogates : HasNode(h, n) => IsUnresolved(h, n)
    BY <2>3 DEF Good, HasNode, IsUnresolved, NodeProp
  <2> QED
    BY <2>1, <2>3, <2>6, <2>7, <2>8 DEF Good
<1> QED
  BY <1>1, <1>2

LEMMA WriteEdgeGood ==
  ASSUME Good(graph), NEW e \in Statements \cup CoMentions, WriteEdge(e)
  PROVE  Good(graph')
<1> DEFINE g == EnsureNode(graph, e.src, PartyProps(e.src))
           h == EnsureNode(g, e.dst, PartyProps(e.dst))
<1>1. Good(g) /\ e.src \in DOMAIN g.nodes
  BY EnsureGood
<1>2. Good(h) /\ e.dst \in DOMAIN h.nodes /\ e.src \in DOMAIN h.nodes
  <2> HIDE DEF g
  <2> QED
    BY <1>1, EnsureGood
<1>3. graph' = UpsertEdge(h, e)
  BY DEF WriteEdge
<1> HIDE DEF h
<1> QED
  BY <1>2, <1>3, UpsertGood

------------------------------------------------------------------------------
(* The ties of a node.                                                     *)

\* The positions of the ties that the caller may see, on each side of a node.
Above(n) == Shown(graph, OwnerEdges(graph, n, ask.day), ask.clearance)
Below(n) == Shown(graph, OwnedEdges(graph, n, ask.day), ask.clearance)

TieHops == [from : DOMAIN graph.nodes, to : DOMAIN graph.nodes, way : {"up", "down"}, tie : ShownTies]

\* A hop over a tie goes from one of its ends to the other.
Over(hop, e) == {hop.from, hop.to} = {e.src, e.dst}

LEMMA EdgeFacts ==
  ASSUME Good(graph)
  PROVE  /\ graph.edges \in Seq(EdgeSet(graph))
         /\ DOMAIN graph.edges = 1..Len(graph.edges) /\ Len(graph.edges) \in Nat
         /\ \A i, j \in DOMAIN graph.edges : graph.edges[i] = graph.edges[j] => i = j
         /\ \A e \in EdgeSet(graph) : e.src \in DOMAIN graph.nodes /\ e.dst \in DOMAIN graph.nodes
         /\ \A e \in EdgeSet(graph) : \E i \in DOMAIN graph.edges : e = graph.edges[i]
<1>1. graph.edges \in Seq(Statements \cup CoMentions)
  BY DEF Good
<1>2. graph.edges \in Seq(EdgeSet(graph))
  BY <1>1, SeqOfRange DEF EdgeSet
<1>3. DOMAIN graph.edges = 1..Len(graph.edges) /\ Len(graph.edges) \in Nat
  BY <1>1, LenProperties
<1> QED
  BY <1>2, <1>3 DEF Good, EdgeSet, Range

LEMMA ShownFacts ==
  ASSUME Good(graph), NEW n
  PROVE  /\ Above(n) = {i \in DOMAIN graph.edges : graph.edges[i].dst = n /\ graph.edges[i] \in ShownTies}
         /\ Below(n) = {i \in DOMAIN graph.edges : graph.edges[i].src = n /\ graph.edges[i] \in ShownTies}
         /\ \A e \in ShownTies : \E i \in DOMAIN graph.edges : e = graph.edges[i]
         /\ \A e \in ShownTies : e.src \in DOMAIN graph.nodes /\ e.dst \in DOMAIN graph.nodes
<1>1. \A i \in DOMAIN graph.edges : graph.edges[i] \in EdgeSet(graph)
  BY DEF EdgeSet, Range
<1>2. \A i \in DOMAIN graph.edges :
        graph.edges[i] \in ShownTies <=> Tie(graph.edges[i], ask.day) /\ CanSee(graph.edges[i], ask.clearance)
  BY <1>1 DEF ShownTies, MayShow
<1>3. \A e \in ShownTies : e \in EdgeSet(graph)
  BY DEF ShownTies
<1>4. Above(n) = {i \in DOMAIN graph.edges : graph.edges[i].dst = n /\ graph.edges[i] \in ShownTies}
  BY <1>2 DEF Above, Shown, OwnerEdges
<1>5. Below(n) = {i \in DOMAIN graph.edges : graph.edges[i].src = n /\ graph.edges[i] \in ShownTies}
  BY <1>2 DEF Below, Shown, OwnedEdges
<1> QED
  BY <1>3, <1>4, <1>5, EdgeFacts

\* What a node's visible ties lead to, with the hop that shows it.
LEMMA AdjacentSound ==
  ASSUME Good(graph), NEW n \in DOMAIN graph.nodes,
         NEW hops, hops = Adjacent(graph, n, ask.clearance, ask.day)
  PROVE  /\ hops \in Seq(TieHops)
         /\ \A i \in DOMAIN hops : hops[i].from = n /\ Over(hops[i], hops[i].tie)
         /\ {hops[i].to : i \in DOMAIN hops} = TiedTo(n)
<1> DEFINE up == Those(graph.edges, Above(n))
           down == Those(graph.edges, Below(n))
           ups == [i \in DOMAIN up |-> [from |-> n, to |-> up[i].src, way |-> "up", tie |-> up[i]]]
           downs == [i \in DOMAIN down |-> [from |-> n, to |-> down[i].dst, way |-> "down", tie |-> down[i]]]
<1>1. hops = ups \o downs
  BY DEF Adjacent, Above, Below
<1>2. Above(n) \subseteq DOMAIN graph.edges /\ Below(n) \subseteq DOMAIN graph.edges
  BY ShownFacts
<1>3. /\ DOMAIN up = 1..Cardinality(Above(n)) /\ Cardinality(Above(n)) \in Nat
      /\ \A k \in DOMAIN up : InOrder(Above(n))[k] \in Above(n) /\ up[k] = graph.edges[InOrder(Above(n))[k]]
      /\ \A i \in Above(n) : \E k \in DOMAIN up : InOrder(Above(n))[k] = i
  BY <1>2, EdgeFacts, ThoseSound
<1>4. /\ DOMAIN down = 1..Cardinality(Below(n)) /\ Cardinality(Below(n)) \in Nat
      /\ \A k \in DOMAIN down : InOrder(Below(n))[k] \in Below(n) /\ down[k] = graph.edges[InOrder(Below(n))[k]]
      /\ \A i \in Below(n) : \E k \in DOMAIN down : InOrder(Below(n))[k] = i
  BY <1>2, EdgeFacts, ThoseSound
<1> HIDE DEF up, down
<1>5. \A k \in DOMAIN up : up[k] \in ShownTies /\ up[k].dst = n /\ up[k].src \in DOMAIN graph.nodes
  BY <1>3, ShownFacts
<1>6. \A k \in DOMAIN down : down[k] \in ShownTies /\ down[k].src = n /\ down[k].dst \in DOMAIN graph.nodes
  BY <1>4, ShownFacts
<1>7. ups \in Seq(TieHops) /\ DOMAIN ups = DOMAIN up
  <2>1. \A k \in DOMAIN up : ups[k] \in TieHops
    BY <1>5 DEF TieHops
  <2> QED
    BY <1>3, <2>1
<1>8. downs \in Seq(TieHops) /\ DOMAIN downs = DOMAIN down
  <2>1. \A k \in DOMAIN down : downs[k] \in TieHops
    BY <1>6 DEF TieHops
  <2> QED
    BY <1>4, <2>1
<1>9. \A k \in DOMAIN up : ups[k].from = n /\ ups[k].to = up[k].src /\ ups[k].tie = up[k] /\ Over(ups[k], ups[k].tie)
  BY <1>5 DEF Over
<1>10. \A k \in DOMAIN down :
         downs[k].from = n /\ downs[k].to = down[k].dst /\ downs[k].tie = down[k] /\ Over(downs[k], downs[k].tie)
  BY <1>6 DEF Over
<1> HIDE DEF ups, downs
<1>11. /\ hops \in Seq(TieHops)
       /\ \A k \in DOMAIN hops : \/ k \in DOMAIN ups /\ hops[k] = ups[k]
                                 \/ k - Len(ups) \in DOMAIN downs /\ hops[k] = downs[k - Len(ups)]
       /\ \A i \in DOMAIN ups : i \in DOMAIN hops /\ hops[i] = ups[i]
       /\ \A i \in DOMAIN downs : Len(ups) + i \in DOMAIN hops /\ hops[Len(ups) + i] = downs[i]
  BY <1>1, <1>7, <1>8, ConcatPlaces
<1>12. ASSUME NEW k \in DOMAIN hops PROVE hops[k].from = n /\ Over(hops[k], hops[k].tie) /\ hops[k].to \in TiedTo(n)
  BY <1>5, <1>6, <1>7, <1>8, <1>9, <1>10, <1>11 DEF TiedTo
<1>13. ASSUME NEW m \in TiedTo(n) PROVE \E k \in DOMAIN hops : hops[k].to = m
  <2>1. CASE \E e \in ShownTies : e.dst = n /\ e.src = m
    <3>1. PICK i \in Above(n) : graph.edges[i].src = m
      BY <2>1, ShownFacts
    <3>2. PICK k \in DOMAIN up : up[k].src = m
      BY <1>3, <3>1
    <3> QED
      BY <1>7, <1>9, <1>11, <3>2
  <2>2. CASE \E e \in ShownTies : e.src = n /\ e.dst = m
    <3>1. PICK i \in Below(n) : graph.edges[i].dst = m
      BY <2>2, ShownFacts
    <3>2. PICK k \in DOMAIN down : down[k].dst = m
      BY <1>4, <3>1
    <3> QED
      BY <1>8, <1>10, <1>11, <3>2
  <2> QED
    BY <2>1, <2>2 DEF TiedTo
<1> QED
  BY <1>11, <1>12, <1>13

------------------------------------------------------------------------------
(* The ties that are withheld.                                             *)

\* The ties the caller may not see, at each end that is in X.
HiddenAt(X) ==
  {t \in (DOMAIN graph.edges) \X X \X {"up", "down"} :
     LET e == graph.edges[t[1]]
     IN  /\ Tie(e, ask.day) /\ ~CanSee(e, ask.clearance)
         /\ t[2] = IF t[3] = "up" THEN e.dst ELSE e.src}

HiddenSide(ties, n, way) ==
  {<<i, n, way>> : i \in {j \in ties : ~CanSee(graph.edges[j], ask.clearance)}}

LEMMA HiddenCounted ==
  ASSUME Good(graph), NEW ties, ties \subseteq DOMAIN graph.edges, NEW n, NEW way,
         NEW H, H = HiddenSide(ties, n, way)
  PROVE  IsFiniteSet(H) /\ Cardinality(H) = Hidden(graph, ties, ask.clearance) /\ Cardinality(H) \in Nat
<1> DEFINE shown == Shown(graph, ties, ask.clearance)
           rest == {j \in ties : ~CanSee(graph.edges[j], ask.clearance)}
           f == [i \in rest |-> <<i, n, way>>]
<1>1. IsFiniteSet(ties)
  <2>1. DOMAIN graph.edges = 1..Len(graph.edges) /\ Len(graph.edges) \in Int /\ 1 \in Int
    BY EdgeFacts
  <2>2. IsFiniteSet(1..Len(graph.edges)) /\ ties \in SUBSET (1..Len(graph.edges))
    BY <2>1, FS_Interval
  <2> QED
    BY <2>2, FS_Subset
<1>2. rest = ties \ shown /\ ties \cap shown = shown
  BY DEF Shown
<1>3. IsFiniteSet(rest) /\ Cardinality(rest) = Cardinality(ties) - Cardinality(shown)
  <2> HIDE DEF rest, shown
  <2>1. IsFiniteSet(ties \ shown) /\ Cardinality(ties \ shown) = Cardinality(ties) - Cardinality(ties \cap shown)
    BY <1>1, FS_Difference
  <2> QED
    BY <1>2, <2>1
<1>4. f \in Bijection(rest, H)
  <2>1. f \in [rest -> H] /\ \A h \in H : \E i \in rest : f[i] = h
    BY DEF HiddenSide
  <2>2. \A i, j \in rest : f[i] = f[j] => i = j
    OBVIOUS
  <2> QED
    BY <2>1, <2>2 DEF Bijection, Injection, Surjection, IsInjective
<1>5. IsFiniteSet(H) /\ Cardinality(H) = Cardinality(rest)
  <2> HIDE DEF f, rest
  <2> QED
    BY <1>3, <1>4, FS_Bijection DEF ExistsBijection
<1> QED
  BY <1>3, <1>5, FS_CardinalityType DEF Hidden

LEMMA HiddenAtNode ==
  ASSUME Good(graph), NEW n
  PROVE  /\ IsFiniteSet(HiddenAt({n})) /\ Cardinality(HiddenAt({n})) \in Nat
         /\ Cardinality(HiddenAt({n})) = AdjacentHidden(graph, n, ask.clearance, ask.day)
<1> DEFINE above == OwnerEdges(graph, n, ask.day)
           below == OwnedEdges(graph, n, ask.day)
           up == HiddenSide(above, n, "up")
           down == HiddenSide(below, n, "down")
<1>1. above \subseteq DOMAIN graph.edges /\ below \subseteq DOMAIN graph.edges
  BY DEF OwnerEdges, OwnedEdges
<1>2. HiddenAt({n}) = up \cup down
  <2>1. ASSUME NEW t \in HiddenAt({n}) PROVE t \in up \cup down
    BY DEF HiddenAt, HiddenSide, OwnerEdges, OwnedEdges
  <2>2. ASSUME NEW i \in above, ~CanSee(graph.edges[i], ask.clearance) PROVE <<i, n, "up">> \in HiddenAt({n})
    BY <2>2 DEF HiddenAt, OwnerEdges
  <2>3. ASSUME NEW i \in below, ~CanSee(graph.edges[i], ask.clearance) PROVE <<i, n, "down">> \in HiddenAt({n})
    BY <2>3 DEF HiddenAt, OwnedEdges
  <2> QED
    BY <2>1, <2>2, <2>3 DEF HiddenSide
<1>3. up \cap down = {}
  BY DEF HiddenSide
<1>4. IsFiniteSet(up) /\ Cardinality(up) = Hidden(graph, above, ask.clearance) /\ Cardinality(up) \in Nat
  <2> HIDE DEF above
  <2>1. above \subseteq DOMAIN graph.edges
    BY <1>1
  <2> QED
    BY <2>1, HiddenCounted
<1>5. IsFiniteSet(down) /\ Cardinality(down) = Hidden(graph, below, ask.clearance) /\ Cardinality(down) \in Nat
  <2> HIDE DEF below
  <2>1. below \subseteq DOMAIN graph.edges
    BY <1>1
  <2> QED
    BY <2>1, HiddenCounted
<1>6. AdjacentHidden(graph, n, ask.clearance, ask.day) = Cardinality(up) + Cardinality(down)
  BY <1>4, <1>5 DEF AdjacentHidden
<1> HIDE DEF up, down
<1>7. /\ IsFiniteSet(up \cup down)
      /\ Cardinality(up \cup down) = Cardinality(up) + Cardinality(down) - Cardinality({})
  BY <1>3, <1>4, <1>5, FS_Union
<1>8. Cardinality({}) = 0
  BY FS_EmptySet
<1>9. Cardinality(up \cup down) = Cardinality(up) + Cardinality(down) /\ Cardinality(up) + Cardinality(down) \in Nat
  BY <1>4, <1>5, <1>7, <1>8
<1> QED
  BY <1>2, <1>6, <1>7, <1>9

LEMMA HiddenAtNone == IsFiniteSet(HiddenAt({})) /\ Cardinality(HiddenAt({})) = 0
<1>1. HiddenAt({}) = {}
  BY DEF HiddenAt
<1> QED
  BY <1>1, FS_EmptySet

LEMMA HiddenAtMore ==
  ASSUME Good(graph), NEW X, IsFiniteSet(HiddenAt(X)), NEW n, n \notin X
  PROVE  /\ IsFiniteSet(HiddenAt(X \cup {n}))
         /\ Cardinality(HiddenAt(X \cup {n})) =
              Cardinality(HiddenAt(X)) + AdjacentHidden(graph, n, ask.clearance, ask.day)
<1>1. HiddenAt(X \cup {n}) = HiddenAt(X) \cup HiddenAt({n})
  BY DEF HiddenAt
<1>2. HiddenAt(X) \cap HiddenAt({n}) = {}
  BY DEF HiddenAt
<1>3. /\ IsFiniteSet(HiddenAt({n})) /\ Cardinality(HiddenAt({n})) \in Nat
      /\ Cardinality(HiddenAt({n})) = AdjacentHidden(graph, n, ask.clearance, ask.day)
  BY HiddenAtNode
<1>4. /\ IsFiniteSet(HiddenAt(X) \cup HiddenAt({n}))
      /\ Cardinality(HiddenAt(X) \cup HiddenAt({n})) =
           Cardinality(HiddenAt(X)) + Cardinality(HiddenAt({n})) - Cardinality(HiddenAt(X) \cap HiddenAt({n}))
  BY <1>3, FS_Union
<1>5. Cardinality(HiddenAt(X) \cap HiddenAt({n})) = 0
  BY <1>2, FS_EmptySet
<1>6. Cardinality(HiddenAt(X)) \in Nat
  BY FS_CardinalityType
<1>7. Cardinality(HiddenAt(X) \cup HiddenAt({n})) = Cardinality(HiddenAt(X)) + Cardinality(HiddenAt({n}))
  BY <1>3, <1>4, <1>5, <1>6
<1> QED
  BY <1>1, <1>3, <1>4, <1>7

------------------------------------------------------------------------------
(* Group contagion.                                                        *)

TieNext == [n \in DOMAIN graph.nodes |-> TiedTo(n)]

Items == [at : DOMAIN graph.nodes, path : Seq(TieHops)]
Members == {[company |-> x.at, path |-> x.path, link |-> Link(x.path)] : x \in Items}

\* The path leads from the seed to n, over the ties it shows.
TiedPath(path, n) ==
  /\ path = <<>> => n = ask.seed
  /\ path # <<>> => Joined(path, n)
  /\ \A i \in DOMAIN path : Over(path[i], path[i].tie)

ContagionWalk ==
  /\ frontier \in Seq(Items) /\ Breadth(TieNext, ask.seed, MaxHops, frontier, seen)
  /\ \A i \in DOMAIN frontier : TiedPath(frontier[i].path, frontier[i].at)

\* Each company that was met is found, once and where it is.
MemberSound(m) ==
  /\ m.company \in seen \ {ask.seed} /\ m.company[1] = "Company"
  /\ TiedPath(m.path, m.company)
  /\ Len(m.path) \in 1..MaxHops /\ Away(TieNext, ask.seed, m.company, Len(m.path))

ContagionFound ==
  /\ found \in Seq(Members) /\ \A i \in DOMAIN found : MemberSound(found[i])
  /\ \A i, j \in DOMAIN found : found[i].company = found[j].company => i = j
  /\ \A n \in seen \ {ask.seed} : n[1] = "Company" => \E i \in DOMAIN found : found[i].company = n

\* The nodes whose ties the walk has looked at.
LookedAt ==
  {n \in seen : /\ n \in Within(TieNext, ask.seed, MaxHops - 1)
                /\ \A i \in DOMAIN frontier : frontier[i].at # n}

ContagionCount == IsFiniteSet(HiddenAt(LookedAt)) /\ withheld = Cardinality(HiddenAt(LookedAt))

ContagionInv ==
  /\ Asking("contagion")
  /\ IF HasNode(graph, ask.seed) THEN ContagionWalk /\ ContagionFound /\ ContagionCount
                                 ELSE frontier = <<>>

LEMMA SameTies ==
  ASSUME UNCHANGED <<graph, ask>>
  PROVE  /\ ShownTies' = ShownTies /\ TieHops' = TieHops /\ TieNext' = TieNext
         /\ Items' = Items /\ Members' = Members
         /\ \A path, n : TiedPath(path, n)' <=> TiedPath(path, n)
         /\ \A X : HiddenAt(X)' = HiddenAt(X)
<1>1. ShownTies' = ShownTies
  BY DEF ShownTies, MayShow, EdgeSet
<1>2. TieHops' = TieHops
  BY <1>1 DEF TieHops
<1>3. \A n : TiedTo(n)' = TiedTo(n)
  BY <1>1 DEF TiedTo
<1>4. TieNext' = TieNext
  BY <1>3 DEF TieNext
<1>5. Items' = Items
  BY <1>2 DEF Items
<1>6. Members' = Members
  BY <1>5 DEF Members
<1>7. \A path, n : TiedPath(path, n)' <=> TiedPath(path, n)
  BY DEF TiedPath, Joined
<1>8. \A X : HiddenAt(X)' = HiddenAt(X)
  BY DEF HiddenAt
<1> QED
  BY <1>1, <1>2, <1>4, <1>5, <1>6, <1>7, <1>8

LEMMA TieNextSound ==
  ASSUME Good(graph), HasNode(graph, ask.seed)
  PROVE  Hops(TieNext, DOMAIN graph.nodes, ask.seed)
<1>1. \A n : TiedTo(n) \subseteq DOMAIN graph.nodes
  BY ShownFacts DEF TiedTo
<1> QED
  BY <1>1 DEF Hops, TieNext, HasNode

LEMMA TiedFurther ==
  ASSUME NEW path \in Seq(TieHops), NEW hop \in TieHops, TiedPath(path, hop.from), Over(hop, hop.tie)
  PROVE  TiedPath(Append(path, hop), hop.to)
<1> DEFINE more == Append(path, hop)
<1>1. /\ more \in Seq(TieHops) /\ Len(more) = Len(path) + 1 /\ Len(path) \in Nat
      /\ \A i \in 1..Len(path) : more[i] = path[i]
      /\ more[Len(path) + 1] = hop
  BY AppendProperties, LenProperties
<1>2. Joined(more, hop.to)
  BY JoinedFurther DEF TiedPath
<1> HIDE DEF more
<1>3. more # <<>> /\ DOMAIN more = 1..(Len(path) + 1) /\ DOMAIN path = 1..Len(path)
  BY <1>1, LenProperties
<1>4. \A i \in DOMAIN more : Over(more[i], more[i].tie)
  BY <1>1, <1>3 DEF TiedPath
<1>5. TiedPath(more, hop.to)
  BY <1>2, <1>3, <1>4 DEF TiedPath
<1> QED
  BY <1>5 DEF more

\* The first of the queue is as far as contagion goes.
LEMMA ContagionCut ==
  ASSUME Good(graph), HasNode(graph, ask.seed), ContagionWalk, ContagionFound, ContagionCount,
         frontier # <<>>, Len(Head(frontier).path) >= MaxHops,
         frontier' = Tail(frontier), UNCHANGED <<graph, ask, seen, found, withheld>>
  PROVE  (ContagionWalk /\ ContagionFound /\ ContagionCount)'
<1>1. Hops(TieNext, DOMAIN graph.nodes, ask.seed) /\ MaxHops \in Nat \ {0}
  BY TieNextSound, WalkAssumption
<1>2. frontier \in Seq(Items) /\ Breadth(TieNext, ask.seed, MaxHops, frontier, seen)
  BY DEF ContagionWalk
<1>3. /\ Len(frontier) \in Nat \ {0} /\ DOMAIN frontier = 1..Len(frontier) /\ Head(frontier) = frontier[1]
      /\ frontier' \in Seq(Items) /\ DOMAIN frontier' = 1..(Len(frontier) - 1)
      /\ \A i \in DOMAIN frontier' : i + 1 \in DOMAIN frontier /\ frontier'[i] = frontier[i + 1]
  BY <1>2, HeadTailProperties, LenProperties, EmptySeq
<1>4. Breadth(TieNext, ask.seed, MaxHops, frontier', seen)
  BY <1>1, <1>2, <1>3, BreadthCut
<1>5. ContagionWalk'
  BY <1>3, <1>4, SameTies DEF ContagionWalk
<1>6. ContagionFound'
  BY SameTies DEF ContagionFound, MemberSound
<1>7. LookedAt' = LookedAt
  <2>1. frontier[1].at \notin Within(TieNext, ask.seed, MaxHops - 1)
    <3>1. 1 \in DOMAIN frontier /\ Len(frontier[1].path) \in 0..MaxHops
          /\ Away(TieNext, ask.seed, frontier[1].at, Len(frontier[1].path))
      BY <1>2, <1>3 DEF Breadth
    <3>2. Len(frontier[1].path) = MaxHops /\ MaxHops - 1 \in 0..(MaxHops - 1)
      BY <1>1, <1>3, <3>1
    <3> QED
      BY <3>1, <3>2 DEF Away
  <2>2. ASSUME NEW n, n # frontier[1].at
        PROVE  (\E i \in DOMAIN frontier : frontier[i].at = n) <=> (\E i \in DOMAIN frontier' : frontier'[i].at = n)
    <3>1. ASSUME NEW i \in DOMAIN frontier, frontier[i].at = n PROVE \E j \in DOMAIN frontier' : frontier'[j].at = n
      <4>0. i # 1 /\ i \in 1..Len(frontier) /\ Len(frontier) \in Nat
        BY <1>3, <2>2, <3>1
      <4>1. i - 1 \in DOMAIN frontier' /\ i - 1 + 1 = i
        BY <1>3, <4>0
      <4>2. frontier'[i - 1] = frontier[i]
        BY <1>3, <4>1
      <4> QED
        BY <3>1, <4>1, <4>2
    <3> QED
      BY <1>3, <3>1
  <2> QED
    BY <2>1, <2>2, SameTies DEF LookedAt
<1>8. ContagionCount'
  BY <1>7, SameTies DEF ContagionCount
<1> QED
  BY <1>5, <1>6, <1>8

\* The hops from a node that goes on, and the items they make.
NewTies(at, met) == Fresh(Adjacent(graph, at, ask.clearance, ask.day), met)
Onward(item, hops) == [i \in DOMAIN hops |-> [at |-> hops[i].to, path |-> Append(item.path, hops[i])]]
CompaniesOf(next) == Those(next, {i \in DOMAIN next : next[i].at[1] = "Company"})
Listing(items) ==
  [i \in DOMAIN items |-> [company |-> items[i].at, path |-> items[i].path, link |-> Link(items[i].path)]]

LEMMA NewTiesSound ==
  ASSUME Good(graph), NEW at \in DOMAIN graph.nodes, NEW met
  PROVE  /\ NewTies(at, met) \in Seq(TieHops)
         /\ \A k \in DOMAIN NewTies(at, met) :
              LET hop == NewTies(at, met)[k] IN hop.from = at /\ Over(hop, hop.tie)
         /\ {NewTies(at, met)[k].to : k \in DOMAIN NewTies(at, met)} = TieNext[at] \ met
         /\ \A k, l \in DOMAIN NewTies(at, met) : NewTies(at, met)[k].to = NewTies(at, met)[l].to => k = l
<1> DEFINE all == Adjacent(graph, at, ask.clearance, ask.day)
           hops == NewTies(at, met)
<1>1. /\ all \in Seq(TieHops)
      /\ \A i \in DOMAIN all : all[i].from = at /\ Over(all[i], all[i].tie)
      /\ {all[i].to : i \in DOMAIN all} = TiedTo(at)
  BY AdjacentSound
<1>2. TieNext[at] = TiedTo(at)
  BY DEF TieNext
<1>3. hops = Fresh(all, met)
  BY DEF NewTies
<1> HIDE DEF all, hops
<1>4. /\ hops \in Seq(TieHops) /\ \A k \in DOMAIN hops : \E i \in DOMAIN all : hops[k] = all[i]
      /\ {hops[k].to : k \in DOMAIN hops} = {all[i].to : i \in DOMAIN all} \ met
      /\ \A k, l \in DOMAIN hops : hops[k].to = hops[l].to => k = l
  BY <1>1, <1>3, FreshSound
<1>5. \A k \in DOMAIN hops : hops[k].from = at /\ Over(hops[k], hops[k].tie)
  BY <1>1, <1>4
<1> QED
  BY <1>1, <1>2, <1>4, <1>5 DEF hops

\* next is what the walk adds for an item when it has met the nodes of met.
GrownFrom(item, met, next) ==
  /\ next \in Seq(Items)
  /\ \A k \in DOMAIN next : Len(next[k].path) = Len(item.path) + 1 /\ TiedPath(next[k].path, next[k].at)
  /\ {next[k].at : k \in DOMAIN next} = TieNext[item.at] \ met
  /\ \A k, l \in DOMAIN next : next[k].at = next[l].at => k = l

LEMMA OnwardSound ==
  ASSUME Good(graph), NEW item \in Items, TiedPath(item.path, item.at), NEW met,
         NEW next, next = Onward(item, NewTies(item.at, met))
  PROVE  GrownFrom(item, met, next)
<1> DEFINE hops == NewTies(item.at, met)
<1>1. item.at \in DOMAIN graph.nodes /\ item.path \in Seq(TieHops)
  BY DEF Items
<1>2. /\ hops \in Seq(TieHops)
      /\ \A k \in DOMAIN hops : hops[k].from = item.at /\ Over(hops[k], hops[k].tie)
      /\ {hops[k].to : k \in DOMAIN hops} = TieNext[item.at] \ met
      /\ \A k, l \in DOMAIN hops : hops[k].to = hops[l].to => k = l
  BY <1>1, NewTiesSound
<1>3. next = [i \in DOMAIN hops |-> [at |-> hops[i].to, path |-> Append(item.path, hops[i])]]
  BY DEF Onward
<1> HIDE DEF hops
<1>4. DOMAIN next = DOMAIN hops /\ DOMAIN hops = 1..Len(hops) /\ Len(hops) \in Nat
  BY <1>2, <1>3, LenProperties
<1>5. ASSUME NEW k \in DOMAIN next
      PROVE  /\ next[k] \in Items /\ next[k].at = hops[k].to
             /\ Len(next[k].path) = Len(item.path) + 1 /\ TiedPath(next[k].path, next[k].at)
  <2> DEFINE hop == hops[k]
             more == Append(item.path, hop)
  <2>1. hop \in TieHops /\ hop.from = item.at /\ Over(hop, hop.tie)
    BY <1>2, <1>4
  <2>2. hop.to \in DOMAIN graph.nodes
    BY <2>1 DEF TieHops
  <2>3. next[k] = [at |-> hop.to, path |-> more]
    BY <1>3, <1>4
  <2> HIDE DEF hop
  <2>4. more \in Seq(TieHops) /\ Len(more) = Len(item.path) + 1
    BY <1>1, <2>1, AppendProperties
  <2>5. TiedPath(more, hop.to)
    BY <1>1, <2>1, TiedFurther
  <2> HIDE DEF more
  <2> QED
    BY <2>2, <2>3, <2>4, <2>5 DEF Items, hop
<1>6. next \in Seq(Items)
  <2>1. next = [i \in 1..Len(hops) |-> next[i]] /\ \A i \in 1..Len(hops) : next[i] \in Items
    BY <1>3, <1>4, <1>5
  <2> QED
    BY <1>4, <2>1
<1> QED
  BY <1>2, <1>4, <1>5, <1>6 DEF GrownFrom

LEMMA ListingSound ==
  ASSUME NEW next \in Seq(Items), \A i, j \in DOMAIN next : next[i].at = next[j].at => i = j,
         NEW new, new = Listing(CompaniesOf(next))
  PROVE  /\ new \in Seq(Members)
         /\ \A k \in DOMAIN new : \E i \in DOMAIN next :
              new[k].company = next[i].at /\ new[k].path = next[i].path /\ next[i].at[1] = "Company"
         /\ \A i \in DOMAIN next : next[i].at[1] = "Company" => \E k \in DOMAIN new : new[k].company = next[i].at
         /\ \A k, l \in DOMAIN new : new[k].company = new[l].company => k = l
<1> DEFINE I == {i \in DOMAIN next : next[i].at[1] = "Company"}
           items == CompaniesOf(next)
<1>1. I \subseteq DOMAIN next /\ items = Those(next, I)
  BY DEF CompaniesOf
<1>2. \A i \in DOMAIN next : i \in I <=> next[i].at[1] = "Company"
  OBVIOUS
<1> HIDE DEF I, items
<1>3. /\ items \in Seq(Items) /\ DOMAIN items = 1..Cardinality(I) /\ Cardinality(I) \in Nat
      /\ \A k \in DOMAIN items : InOrder(I)[k] \in I /\ items[k] = next[InOrder(I)[k]]
      /\ \A i \in I : \E k \in DOMAIN items : InOrder(I)[k] = i
      /\ \A k, l \in DOMAIN items : InOrder(I)[k] = InOrder(I)[l] => k = l
  BY <1>1, ThoseSound
<1>4. new = [i \in DOMAIN items |-> [company |-> items[i].at, path |-> items[i].path, link |-> Link(items[i].path)]]
  BY DEF Listing, items
<1>5. ASSUME NEW k \in DOMAIN items
      PROVE  new[k] \in Members /\ new[k].company = items[k].at /\ new[k].path = items[k].path
  <2>1. items[k] \in Items
    BY <1>3
  <2>2. new[k] = [company |-> items[k].at, path |-> items[k].path, link |-> Link(items[k].path)]
    BY <1>4
  <2> QED
    BY <2>1, <2>2 DEF Members
<1>6. DOMAIN new = DOMAIN items
  BY <1>4
<1>7. new \in Seq(Members)
  <2>1. new = [k \in 1..Cardinality(I) |-> new[k]]
    BY <1>3, <1>4
  <2>2. \A k \in 1..Cardinality(I) : new[k] \in Members
    BY <1>3, <1>5
  <2> QED
    BY <1>3, <2>1, <2>2
<1>8. ASSUME NEW k \in DOMAIN new
      PROVE  \E i \in DOMAIN next :
               new[k].company = next[i].at /\ new[k].path = next[i].path /\ next[i].at[1] = "Company"
  BY <1>1, <1>2, <1>3, <1>5, <1>6
<1>9. ASSUME NEW i \in DOMAIN next, next[i].at[1] = "Company" PROVE \E k \in DOMAIN new : new[k].company = next[i].at
  BY <1>2, <1>3, <1>5, <1>6, <1>9
<1>10. ASSUME NEW k \in DOMAIN new, NEW l \in DOMAIN new, new[k].company = new[l].company PROVE k = l
  <2>1. /\ InOrder(I)[k] \in DOMAIN next /\ InOrder(I)[l] \in DOMAIN next
        /\ next[InOrder(I)[k]].at = next[InOrder(I)[l]].at
    BY <1>1, <1>3, <1>5, <1>6, <1>10
  <2> QED
    BY <1>3, <1>6, <2>1
<1> QED
  BY <1>7, <1>8, <1>9, <1>10

LEMMA FirstItem ==
  ASSUME ContagionWalk, frontier # <<>>
  PROVE  /\ Head(frontier) = frontier[1] /\ 1 \in DOMAIN frontier
         /\ DOMAIN frontier = 1..Len(frontier) /\ Len(frontier) \in Nat \ {0}
         /\ Head(frontier) \in Items /\ Head(frontier).at \in seen
         /\ TiedPath(Head(frontier).path, Head(frontier).at) /\ Len(Head(frontier).path) \in Nat
         /\ Away(TieNext, ask.seed, Head(frontier).at, Len(Head(frontier).path))
<1>1. frontier \in Seq(Items)
  BY DEF ContagionWalk
<1>2. /\ Head(frontier) = frontier[1] /\ 1 \in DOMAIN frontier
      /\ DOMAIN frontier = 1..Len(frontier) /\ Len(frontier) \in Nat \ {0}
      /\ Head(frontier) \in Items
  BY <1>1, LenProperties, EmptySeq, HeadTailProperties
<1>3. \A i \in DOMAIN frontier : TiedPath(frontier[i].path, frontier[i].at)
  BY DEF ContagionWalk
<1>4. \A i \in DOMAIN frontier : /\ frontier[i].at \in seen /\ Len(frontier[i].path) \in Nat
                                 /\ Away(TieNext, ask.seed, frontier[i].at, Len(frontier[i].path))
  BY DEF ContagionWalk, Breadth
<1> QED
  BY <1>2, <1>3, <1>4

\* What the first of the queue is tied to and was not met goes to the end.
LEMMA QueueOnward ==
  ASSUME Good(graph), HasNode(graph, ask.seed), ContagionWalk, frontier # <<>>,
         NEW next \in Seq(Items), NEW met,
         {next[k].at : k \in DOMAIN next} = TieNext[Head(frontier).at] \ seen,
         \A k, l \in DOMAIN next : next[k].at = next[l].at => k = l,
         \A k \in DOMAIN next : Len(next[k].path) = Len(Head(frontier).path) + 1,
         Len(Head(frontier).path) < MaxHops, met = seen \cup TieNext[Head(frontier).at]
  PROVE  Breadth(TieNext, ask.seed, MaxHops, Tail(frontier) \o next, met)
<1>1. Hops(TieNext, DOMAIN graph.nodes, ask.seed) /\ MaxHops \in Nat
  BY TieNextSound, WalkAssumption
<1>2. /\ frontier \in Seq(Items) /\ Breadth(TieNext, ask.seed, MaxHops, frontier, seen)
  BY DEF ContagionWalk
<1>3. Head(frontier) = frontier[1]
  BY FirstItem
<1> QED
  BY <1>1, <1>2, <1>3, BreadthSpread

\* What the walk adds for the first of the queue.
Grown(next) == GrownFrom(Head(frontier), seen, next)

Spread(next) ==
  /\ frontier' = Tail(frontier) \o next /\ seen' = seen \cup TieNext[Head(frontier).at]
  /\ UNCHANGED <<graph, ask>>

GoesOn == frontier # <<>> /\ Len(Head(frontier).path) < MaxHops

LEMMA ContagionWalkOn ==
  ASSUME Good(graph), HasNode(graph, ask.seed), ContagionWalk, GoesOn, NEW next, Grown(next), Spread(next)
  PROVE  ContagionWalk'
<1>1. next \in Seq(Items) /\ frontier \in Seq(Items) /\ frontier # <<>>
  BY DEF Grown, GrownFrom, ContagionWalk, GoesOn
<1>2. frontier' = Tail(frontier) \o next
  BY DEF Spread
<1>3. Breadth(TieNext, ask.seed, MaxHops, Tail(frontier) \o next, seen')
  BY QueueOnward DEF Grown, GrownFrom, Spread, GoesOn
<1>4. /\ frontier' \in Seq(Items)
      /\ \A k \in DOMAIN frontier' :
           \/ k + 1 \in DOMAIN frontier /\ k + 1 # 1 /\ frontier'[k] = frontier[k + 1]
           \/ k - (Len(frontier) - 1) \in DOMAIN next /\ frontier'[k] = next[k - (Len(frontier) - 1)]
  BY <1>1, <1>2, QueuePlaces
<1>5. \A i \in DOMAIN frontier : TiedPath(frontier[i].path, frontier[i].at)
  BY DEF ContagionWalk
<1>6. \A k \in DOMAIN next : TiedPath(next[k].path, next[k].at)
  BY DEF Grown, GrownFrom
<1>7. \A k \in DOMAIN frontier' : TiedPath(frontier'[k].path, frontier'[k].at)
  BY <1>4, <1>5, <1>6
<1>8. UNCHANGED <<graph, ask>>
  BY DEF Spread
<1>9. Breadth(TieNext, ask.seed, MaxHops, frontier', seen')
  BY <1>2, <1>3
<1>10. TieNext' = TieNext /\ Items' = Items /\ ask' = ask
  BY <1>8, SameTies
<1>11. \A path, n : TiedPath(path, n)' <=> TiedPath(path, n)
  BY <1>8, SameTies
<1> QED
  BY <1>4, <1>7, <1>9, <1>10, <1>11 DEF ContagionWalk

\* A node that was not met is as far away as the hop that leads to it says.
LEMMA NewIsAway ==
  ASSUME Good(graph), HasNode(graph, ask.seed), ContagionWalk, ContagionWalk', GoesOn,
         NEW next, Grown(next), Spread(next), NEW k \in DOMAIN next
  PROVE  /\ next[k].at \in seen' \ seen /\ Len(next[k].path) \in 1..MaxHops
         /\ Away(TieNext, ask.seed, next[k].at, Len(next[k].path))
<1>1. next \in Seq(Items) /\ frontier \in Seq(Items) /\ frontier # <<>>
  BY DEF Grown, GrownFrom, ContagionWalk, GoesOn
<1>2. frontier' = Tail(frontier) \o next /\ UNCHANGED <<graph, ask>>
  BY DEF Spread
<1>3. Len(frontier) - 1 + k \in DOMAIN frontier' /\ frontier'[Len(frontier) - 1 + k] = next[k]
  BY <1>1, <1>2, QueuePlaces
<1>4. Breadth(TieNext, ask.seed, MaxHops, frontier', seen')
  <2>1. TieNext' = TieNext /\ ask' = ask
    BY <1>2, SameTies
  <2> QED
    BY <2>1 DEF ContagionWalk
<1>5. Away(TieNext, ask.seed, next[k].at, Len(next[k].path))
  BY <1>3, <1>4 DEF Breadth
<1>6. Len(next[k].path) = Len(Head(frontier).path) + 1 /\ Len(Head(frontier).path) \in Nat /\ MaxHops \in Nat
  BY <1>1, FirstItem, WalkAssumption DEF Grown, GrownFrom
<1>7. Len(next[k].path) \in 1..MaxHops
  BY <1>6 DEF GoesOn
<1>8. next[k].at \in TieNext[Head(frontier).at] \ seen
  BY DEF Grown, GrownFrom
<1> QED
  BY <1>5, <1>7, <1>8 DEF Spread

LEMMA ContagionFoundOn ==
  ASSUME Good(graph), HasNode(graph, ask.seed), ContagionWalk, ContagionWalk', ContagionFound, GoesOn,
         NEW next, Grown(next), Spread(next), found' = found \o Listing(CompaniesOf(next))
  PROVE  ContagionFound'
<1> DEFINE new == Listing(CompaniesOf(next))
<1>1. next \in Seq(Items) /\ \A i, j \in DOMAIN next : next[i].at = next[j].at => i = j
  BY DEF Grown, GrownFrom
<1>2. /\ new \in Seq(Members)
      /\ \A k \in DOMAIN new : \E i \in DOMAIN next :
           new[k].company = next[i].at /\ new[k].path = next[i].path /\ next[i].at[1] = "Company"
      /\ \A i \in DOMAIN next : next[i].at[1] = "Company" => \E k \in DOMAIN new : new[k].company = next[i].at
      /\ \A k, l \in DOMAIN new : new[k].company = new[l].company => k = l
  BY <1>1, ListingSound
<1>3. found' = found \o new
  OBVIOUS
<1> HIDE DEF new
<1>4. found \in Seq(Members)
  BY DEF ContagionFound
<1>5. /\ found' \in Seq(Members)
      /\ \A k \in DOMAIN found' :
           \/ k \in DOMAIN found /\ found'[k] = found[k]
           \/ k > Len(found) /\ k - Len(found) \in DOMAIN new /\ found'[k] = new[k - Len(found)]
      /\ \A i \in DOMAIN found : i \in DOMAIN found' /\ found'[i] = found[i]
      /\ \A i \in DOMAIN new : Len(found) + i \in DOMAIN found' /\ found'[Len(found) + i] = new[i]
      /\ Len(found) \in Nat /\ DOMAIN found = 1..Len(found) /\ DOMAIN found' \subseteq Nat
  BY <1>2, <1>3, <1>4, ConcatPlaces
<1>6. ask.seed \in seen
  BY DEF ContagionWalk, Breadth
<1>7. \A k \in DOMAIN next : /\ next[k].at \in seen' \ seen /\ Len(next[k].path) \in 1..MaxHops
                             /\ Away(TieNext, ask.seed, next[k].at, Len(next[k].path))
                             /\ TiedPath(next[k].path, next[k].at)
  BY NewIsAway DEF Grown, GrownFrom
<1>8. ASSUME NEW k \in DOMAIN new
      PROVE  /\ new[k].company \in seen' \ seen /\ new[k].company[1] = "Company"
             /\ Len(new[k].path) \in 1..MaxHops
             /\ Away(TieNext, ask.seed, new[k].company, Len(new[k].path))
             /\ TiedPath(new[k].path, new[k].company)
  BY <1>2, <1>7
<1>9. \A i \in DOMAIN found : MemberSound(found[i])
  BY DEF ContagionFound
<1>10. /\ TieNext' = TieNext /\ Members' = Members /\ ask' = ask
       /\ \A path, n : TiedPath(path, n)' <=> TiedPath(path, n)
  BY SameTies DEF Spread
<1>11. seen \subseteq seen' /\ seen' = seen \cup {next[k].at : k \in DOMAIN next}
  BY DEF Spread, Grown, GrownFrom
<1>12. ASSUME NEW k \in DOMAIN found' PROVE MemberSound(found[k])'
  <2>1. CASE k \in DOMAIN found /\ found'[k] = found[k]
    <3>1. MemberSound(found[k])
      BY <1>9, <2>1
    <3> QED
      BY <2>1, <3>1, <1>10, <1>11 DEF MemberSound
  <2>2. CASE k > Len(found) /\ k - Len(found) \in DOMAIN new /\ found'[k] = new[k - Len(found)]
    BY <1>6, <1>8, <1>10, <2>2 DEF MemberSound
  <2> QED
    BY <1>5, <2>1, <2>2
<1>13. ASSUME NEW i \in DOMAIN found', NEW j \in DOMAIN found', found'[i].company = found'[j].company PROVE i = j
  <2>1. \A k \in DOMAIN found : found[k].company \in seen
    BY <1>9 DEF MemberSound
  <2>2. \A k \in DOMAIN new : new[k].company \notin seen
    BY <1>8
  <2>3. \A k, l \in DOMAIN found : found[k].company = found[l].company => k = l
    BY DEF ContagionFound
  <2>4. CASE i \in DOMAIN found
    BY <1>5, <1>13, <2>1, <2>2, <2>3, <2>4
  <2>5. CASE i \notin DOMAIN found
    <3>1. i - Len(found) \in DOMAIN new /\ found'[i] = new[i - Len(found)]
      BY <1>5, <2>5
    <3>2. j - Len(found) \in DOMAIN new /\ found'[j] = new[j - Len(found)]
      BY <1>5, <1>13, <2>1, <2>2, <3>1
    <3>3. i - Len(found) = j - Len(found)
      BY <1>2, <1>13, <3>1, <3>2
    <3> QED
      BY <1>5, <3>3
  <2> QED
    BY <2>4, <2>5
<1>14. ASSUME NEW n \in seen' \ {ask.seed}, n[1] = "Company" PROVE \E i \in DOMAIN found' : found'[i].company = n
  <2>1. CASE n \in seen
    <3>1. PICK i \in DOMAIN found : found[i].company = n
      BY <1>14, <2>1 DEF ContagionFound
    <3> QED
      BY <1>5, <3>1
  <2>2. CASE n \notin seen
    <3>1. PICK k \in DOMAIN next : n = next[k].at
      BY <1>11, <2>2
    <3>2. PICK i \in DOMAIN new : new[i].company = n
      BY <1>2, <1>14, <3>1
    <3> QED
      BY <1>5, <3>2
  <2> QED
    BY <2>1, <2>2
<1> QED
  BY <1>5, <1>10, <1>12, <1>13, <1>14 DEF ContagionFound

\* The first of the queue is the node whose hidden ties are counted now.
LEMMA ContagionCountOn ==
  ASSUME Good(graph), HasNode(graph, ask.seed), ContagionWalk, ContagionWalk', ContagionCount, GoesOn,
         NEW next, Grown(next), Spread(next),
         withheld' = withheld + AdjacentHidden(graph, Head(frontier).at, ask.clearance, ask.day)
  PROVE  ContagionCount'
<1> DEFINE at == Head(frontier).at
<1>1. next \in Seq(Items) /\ frontier \in Seq(Items) /\ frontier # <<>>
  BY DEF Grown, GrownFrom, ContagionWalk, GoesOn
<1>2. frontier' = Tail(frontier) \o next /\ UNCHANGED <<graph, ask>>
  BY DEF Spread
<1>3. /\ \A k \in DOMAIN frontier' :
           \/ k + 1 \in DOMAIN frontier /\ k + 1 # 1 /\ frontier'[k] = frontier[k + 1]
           \/ k - (Len(frontier) - 1) \in DOMAIN next /\ frontier'[k] = next[k - (Len(frontier) - 1)]
      /\ \A i \in DOMAIN frontier : i # 1 => i - 1 \in DOMAIN frontier' /\ frontier'[i - 1] = frontier[i]
      /\ \A i \in DOMAIN next : Len(frontier) - 1 + i \in DOMAIN frontier'
                                /\ frontier'[Len(frontier) - 1 + i] = next[i]
  BY <1>1, <1>2, QueuePlaces
<1>4. /\ at = frontier[1].at /\ 1 \in DOMAIN frontier /\ at \in seen
      /\ Away(TieNext, ask.seed, at, Len(Head(frontier).path)) /\ Len(Head(frontier).path) \in Nat
  BY <1>1, FirstItem
<1>5. seen' = seen \cup {next[k].at : k \in DOMAIN next} /\ \A k \in DOMAIN next : next[k].at \notin seen
  BY DEF Spread, Grown, GrownFrom
<1>6. \A i, j \in DOMAIN frontier : frontier[i].at = frontier[j].at => i = j
  BY DEF ContagionWalk, Breadth
<1>7. at \in Within(TieNext, ask.seed, MaxHops - 1)
  <2>1. MaxHops - 1 \in Nat /\ Len(Head(frontier).path) <= MaxHops - 1
    BY <1>4, WalkAssumption DEF GoesOn
  <2>2. at \in Within(TieNext, ask.seed, Len(Head(frontier).path))
    BY <1>4 DEF Away
  <2> QED
    BY <1>4, <2>1, <2>2, MoreHops
<1>8. TieNext' = TieNext /\ ask' = ask /\ \A X : HiddenAt(X)' = HiddenAt(X)
  BY <1>2, SameTies
<1> HIDE DEF at
<1>9. at \notin LookedAt
  BY <1>4 DEF LookedAt
<1>10. ASSUME NEW n, n \in seen
       PROVE  (\A i \in DOMAIN frontier' : frontier'[i].at # n)
                <=> (n = at \/ \A i \in DOMAIN frontier : frontier[i].at # n)
  <2>1. ASSUME NEW i \in DOMAIN frontier', frontier'[i].at = n
        PROVE  n # at /\ \E j \in DOMAIN frontier : frontier[j].at = n
    BY <1>3, <1>4, <1>5, <1>6, <1>10, <2>1
  <2>2. ASSUME NEW j \in DOMAIN frontier, frontier[j].at = n, n # at
        PROVE  \E i \in DOMAIN frontier' : frontier'[i].at = n
    BY <1>3, <1>4, <2>2
  <2> QED
    BY <2>1, <2>2
<1>11. \A n \in seen' \ seen : \E i \in DOMAIN frontier' : frontier'[i].at = n
  BY <1>3, <1>5
<1>12. LookedAt' = LookedAt \cup {at}
  <2>1. ASSUME NEW n \in LookedAt' PROVE n \in LookedAt \cup {at}
    BY <2>1, <1>8, <1>10, <1>11 DEF LookedAt
  <2>2. ASSUME NEW n \in LookedAt \cup {at} PROVE n \in LookedAt'
    <3>1. n \in seen /\ n \in seen' /\ n \in Within(TieNext, ask.seed, MaxHops - 1)
      BY <1>4, <1>5, <1>7 DEF LookedAt
    <3>2. n = at \/ \A i \in DOMAIN frontier : frontier[i].at # n
      BY DEF LookedAt
    <3>3. \A i \in DOMAIN frontier' : frontier'[i].at # n
      BY <1>10, <3>1, <3>2
    <3> QED
      BY <1>8, <3>1, <3>3 DEF LookedAt
  <2> QED
    BY <2>1, <2>2
<1>13. /\ IsFiniteSet(HiddenAt(LookedAt \cup {at}))
       /\ Cardinality(HiddenAt(LookedAt \cup {at})) =
            Cardinality(HiddenAt(LookedAt)) + AdjacentHidden(graph, at, ask.clearance, ask.day)
  BY <1>9, HiddenAtMore DEF ContagionCount
<1>14. HiddenAt(LookedAt)' = HiddenAt(LookedAt \cup {at})
  <2> DEFINE X == LookedAt \cup {at}
  <2>1. HiddenAt(LookedAt)' = {t \in (DOMAIN graph.edges) \X X \X {"up", "down"} :
           LET e == graph.edges[t[1]]
           IN  /\ Tie(e, ask.day) /\ ~CanSee(e, ask.clearance)
               /\ t[2] = IF t[3] = "up" THEN e.dst ELSE e.src}
    BY <1>2, <1>12 DEF HiddenAt
  <2> QED
    BY <2>1 DEF HiddenAt
<1> QED
  BY <1>13, <1>14 DEF ContagionCount, at

LEMMA OnwardGrown ==
  ASSUME Good(graph), Head(frontier) \in Items, TiedPath(Head(frontier).path, Head(frontier).at),
         NEW next, next = Onward(Head(frontier), NewTies(Head(frontier).at, seen))
  PROVE  Grown(next)
BY OnwardSound DEF Grown

LEMMA ContagionStep ==
  ASSUME Good(graph), ContagionInv, SpreadContagion
  PROVE  ContagionInv'
<1> DEFINE item == Head(frontier)
           hops == NewTies(item.at, seen)
           next == Onward(item, hops)
<1>1. frontier # <<>> /\ HasNode(graph, ask.seed) /\ ContagionWalk /\ ContagionFound /\ ContagionCount
  BY DEF ContagionInv, SpreadContagion
<1>2. IF Len(item.path) >= MaxHops
      THEN frontier' = Tail(frontier) /\ UNCHANGED <<seen, found, withheld>>
      ELSE /\ frontier' = Tail(frontier) \o next
           /\ seen' = seen \cup {hops[i].to : i \in DOMAIN hops}
           /\ found' = found \o Listing(CompaniesOf(next))
           /\ withheld' = withheld + AdjacentHidden(graph, item.at, ask.clearance, ask.day)
  BY DEF SpreadContagion, Onward, NewTies, CompaniesOf, Listing
<1>3. UNCHANGED <<graph, ask>>
  BY DEF SpreadContagion
<1>4. /\ item \in Items /\ TiedPath(item.path, item.at) /\ Len(item.path) \in Nat
  BY <1>1, FirstItem
<1>5. (ContagionWalk /\ ContagionFound /\ ContagionCount)'
  <2>1. CASE Len(item.path) >= MaxHops
    BY <1>1, <1>2, <1>3, <2>1, ContagionCut
  <2>2. CASE ~(Len(item.path) >= MaxHops)
    <3>1. Grown(next)
      BY <1>4, OnwardGrown
    <3>2. {hops[i].to : i \in DOMAIN hops} = TieNext[item.at] \ seen
      <4>1. item.at \in DOMAIN graph.nodes
        BY <1>4 DEF Items
      <4> QED
        BY <4>1, NewTiesSound
    <3> HIDE DEF hops, next
    <3>3. seen' = seen \cup TieNext[item.at] /\ frontier' = Tail(frontier) \o next
      BY <1>2, <2>2, <3>2
    <3>4. Grown(next) /\ Spread(next)
      BY <1>3, <3>1, <3>3 DEF Spread
    <3>5. GoesOn
      BY <1>1, <1>4, <2>2, WalkAssumption DEF GoesOn
    <3>6. ContagionWalk'
      BY <1>1, <3>4, <3>5, ContagionWalkOn
    <3>7. ContagionFound'
      BY <1>1, <1>2, <2>2, <3>4, <3>5, <3>6, ContagionFoundOn
    <3>8. ContagionCount'
      BY <1>1, <1>2, <2>2, <3>4, <3>5, <3>6, ContagionCountOn
    <3> QED
      BY <3>6, <3>7, <3>8
  <2> QED
    BY <2>1, <2>2
<1>6. Asking("contagion")' /\ HasNode(graph, ask.seed)'
  BY <1>1, <1>3 DEF SpreadContagion, Asking, HasNode
<1> QED
  BY <1>5, <1>6 DEF ContagionInv

LEMMA ContagionBegins ==
  ASSUME Good(graph), NoWalk, AskContagion
  PROVE  ContagionInv'
<1>1. PICK c \in Companies, clearance \in Clearances, day \in Days :
        /\ ask' = [walk |-> "contagion", seed |-> c, clearance |-> clearance, day |-> day]
        /\ seen' = {c}
        /\ frontier' = IF HasNode(graph, c) THEN <<[at |-> c, path |-> <<>>]>> ELSE <<>>
  BY DEF AskContagion
<1>2. graph' = graph /\ found' = <<>> /\ withheld' = 0
  BY DEF AskContagion, NoWalk
<1>3. Asking("contagion")' /\ ask'.seed = c
  BY <1>1 DEF Asking
<1>4. CASE ~HasNode(graph, c)
  BY <1>1, <1>2, <1>3, <1>4 DEF ContagionInv, HasNode
<1>5. CASE HasNode(graph, c)
  <2>1. frontier' = <<[at |-> c, path |-> <<>>]>> /\ c \in DOMAIN graph.nodes
    BY <1>1, <1>5 DEF HasNode
  <2>2. Hops(TieNext', DOMAIN graph.nodes, c) /\ MaxHops \in Nat
    <3>1. Good(graph') /\ graph' = graph
      BY <1>2
    <3>2. (Good(graph) /\ HasNode(graph, ask.seed))'
      BY <1>1, <1>3, <1>5, <3>1 DEF HasNode, Good, Identity, IsUnresolved, NodeProp
    <3>3. \A e \in ShownTies' : e.src \in DOMAIN graph'.nodes /\ e.dst \in DOMAIN graph'.nodes
      <4>1. \A e \in EdgeSet(graph) : e.src \in DOMAIN graph.nodes /\ e.dst \in DOMAIN graph.nodes
        BY EdgeFacts
      <4> QED
        BY <1>2, <4>1 DEF ShownTies
    <3>4. \A n : TiedTo(n)' \subseteq DOMAIN graph'.nodes
      BY <3>3 DEF TiedTo
    <3> QED
      BY <1>2, <2>1, <3>4, WalkAssumption DEF Hops, TieNext
  <2>3. Breadth(TieNext', c, MaxHops, frontier', seen')
    BY <1>1, <2>1, <2>2, BreadthStart
  <2>4. frontier' \in Seq(Items') /\ \A i \in DOMAIN frontier' : TiedPath(frontier[i].path, frontier[i].at)'
    <3>1. DOMAIN frontier' = {1} /\ frontier'[1] = [at |-> c, path |-> <<>>]
      BY <2>1
    <3>2. <<>> \in Seq(TieHops')
      OBVIOUS
    <3>3. [at |-> c, path |-> <<>>] \in Items'
      BY <1>2, <2>1, <3>2 DEF Items
    <3>4. frontier' \in Seq(Items')
      BY <2>1, <3>3
    <3>5. \A i \in DOMAIN frontier' : frontier'[i].path = <<>> /\ frontier'[i].at = c /\ DOMAIN <<>> = {}
      BY <3>1
    <3> QED
      BY <1>3, <3>4, <3>5 DEF TiedPath
  <2>5. ContagionWalk'
    BY <1>3, <2>3, <2>4 DEF ContagionWalk
  <2>6. ContagionFound'
    <3>1. found' \in Seq(Members') /\ DOMAIN found' = {}
      BY <1>2
    <3>2. seen' \ {ask'.seed} = {}
      BY <1>1, <1>3
    <3> QED
      BY <3>1, <3>2 DEF ContagionFound
  <2>7. ContagionCount'
    <3>1. 1 \in DOMAIN frontier' /\ frontier'[1].at = c
      BY <2>1
    <3>2. LookedAt' = {}
      BY <1>1, <3>1 DEF LookedAt
    <3>3. HiddenAt(LookedAt)' = {}
      BY <3>2 DEF HiddenAt
    <3> QED
      BY <1>2, <3>3, FS_EmptySet DEF ContagionCount
  <2>8. HasNode(graph, ask.seed)'
    BY <1>2, <1>3, <1>5 DEF HasNode
  <2> QED
    BY <1>3, <2>5, <2>6, <2>7, <2>8 DEF ContagionInv
<1> QED
  BY <1>4, <1>5

LEMMA GroupIsWithin ==
  ASSUME NEW k
  PROVE  Group(k) = Within(TieNext, ask.seed, k)
BY DEF Group, TieNext

\* Two distances at which one node is met for the first time are one.
LEMMA OneDistance ==
  ASSUME NEW next, NEW start, NEW n, NEW d \in Nat, Away(next, start, n, d),
         NEW k \in Nat \ {0}, n \in Within(next, start, k) \ Within(next, start, k - 1)
  PROVE  d = k
<1>1. ~(k < d)
  <2>1. k < d => k \in 0..(d - 1)
    OBVIOUS
  <2> QED
    BY <2>1 DEF Away
<1>2. ~(d < k)
  <2>1. SUFFICES ASSUME d < k PROVE FALSE
    OBVIOUS
  <2>2. d <= k - 1 /\ k - 1 \in Nat
    BY <2>1
  <2>3. Within(next, start, d) \subseteq Within(next, start, k - 1)
    BY <2>2, MoreHops
  <2> QED
    BY <2>3 DEF Away
<1> QED
  BY <1>1, <1>2

LEMMA MembersTyped ==
  ASSUME ContagionFound, NEW i \in DOMAIN found
  PROVE  /\ MemberSound(found[i]) /\ found[i].path \in Seq(TieHops)
         /\ \A k \in DOMAIN found[i].path : found[i].path[k].tie \in ShownTies
<1>1. MemberSound(found[i]) /\ found \in Seq(Members)
  BY DEF ContagionFound
<1>2. found[i] \in Members
  BY <1>1, LenProperties
<1>3. PICK x \in Items : found[i] = [company |-> x.at, path |-> x.path, link |-> Link(x.path)]
  BY <1>2 DEF Members
<1>4. found[i].path = x.path /\ x.path \in Seq(TieHops)
  <2> DEFINE l == Link(x.path)
  <2>1. found[i] = [company |-> x.at, path |-> x.path, link |-> l]
    BY <1>3
  <2> HIDE DEF l
  <2> QED
    BY <2>1 DEF Items
<1>5. \A k \in DOMAIN x.path : x.path[k] \in TieHops
  BY <1>4, LenProperties
<1>6. \A hop \in TieHops : hop.tie \in ShownTies
  BY DEF TieHops
<1> QED
  BY <1>1, <1>4, <1>5, <1>6

LEMMA ContagionEnds ==
  ASSUME Good(graph), ContagionInv
  PROVE  MembersAtShortestDistance /\ WithheldAreCounted
<1> SUFFICES ASSUME Done, HasNode(graph, ask.seed)
             PROVE  MembersAtShortestDistance /\ WithheldAreCounted
  BY DEF MembersAtShortestDistance, WithheldAreCounted
<1>1. ContagionWalk /\ ContagionFound /\ ContagionCount /\ frontier = <<>>
  BY DEF ContagionInv, Done
<1>2. Hops(TieNext, DOMAIN graph.nodes, ask.seed) /\ MaxHops \in Nat \ {0}
  BY TieNextSound, WalkAssumption
<1>3. seen = Within(TieNext, ask.seed, MaxHops)
  <2>1. Breadth(TieNext, ask.seed, MaxHops, <<>>, seen) /\ MaxHops \in Nat
    BY <1>1, <1>2 DEF ContagionWalk
  <2> QED
    BY <1>2, <2>1, BreadthDone
<1>4. \A i \in DOMAIN found : MemberSound(found[i])
  BY <1>1, MembersTyped
<1> DEFINE Answer == UNION {{n \in Group(k) \ Group(k - 1) : n[1] = "Company"} \X {k} : k \in 1..MaxHops}
<1>5. ASSUME NEW m \in Range(found) PROVE <<m.company, Len(m.path)>> \in Answer
  <2>1. PICK i \in DOMAIN found : m = found[i]
    BY DEF Range
  <2>2. MemberSound(m)
    BY <1>4, <2>1
  <2>3. Len(m.path) \in 1..MaxHops /\ Away(TieNext, ask.seed, m.company, Len(m.path)) /\ m.company[1] = "Company"
    BY <2>2 DEF MemberSound
  <2>4. Len(m.path) - 1 \in 0..(Len(m.path) - 1)
    BY <1>2, <2>3
  <2>5. m.company \in Group(Len(m.path)) \ Group(Len(m.path) - 1)
    BY <2>3, <2>4, GroupIsWithin DEF Away
  <2> QED
    BY <2>3, <2>5
<1>6. ASSUME NEW k \in 1..MaxHops, NEW n \in Group(k) \ Group(k - 1), n[1] = "Company"
      PROVE  \E m \in Range(found) : m.company = n /\ Len(m.path) = k
  <2>1. k \in Nat \ {0} /\ k - 1 \in Nat /\ k <= MaxHops
    BY <1>2
  <2>2. n \in Within(TieNext, ask.seed, k) \ Within(TieNext, ask.seed, k - 1)
    BY <1>6, GroupIsWithin
  <2>3. n \in seen
    BY <1>2, <1>3, <2>1, <2>2, MoreHops
  <2>4. n # ask.seed
    <3>1. ask.seed \in Within(TieNext, ask.seed, 0)
      BY <1>2, NoHops
    <3>2. Within(TieNext, ask.seed, 0) \subseteq Within(TieNext, ask.seed, k - 1)
      BY <2>1, MoreHops
    <3> QED
      BY <2>2, <3>1, <3>2
  <2>5. PICK i \in DOMAIN found : found[i].company = n
    BY <1>1, <1>6, <2>3, <2>4 DEF ContagionFound
  <2>6. Len(found[i].path) \in Nat /\ Away(TieNext, ask.seed, n, Len(found[i].path))
    BY <1>2, <1>4, <2>5 DEF MemberSound
  <2>7. Len(found[i].path) = k
    BY <2>1, <2>2, <2>6, OneDistance
  <2> QED
    BY <2>5, <2>7 DEF Range
<1>7. {<<m.company, Len(m.path)>> : m \in Range(found)} = Answer
  <2>1. ASSUME NEW x \in Answer PROVE x \in {<<m.company, Len(m.path)>> : m \in Range(found)}
    <3>1. PICK k \in 1..MaxHops : x \in {n \in Group(k) \ Group(k - 1) : n[1] = "Company"} \X {k}
      OBVIOUS
    <3>2. x = <<x[1], k>> /\ x[1] \in Group(k) \ Group(k - 1) /\ x[1][1] = "Company"
      BY <3>1
    <3>3. PICK m \in Range(found) : m.company = x[1] /\ Len(m.path) = k
      BY <1>6, <3>2
    <3> QED
      BY <3>2, <3>3
  <2> HIDE DEF Answer
  <2> QED
    BY <1>5, <2>1
<1>8. \A i, j \in DOMAIN found : found[i].company = found[j].company => i = j
  BY <1>1 DEF ContagionFound
<1>9. ASSUME NEW m \in Range(found)
      PROVE  /\ Joined(m.path, m.company)
             /\ \A i \in DOMAIN m.path :
                  /\ m.path[i].tie \in ShownTies
                  /\ {m.path[i].from, m.path[i].to} = {m.path[i].tie.src, m.path[i].tie.dst}
  <2>1. PICK i \in DOMAIN found : m = found[i]
    BY DEF Range
  <2>2. MemberSound(m) /\ m.path \in Seq(TieHops) /\ \A k \in DOMAIN m.path : m.path[k].tie \in ShownTies
    BY <1>1, <2>1, MembersTyped
  <2>3. TiedPath(m.path, m.company) /\ Len(m.path) \in 1..MaxHops
    BY <2>2 DEF MemberSound
  <2>4. m.path # <<>>
    BY <1>2, <2>2, <2>3, EmptySeq
  <2> QED
    BY <2>2, <2>3, <2>4 DEF TiedPath, Over
<1>10. MembersAtShortestDistance
  BY <1>7, <1>8, <1>9 DEF MembersAtShortestDistance
<1>11. LookedAt = Group(MaxHops - 1)
  <2>1. DOMAIN frontier = {}
    BY <1>1
  <2>2. MaxHops - 1 \in Nat /\ MaxHops \in Nat /\ MaxHops - 1 <= MaxHops
    BY <1>2
  <2>3. Within(TieNext, ask.seed, MaxHops - 1) \subseteq seen
    BY <1>3, <2>2, MoreHops
  <2> QED
    BY <2>1, <2>3, GroupIsWithin DEF LookedAt
<1>12. WithheldAreCounted
  <2>1. withheld = Cardinality(HiddenAt(Group(MaxHops - 1)))
    BY <1>1, <1>11 DEF ContagionCount
  <2> QED
    BY <2>1 DEF WithheldAreCounted, HiddenAt
<1> QED
  BY <1>10, <1>12

------------------------------------------------------------------------------
(* The co-mention network.                                                 *)

RefNext == [n \in DOMAIN graph.nodes |-> HopsFrom(graph, n, "references", "any")]

CiteHops == [from : DOMAIN graph.nodes, cited : EdgeSet(graph), to : DOMAIN graph.nodes]
CiteItems == [at : DOMAIN graph.nodes, path : Seq(CiteHops)]

\* The path leads from the seed to n, over the references it cites.
CitedPath(path, n) ==
  /\ path = <<>> => n = ask.seed
  /\ path # <<>> => Joined(path, n)
  /\ \A i \in DOMAIN path : Over(path[i], path[i].cited)

NetworkWalk ==
  /\ frontier \in Seq(CiteItems) /\ Breadth(RefNext, ask.seed, ask.hops, frontier, seen)
  /\ \A i \in DOMAIN frontier : CitedPath(frontier[i].path, frontier[i].at)

EvidenceSound(x) ==
  /\ x.at \in seen \ {ask.seed} /\ CitedPath(x.path, x.at)
  /\ Len(x.path) \in 1..ask.hops /\ Away(RefNext, ask.seed, x.at, Len(x.path))

NetworkFound ==
  /\ found \in Seq(CiteItems) /\ \A i \in DOMAIN found : EvidenceSound(found[i])
  /\ \A n \in seen \ {ask.seed} : \E i \in DOMAIN found : found[i].at = n

NetworkInv ==
  /\ Asking("network") /\ ask.hops \in Nat \ {0}
  /\ IF HasNode(graph, ask.seed) THEN NetworkWalk /\ NetworkFound ELSE frontier = <<>>

LEMMA SameReferences ==
  ASSUME UNCHANGED <<graph, ask>>
  PROVE  /\ RefNext' = RefNext /\ CiteItems' = CiteItems
         /\ \A path, n : CitedPath(path, n)' <=> CitedPath(path, n)
<1>1. RefNext' = RefNext
  BY DEF RefNext
<1>2. CiteItems' = CiteItems
  BY DEF CiteItems, CiteHops, EdgeSet
<1>3. \A path, n : CitedPath(path, n)' <=> CitedPath(path, n)
  BY DEF CitedPath, Joined
<1> QED
  BY <1>1, <1>2, <1>3

LEMMA RefNextSound ==
  ASSUME Good(graph), HasNode(graph, ask.seed)
  PROVE  Hops(RefNext, DOMAIN graph.nodes, ask.seed)
<1>1. \A n : HopsFrom(graph, n, "references", "any") \subseteq DOMAIN graph.nodes
  BY EdgeFacts DEF HopsFrom
<1> QED
  BY <1>1 DEF Hops, RefNext, HasNode

\* What the references at a node lead to, with the hop that cites them.
LEMMA CoMentionSound ==
  ASSUME Good(graph), NEW n \in DOMAIN graph.nodes, NEW hops, hops = CoMentionHops(graph, n)
  PROVE  /\ hops \in Seq(CiteHops)
         /\ \A i \in DOMAIN hops : hops[i].from = n /\ Over(hops[i], hops[i].cited)
         /\ {hops[i].to : i \in DOMAIN hops} = RefNext[n]
<1> DEFINE I == {i \in DOMAIN graph.edges : /\ graph.edges[i].rel = "references"
                                           /\ n \in {graph.edges[i].src, graph.edges[i].dst}}
           touching == Those(graph.edges, I)
           to(e) == IF e.src = n THEN e.dst ELSE e.src
<1>1. hops = [i \in DOMAIN touching |-> [from |-> n, cited |-> touching[i], to |-> to(touching[i])]]
  BY DEF CoMentionHops
<1>2. I \subseteq DOMAIN graph.edges
  OBVIOUS
<1>3. \A i : i \in I <=> /\ i \in DOMAIN graph.edges /\ graph.edges[i].rel = "references"
                         /\ (graph.edges[i].src = n \/ graph.edges[i].dst = n)
  OBVIOUS
<1>0. \A e : to(e) = IF e.src = n THEN e.dst ELSE e.src
  OBVIOUS
<1> HIDE DEF I, to
<1>4. graph.edges \in Seq(EdgeSet(graph))
  BY EdgeFacts
<1>5. /\ touching \in Seq(EdgeSet(graph)) /\ DOMAIN touching = 1..Cardinality(I) /\ Cardinality(I) \in Nat
      /\ \A k \in DOMAIN touching : InOrder(I)[k] \in I /\ touching[k] = graph.edges[InOrder(I)[k]]
      /\ \A i \in I : \E k \in DOMAIN touching : InOrder(I)[k] = i
  BY <1>2, <1>4, ThoseSound
<1>6. /\ \A e \in EdgeSet(graph) : e.src \in DOMAIN graph.nodes /\ e.dst \in DOMAIN graph.nodes
      /\ \A e \in EdgeSet(graph) : \E i \in DOMAIN graph.edges : e = graph.edges[i]
      /\ \A i \in DOMAIN graph.edges : graph.edges[i] \in EdgeSet(graph)
  BY EdgeFacts DEF EdgeSet, Range
<1> HIDE DEF touching
<1>7. ASSUME NEW k \in DOMAIN touching
      PROVE  /\ hops[k] = [from |-> n, cited |-> touching[k], to |-> to(touching[k])]
             /\ hops[k].from = n /\ hops[k].cited = touching[k] /\ hops[k].to = to(touching[k])
             /\ touching[k] \in EdgeSet(graph) /\ touching[k].rel = "references"
             /\ touching[k].src = n \/ touching[k].dst = n
  <2>1. hops[k] = [from |-> n, cited |-> touching[k], to |-> to(touching[k])]
    BY <1>1
  <2>2. hops[k].from = n /\ hops[k].cited = touching[k] /\ hops[k].to = to(touching[k])
    BY <2>1
  <2>3. /\ touching[k] \in EdgeSet(graph) /\ touching[k].rel = "references"
        /\ touching[k].src = n \/ touching[k].dst = n
    BY <1>3, <1>5, <1>6
  <2> QED
    BY <2>1, <2>2, <2>3
<1>8. ASSUME NEW k \in DOMAIN touching
      PROVE  hops[k] \in CiteHops /\ hops[k].from = n /\ Over(hops[k], hops[k].cited)
  <2>1. hops[k].from = n /\ hops[k].cited = touching[k] /\ hops[k].to = to(touching[k])
    BY <1>7
  <2>2. to(touching[k]) \in DOMAIN graph.nodes
    BY <1>0, <1>6, <1>7
  <2>3. hops[k] \in CiteHops
    <3>1. hops[k] = [from |-> n, cited |-> touching[k], to |-> to(touching[k])]
      BY <1>7
    <3>2. touching[k] \in EdgeSet(graph)
      BY <1>7
    <3> QED
      BY <3>1, <3>2, <2>2 DEF CiteHops
  <2>4. touching[k].src = n \/ touching[k].dst = n
    BY <1>7
  <2>5. to(touching[k]) = IF touching[k].src = n THEN touching[k].dst ELSE touching[k].src
    BY <1>0
  <2> QED
    BY <2>1, <2>3, <2>4, <2>5 DEF Over
<1>9. hops \in Seq(CiteHops) /\ DOMAIN hops = DOMAIN touching
  <2>1. hops = [k \in 1..Cardinality(I) |-> hops[k]] /\ DOMAIN hops = DOMAIN touching
    BY <1>1, <1>5
  <2>2. \A k \in 1..Cardinality(I) : hops[k] \in CiteHops
    BY <1>5, <1>8
  <2> QED
    BY <1>5, <2>1, <2>2
<1>10. ASSUME NEW k \in DOMAIN hops PROVE hops[k].to \in HopsFrom(graph, n, "references", "any")
  BY <1>0, <1>7, <1>9 DEF HopsFrom
<1>11. ASSUME NEW m \in HopsFrom(graph, n, "references", "any") PROVE \E k \in DOMAIN hops : hops[k].to = m
  <2>1. PICK e \in EdgeSet(graph) : /\ e.rel = "references" /\ (e.src = n \/ e.dst = n) /\ m = to(e)
    BY <1>0, <1>11 DEF HopsFrom
  <2>2. PICK i \in DOMAIN graph.edges : e = graph.edges[i]
    BY <1>6
  <2>3. i \in I
    BY <1>3, <2>1, <2>2
  <2>4. PICK k \in DOMAIN touching : InOrder(I)[k] = i
    BY <1>5, <2>3
  <2>5. touching[k] = e
    BY <1>5, <2>2, <2>4
  <2>6. hops[k].to = m
    BY <1>7, <2>1, <2>5
  <2> QED
    BY <1>9, <2>6
<1>12. {hops[i].to : i \in DOMAIN hops} = RefNext[n]
  BY <1>10, <1>11 DEF RefNext
<1> QED
  BY <1>8, <1>9, <1>12

LEMMA CitedFurther ==
  ASSUME NEW path \in Seq(CiteHops), NEW hop \in CiteHops, CitedPath(path, hop.from), Over(hop, hop.cited)
  PROVE  CitedPath(Append(path, hop), hop.to)
<1> DEFINE more == Append(path, hop)
<1>1. /\ more \in Seq(CiteHops) /\ Len(more) = Len(path) + 1 /\ Len(path) \in Nat
      /\ \A i \in 1..Len(path) : more[i] = path[i]
      /\ more[Len(path) + 1] = hop
  BY AppendProperties, LenProperties
<1>2. Joined(more, hop.to)
  BY JoinedFurther DEF CitedPath
<1> HIDE DEF more
<1>3. more # <<>> /\ DOMAIN more = 1..(Len(path) + 1) /\ DOMAIN path = 1..Len(path)
  BY <1>1, LenProperties
<1>4. \A i \in DOMAIN more : Over(more[i], more[i].cited)
  BY <1>1, <1>3 DEF CitedPath
<1>5. CitedPath(more, hop.to)
  BY <1>2, <1>3, <1>4 DEF CitedPath
<1> QED
  BY <1>5 DEF more

\* next is what the walk adds for an item when it has met the nodes of met.
CitedFrom(item, met, next) ==
  /\ next \in Seq(CiteItems)
  /\ \A k \in DOMAIN next : Len(next[k].path) = Len(item.path) + 1 /\ CitedPath(next[k].path, next[k].at)
  /\ {next[k].at : k \in DOMAIN next} = RefNext[item.at] \ met
  /\ \A k, l \in DOMAIN next : next[k].at = next[l].at => k = l

NewCites(at, met) == Fresh(CoMentionHops(graph, at), met)

LEMMA NewCitesSound ==
  ASSUME Good(graph), NEW at \in DOMAIN graph.nodes, NEW met
  PROVE  /\ NewCites(at, met) \in Seq(CiteHops)
         /\ \A k \in DOMAIN NewCites(at, met) :
              LET hop == NewCites(at, met)[k] IN hop.from = at /\ Over(hop, hop.cited)
         /\ {NewCites(at, met)[k].to : k \in DOMAIN NewCites(at, met)} = RefNext[at] \ met
         /\ \A k, l \in DOMAIN NewCites(at, met) : NewCites(at, met)[k].to = NewCites(at, met)[l].to => k = l
<1> DEFINE all == CoMentionHops(graph, at)
           hops == NewCites(at, met)
<1>1. /\ all \in Seq(CiteHops)
      /\ \A i \in DOMAIN all : all[i].from = at /\ Over(all[i], all[i].cited)
      /\ {all[i].to : i \in DOMAIN all} = RefNext[at]
  BY CoMentionSound
<1>2. hops = Fresh(all, met)
  BY DEF NewCites
<1> HIDE DEF all, hops
<1>3. /\ hops \in Seq(CiteHops) /\ \A k \in DOMAIN hops : \E i \in DOMAIN all : hops[k] = all[i]
      /\ {hops[k].to : k \in DOMAIN hops} = {all[i].to : i \in DOMAIN all} \ met
      /\ \A k, l \in DOMAIN hops : hops[k].to = hops[l].to => k = l
  BY <1>1, <1>2, FreshSound
<1>4. \A k \in DOMAIN hops : hops[k].from = at /\ Over(hops[k], hops[k].cited)
  BY <1>1, <1>3
<1> QED
  BY <1>1, <1>3, <1>4 DEF hops

LEMMA CitedOnward ==
  ASSUME Good(graph), NEW item \in CiteItems, CitedPath(item.path, item.at), NEW met,
         NEW next, next = Onward(item, NewCites(item.at, met))
  PROVE  CitedFrom(item, met, next)
<1> DEFINE hops == NewCites(item.at, met)
<1>1. item.at \in DOMAIN graph.nodes /\ item.path \in Seq(CiteHops)
  BY DEF CiteItems
<1>2. /\ hops \in Seq(CiteHops)
      /\ \A k \in DOMAIN hops : hops[k].from = item.at /\ Over(hops[k], hops[k].cited)
      /\ {hops[k].to : k \in DOMAIN hops} = RefNext[item.at] \ met
      /\ \A k, l \in DOMAIN hops : hops[k].to = hops[l].to => k = l
  BY <1>1, NewCitesSound
<1>3. next = [i \in DOMAIN hops |-> [at |-> hops[i].to, path |-> Append(item.path, hops[i])]]
  BY DEF Onward
<1> HIDE DEF hops
<1>4. DOMAIN next = DOMAIN hops /\ DOMAIN hops = 1..Len(hops) /\ Len(hops) \in Nat
  BY <1>2, <1>3, LenProperties
<1>5. ASSUME NEW k \in DOMAIN next
      PROVE  /\ next[k] \in CiteItems /\ next[k].at = hops[k].to
             /\ Len(next[k].path) = Len(item.path) + 1 /\ CitedPath(next[k].path, next[k].at)
  <2> DEFINE hop == hops[k]
             more == Append(item.path, hop)
  <2>1. hop \in CiteHops /\ hop.from = item.at /\ Over(hop, hop.cited)
    BY <1>2, <1>4
  <2>2. hop.to \in DOMAIN graph.nodes
    BY <2>1 DEF CiteHops
  <2>3. next[k] = [at |-> hop.to, path |-> more]
    BY <1>3, <1>4
  <2> HIDE DEF hop
  <2>4. more \in Seq(CiteHops) /\ Len(more) = Len(item.path) + 1
    BY <1>1, <2>1, AppendProperties
  <2>5. CitedPath(more, hop.to)
    BY <1>1, <2>1, CitedFurther
  <2> HIDE DEF more
  <2> QED
    BY <2>2, <2>3, <2>4, <2>5 DEF CiteItems, hop
<1>6. next \in Seq(CiteItems)
  <2>1. next = [i \in 1..Len(hops) |-> next[i]] /\ \A i \in 1..Len(hops) : next[i] \in CiteItems
    BY <1>3, <1>4, <1>5
  <2> QED
    BY <1>4, <2>1
<1> QED
  BY <1>2, <1>4, <1>5, <1>6 DEF CitedFrom

LEMMA FirstCited ==
  ASSUME NetworkWalk, frontier # <<>>
  PROVE  /\ Head(frontier) = frontier[1] /\ 1 \in DOMAIN frontier
         /\ DOMAIN frontier = 1..Len(frontier) /\ Len(frontier) \in Nat \ {0}
         /\ Head(frontier) \in CiteItems /\ Len(Head(frontier).path) \in Nat
         /\ CitedPath(Head(frontier).path, Head(frontier).at)
<1>1. frontier \in Seq(CiteItems)
  BY DEF NetworkWalk
<1>2. /\ Head(frontier) = frontier[1] /\ 1 \in DOMAIN frontier
      /\ DOMAIN frontier = 1..Len(frontier) /\ Len(frontier) \in Nat \ {0}
      /\ Head(frontier) \in CiteItems
  BY <1>1, LenProperties, EmptySeq, HeadTailProperties
<1>3. \A i \in DOMAIN frontier : CitedPath(frontier[i].path, frontier[i].at)
  BY DEF NetworkWalk
<1>4. \A i \in DOMAIN frontier : Len(frontier[i].path) \in 0..ask.hops
  BY DEF NetworkWalk, Breadth
<1> QED
  BY <1>2, <1>3, <1>4

\* The first of the queue is as far as the network goes.
LEMMA NetworkCut ==
  ASSUME Good(graph), NetworkInv, HasNode(graph, ask.seed), frontier # <<>>,
         Len(Head(frontier).path) >= ask.hops,
         frontier' = Tail(frontier), UNCHANGED <<graph, ask, seen, found>>
  PROVE  NetworkInv'
<1>1. Hops(RefNext, DOMAIN graph.nodes, ask.seed) /\ ask.hops \in Nat \ {0}
  BY RefNextSound DEF NetworkInv
<1>2. frontier \in Seq(CiteItems) /\ Breadth(RefNext, ask.seed, ask.hops, frontier, seen)
  BY DEF NetworkInv, NetworkWalk
<1>3. /\ Len(frontier) \in Nat \ {0} /\ DOMAIN frontier = 1..Len(frontier) /\ Head(frontier) = frontier[1]
      /\ frontier' \in Seq(CiteItems) /\ DOMAIN frontier' = 1..(Len(frontier) - 1)
      /\ \A i \in DOMAIN frontier' : i + 1 \in DOMAIN frontier /\ frontier'[i] = frontier[i + 1]
  BY <1>2, HeadTailProperties, LenProperties, EmptySeq
<1>4. Breadth(RefNext, ask.seed, ask.hops, frontier', seen)
  BY <1>1, <1>2, <1>3, BreadthCut
<1>5. NetworkWalk'
  <2>1. \A i \in DOMAIN frontier : CitedPath(frontier[i].path, frontier[i].at)
    BY DEF NetworkInv, NetworkWalk
  <2> QED
    BY <1>3, <1>4, <2>1, SameReferences DEF NetworkWalk
<1>6. NetworkFound'
  BY SameReferences DEF NetworkInv, NetworkFound, EvidenceSound
<1> QED
  BY <1>5, <1>6 DEF NetworkInv, HasNode, Asking

LEMMA CitedGrown ==
  ASSUME Good(graph), Head(frontier) \in CiteItems, CitedPath(Head(frontier).path, Head(frontier).at),
         NEW next, next = Onward(Head(frontier), NewCites(Head(frontier).at, seen))
  PROVE  CitedFrom(Head(frontier), seen, next)
BY CitedOnward

NetworkSpread(next) ==
  /\ frontier' = Tail(frontier) \o next /\ seen' = seen \cup RefNext[Head(frontier).at]
  /\ found' = found \o next /\ UNCHANGED <<graph, ask>>

LEMMA NetworkWalkOn ==
  ASSUME Good(graph), NetworkInv, HasNode(graph, ask.seed), frontier # <<>>,
         Len(Head(frontier).path) < ask.hops,
         NEW next, CitedFrom(Head(frontier), seen, next), NetworkSpread(next)
  PROVE  /\ NetworkWalk'
         /\ \A k \in DOMAIN next : Away(RefNext, ask.seed, next[k].at, Len(next[k].path))
<1>1. next \in Seq(CiteItems) /\ frontier \in Seq(CiteItems) /\ NetworkWalk
  BY DEF CitedFrom, NetworkInv, NetworkWalk
<1>2. frontier' = Tail(frontier) \o next /\ UNCHANGED <<graph, ask>>
  BY DEF NetworkSpread
<1>3. Hops(RefNext, DOMAIN graph.nodes, ask.seed) /\ ask.hops \in Nat
  BY RefNextSound DEF NetworkInv
<1>4. Head(frontier) = frontier[1]
  BY <1>1, FirstCited
<1>5. /\ {next[k].at : k \in DOMAIN next} = RefNext[frontier[1].at] \ seen
      /\ \A k, l \in DOMAIN next : next[k].at = next[l].at => k = l
      /\ \A k \in DOMAIN next : Len(next[k].path) = Len(frontier[1].path) + 1
  BY <1>4 DEF CitedFrom
<1>6. Breadth(RefNext, ask.seed, ask.hops, frontier, seen)
  BY <1>1 DEF NetworkWalk
<1>7. Breadth(RefNext, ask.seed, ask.hops, Tail(frontier) \o next, seen \cup RefNext[frontier[1].at])
  BY <1>1, <1>3, <1>4, <1>5, <1>6, BreadthSpread
<1>8. Breadth(RefNext, ask.seed, ask.hops, frontier', seen')
  BY <1>4, <1>7 DEF NetworkSpread
<1>9. /\ frontier' \in Seq(CiteItems)
      /\ \A k \in DOMAIN frontier' :
           \/ k + 1 \in DOMAIN frontier /\ k + 1 # 1 /\ frontier'[k] = frontier[k + 1]
           \/ k - (Len(frontier) - 1) \in DOMAIN next /\ frontier'[k] = next[k - (Len(frontier) - 1)]
      /\ \A i \in DOMAIN next : Len(frontier) - 1 + i \in DOMAIN frontier'
                                /\ frontier'[Len(frontier) - 1 + i] = next[i]
  BY <1>1, <1>2, QueuePlaces
<1>10. \A i \in DOMAIN frontier : CitedPath(frontier[i].path, frontier[i].at)
  BY <1>1 DEF NetworkWalk
<1>11. \A k \in DOMAIN next : CitedPath(next[k].path, next[k].at)
  BY DEF CitedFrom
<1>12. \A k \in DOMAIN frontier' : CitedPath(frontier'[k].path, frontier'[k].at)
  BY <1>9, <1>10, <1>11
<1>13. RefNext' = RefNext /\ CiteItems' = CiteItems /\ ask' = ask
  BY <1>2, SameReferences
<1>14. \A path, n : CitedPath(path, n)' <=> CitedPath(path, n)
  BY <1>2, SameReferences
<1>15. NetworkWalk'
  BY <1>8, <1>9, <1>12, <1>13, <1>14 DEF NetworkWalk
<1>16. \A k \in DOMAIN next : Away(RefNext, ask.seed, next[k].at, Len(next[k].path))
  BY <1>8, <1>9 DEF Breadth
<1> QED
  BY <1>15, <1>16

LEMMA NetworkFoundOn ==
  ASSUME Good(graph), NetworkInv, HasNode(graph, ask.seed), frontier # <<>>,
         Len(Head(frontier).path) < ask.hops,
         NEW next, CitedFrom(Head(frontier), seen, next), NetworkSpread(next)
  PROVE  NetworkFound'
<1>1. next \in Seq(CiteItems) /\ found \in Seq(CiteItems) /\ NetworkWalk /\ ask.hops \in Nat
  BY DEF CitedFrom, NetworkInv, NetworkFound
<1>2. found' = found \o next /\ UNCHANGED <<graph, ask>>
  BY DEF NetworkSpread
<1>3. /\ found' \in Seq(CiteItems)
      /\ \A k \in DOMAIN found' :
           \/ k \in DOMAIN found /\ found'[k] = found[k]
           \/ k - Len(found) \in DOMAIN next /\ found'[k] = next[k - Len(found)]
      /\ \A i \in DOMAIN found : i \in DOMAIN found' /\ found'[i] = found[i]
      /\ \A i \in DOMAIN next : Len(found) + i \in DOMAIN found' /\ found'[Len(found) + i] = next[i]
  BY <1>1, <1>2, ConcatPlaces
<1>4. seen' = seen \cup {next[k].at : k \in DOMAIN next} /\ \A k \in DOMAIN next : next[k].at \notin seen
  BY DEF NetworkSpread, CitedFrom
<1>5. ask.seed \in seen
  BY <1>1 DEF NetworkWalk, Breadth
<1>6. \A k \in DOMAIN next : Away(RefNext, ask.seed, next[k].at, Len(next[k].path))
  BY NetworkWalkOn
<1>7. \A k \in DOMAIN next : CitedPath(next[k].path, next[k].at) /\ Len(next[k].path) \in 1..ask.hops
  <2>1. Len(Head(frontier).path) \in Nat
    BY <1>1, FirstCited
  <2>2. \A k \in DOMAIN next : CitedPath(next[k].path, next[k].at)
                               /\ Len(next[k].path) = Len(Head(frontier).path) + 1
    BY DEF CitedFrom
  <2> QED
    BY <1>1, <2>1, <2>2
<1>8. RefNext' = RefNext /\ CiteItems' = CiteItems /\ ask' = ask
  BY <1>2, SameReferences
<1>9. \A path, n : CitedPath(path, n)' <=> CitedPath(path, n)
  BY <1>2, SameReferences
<1>10. \A i \in DOMAIN found : EvidenceSound(found[i])
  BY DEF NetworkInv, NetworkFound
<1>11. ASSUME NEW k \in DOMAIN found' PROVE EvidenceSound(found[k])'
  <2>1. CASE k \in DOMAIN found /\ found'[k] = found[k]
    <3>1. EvidenceSound(found[k])
      BY <1>10, <2>1
    <3> QED
      BY <2>1, <3>1, <1>4, <1>8, <1>9 DEF EvidenceSound
  <2>2. CASE k - Len(found) \in DOMAIN next /\ found'[k] = next[k - Len(found)]
    BY <1>4, <1>5, <1>6, <1>7, <1>8, <1>9, <2>2 DEF EvidenceSound
  <2> QED
    BY <1>3, <2>1, <2>2
<1>12. ASSUME NEW n \in seen' \ {ask.seed} PROVE \E i \in DOMAIN found' : found'[i].at = n
  <2>1. CASE n \in seen
    <3>1. PICK i \in DOMAIN found : found[i].at = n
      BY <1>12, <2>1 DEF NetworkInv, NetworkFound
    <3> QED
      BY <1>3, <3>1
  <2>2. CASE n \notin seen
    <3>1. PICK k \in DOMAIN next : n = next[k].at
      BY <1>4, <2>2
    <3> QED
      BY <1>3, <3>1
  <2> QED
    BY <2>1, <2>2
<1> QED
  BY <1>3, <1>8, <1>11, <1>12 DEF NetworkFound

LEMMA NetworkStep ==
  ASSUME Good(graph), NetworkInv, FollowReferences
  PROVE  NetworkInv'
<1> DEFINE item == Head(frontier)
           hops == IF Len(item.path) >= ask.hops THEN <<>> ELSE NewCites(item.at, seen)
           next == Onward(item, hops)
<1>1. /\ frontier # <<>> /\ HasNode(graph, ask.seed) /\ NetworkWalk /\ NetworkFound
      /\ Asking("network") /\ ask.hops \in Nat \ {0}
  BY DEF NetworkInv, FollowReferences
<1>2. /\ frontier' = Tail(frontier) \o next
      /\ seen' = seen \cup {hops[i].to : i \in DOMAIN hops}
      /\ found' = found \o next
  BY DEF FollowReferences, Onward, NewCites
<1>3. UNCHANGED <<graph, ask>>
  BY DEF FollowReferences
<1>4. item \in CiteItems /\ Len(item.path) \in Nat /\ CitedPath(item.path, item.at)
  BY <1>1, FirstCited
<1>5. frontier \in Seq(CiteItems) /\ found \in Seq(CiteItems)
  BY <1>1 DEF NetworkWalk, NetworkFound
<1>6. CASE Len(item.path) >= ask.hops
  <2>1. hops = <<>>
    BY <1>6
  <2>2. next = <<>>
    BY <2>1 DEF Onward
  <2>3. {hops[i].to : i \in DOMAIN hops} = {}
    BY <2>1
  <2>4. Tail(frontier) \in Seq(CiteItems)
    BY <1>1, <1>5, HeadTailProperties
  <2> HIDE DEF next, hops
  <2>5. frontier' = Tail(frontier) /\ found' = found /\ seen' = seen
    BY <1>2, <1>5, <2>2, <2>3, <2>4, ConcatEmptySeq
  <2> QED
    BY <1>1, <1>3, <1>6, <2>5, NetworkCut
<1>7. CASE ~(Len(item.path) >= ask.hops)
  <2>1. hops = NewCites(item.at, seen)
    BY <1>7
  <2>2. CitedFrom(item, seen, next)
    <3>1. next = Onward(item, NewCites(item.at, seen))
      BY <2>1
    <3> HIDE DEF next, hops
    <3> QED
      BY <1>4, <3>1, CitedGrown
  <2>3. {hops[i].to : i \in DOMAIN hops} = RefNext[item.at] \ seen
    <3>1. item.at \in DOMAIN graph.nodes
      BY <1>4 DEF CiteItems
    <3>2. {NewCites(item.at, seen)[i].to : i \in DOMAIN NewCites(item.at, seen)} = RefNext[item.at] \ seen
      BY <3>1, NewCitesSound
    <3> QED
      BY <2>1, <3>2
  <2> HIDE DEF hops, next
  <2>4. NetworkSpread(next)
    BY <1>2, <1>3, <2>3 DEF NetworkSpread
  <2>5. Len(item.path) < ask.hops
    BY <1>1, <1>4, <1>7
  <2>6. NetworkWalk'
    BY <1>1, <2>2, <2>4, <2>5, NetworkWalkOn
  <2>7. NetworkFound'
    BY <1>1, <2>2, <2>4, <2>5, NetworkFoundOn
  <2>8. Asking("network")' /\ (ask.hops \in Nat \ {0})' /\ HasNode(graph, ask.seed)'
    BY <1>1, <1>3 DEF Asking, HasNode
  <2> QED
    BY <2>6, <2>7, <2>8 DEF NetworkInv
<1> QED
  BY <1>6, <1>7

LEMMA ClampSound ==
  ASSUME NEW hops \in Nat
  PROVE  Clamp(hops) \in Nat \ {0}
<1>1. MaxNetworkHops \in Nat
  BY WalkAssumption
<1>2. Min({hops, MaxNetworkHops}) \in {hops, MaxNetworkHops}
  <2>1. \E x \in {hops, MaxNetworkHops} : \A y \in {hops, MaxNetworkHops} : x =< y
    <3>1. CASE hops <= MaxNetworkHops
      BY <1>1, <3>1
    <3>2. CASE MaxNetworkHops <= hops
      BY <1>1, <3>2
    <3> QED
      BY <1>1, <3>1, <3>2
  <2> QED
    BY <2>1 DEF Min
<1> DEFINE m == Min({hops, MaxNetworkHops})
<1>3. m \in Nat
  BY <1>1, <1>2
<1> HIDE DEF m
<1>4. Max({1, m}) \in {1, m} /\ Max({1, m}) >= 1
  <2>1. \E x \in {1, m} : \A y \in {1, m} : x >= y
    <3>1. CASE 1 >= m
      BY <1>3, <3>1
    <3>2. CASE m >= 1
      BY <1>3, <3>2
    <3> QED
      BY <1>3, <3>1, <3>2
  <2>2. Max({1, m}) \in {1, m} /\ \A y \in {1, m} : Max({1, m}) >= y
    BY <2>1 DEF Max
  <2> QED
    BY <2>2
<1> QED
  BY <1>3, <1>4 DEF Clamp, m

LEMMA NetworkBegins ==
  ASSUME Good(graph), NoWalk, AskNetwork
  PROVE  NetworkInv'
<1>1. PICK c \in Companies, hops \in AskedHops :
        /\ ask' = [walk |-> "network", seed |-> c, hops |-> Clamp(hops)]
        /\ seen' = {c}
        /\ frontier' = IF HasNode(graph, c) THEN <<[at |-> c, path |-> <<>>]>> ELSE <<>>
  BY DEF AskNetwork
<1>2. graph' = graph /\ found' = <<>>
  BY DEF AskNetwork, NoWalk
<1>3. Asking("network")' /\ ask'.seed = c /\ ask'.hops \in Nat \ {0}
  <2>1. Clamp(hops) \in Nat \ {0}
    BY ClampSound, WalkAssumption
  <2> QED
    BY <1>1, <2>1 DEF Asking
<1>4. CASE ~HasNode(graph, c)
  BY <1>1, <1>2, <1>3, <1>4 DEF NetworkInv, HasNode
<1>5. CASE HasNode(graph, c)
  <2>1. frontier' = <<[at |-> c, path |-> <<>>]>> /\ c \in DOMAIN graph.nodes
    BY <1>1, <1>5 DEF HasNode
  <2>2. Hops(RefNext', DOMAIN graph.nodes, c)
    <3>1. \A n : HopsFrom(graph, n, "references", "any") \subseteq DOMAIN graph.nodes
      BY EdgeFacts DEF HopsFrom
    <3> QED
      BY <1>2, <2>1, <3>1 DEF Hops, RefNext
  <2>3. Breadth(RefNext', c, ask'.hops, frontier', seen')
    <3>1. ask'.hops \in Nat
      BY <1>3
    <3> QED
      BY <1>1, <2>1, <2>2, <3>1, BreadthStart
  <2>4. frontier' \in Seq(CiteItems') /\ \A i \in DOMAIN frontier' : CitedPath(frontier[i].path, frontier[i].at)'
    <3>1. DOMAIN frontier' = {1} /\ frontier'[1] = [at |-> c, path |-> <<>>]
      BY <2>1
    <3>2. <<>> \in Seq(CiteHops')
      OBVIOUS
    <3>3. [at |-> c, path |-> <<>>] \in CiteItems'
      BY <1>2, <2>1, <3>2 DEF CiteItems
    <3>4. frontier' \in Seq(CiteItems')
      BY <2>1, <3>3
    <3>5. \A i \in DOMAIN frontier' : frontier'[i].path = <<>> /\ frontier'[i].at = c /\ DOMAIN <<>> = {}
      BY <3>1
    <3> QED
      BY <1>3, <3>4, <3>5 DEF CitedPath
  <2>5. NetworkWalk'
    BY <1>3, <2>3, <2>4 DEF NetworkWalk
  <2>6. NetworkFound'
    <3>1. found' \in Seq(CiteItems') /\ DOMAIN found' = {}
      BY <1>2
    <3>2. seen' \ {ask'.seed} = {}
      BY <1>1, <1>3
    <3> QED
      BY <3>1, <3>2 DEF NetworkFound
  <2>7. HasNode(graph, ask.seed)'
    BY <1>2, <1>3, <1>5 DEF HasNode
  <2> QED
    BY <1>3, <2>5, <2>6, <2>7 DEF NetworkInv
<1> QED
  BY <1>4, <1>5

LEMMA NetworkEnds ==
  ASSUME Good(graph), NetworkInv
  PROVE  EvidenceMatchesDistance
<1> SUFFICES ASSUME Done, HasNode(graph, ask.seed), NEW r \in NetworkAnswer
             PROVE  /\ Len(r.path) = r.hops
                    /\ Joined(r.path, r.company)
                    /\ \A i \in DOMAIN r.path :
                         {r.path[i].from, r.path[i].to} = {r.path[i].cited.src, r.path[i].cited.dst}
  BY DEF EvidenceMatchesDistance
<1>1. NetworkWalk /\ NetworkFound /\ frontier = <<>> /\ ask.hops \in Nat \ {0}
  BY DEF NetworkInv, Done
<1>2. Hops(RefNext, DOMAIN graph.nodes, ask.seed)
  BY RefNextSound
<1>3. seen = Within(RefNext, ask.seed, ask.hops)
  <2>1. Breadth(RefNext, ask.seed, ask.hops, <<>>, seen) /\ ask.hops \in Nat
    BY <1>1 DEF NetworkWalk
  <2> QED
    BY <1>2, <2>1, BreadthDone
<1> DEFINE reach == Reachable(graph, ask.seed, "references", ask.hops, "any")
           distance(n) == CHOOSE h \in 1..ask.hops :
                            n \in Within(RefNext, ask.seed, h) \ Within(RefNext, ask.seed, h - 1)
<1>4. reach = [n \in seen \ {ask.seed} |-> distance(n)]
  BY <1>3 DEF Reachable, RefNext
<1>5. PICK c \in DOMAIN reach :
        r = [company |-> c, hops |-> reach[c],
             path |-> IF c \in seen THEN (CHOOSE x \in Range(found) : x.at = c).path ELSE <<>>]
  BY DEF NetworkAnswer
<1>6. c \in seen \ {ask.seed} /\ reach[c] = distance(c)
  BY <1>4
<1> HIDE DEF reach
<1> DEFINE x == CHOOSE y \in Range(found) : y.at = c
<1>7. \E y \in Range(found) : y.at = c
  BY <1>1, <1>6 DEF NetworkFound, Range
<1>8. x \in Range(found) /\ x.at = c
  BY <1>7
<1>9. r.company = c /\ r.hops = distance(c) /\ r.path = x.path
  BY <1>5, <1>6
<1> HIDE DEF x
<1>10. EvidenceSound(x) /\ x \in CiteItems
  <2>1. PICK i \in DOMAIN found : x = found[i]
    BY <1>8 DEF Range
  <2> QED
    BY <1>1, <2>1, LenProperties DEF NetworkFound
<1>11. /\ Len(x.path) \in 1..ask.hops /\ Away(RefNext, ask.seed, c, Len(x.path)) /\ CitedPath(x.path, c)
  BY <1>8, <1>10 DEF EvidenceSound
<1>12. Len(x.path) = distance(c)
  <2>1. Len(x.path) - 1 \in 0..(Len(x.path) - 1) /\ Len(x.path) \in Nat
    BY <1>1, <1>11
  <2>2. c \in Within(RefNext, ask.seed, Len(x.path)) \ Within(RefNext, ask.seed, Len(x.path) - 1)
    BY <1>11, <2>1 DEF Away
  <2>3. /\ distance(c) \in 1..ask.hops
        /\ c \in Within(RefNext, ask.seed, distance(c)) \ Within(RefNext, ask.seed, distance(c) - 1)
    BY <1>11, <2>2
  <2> HIDE DEF distance
  <2>4. distance(c) \in Nat \ {0}
    BY <1>1, <2>3
  <2> QED
    BY <1>11, <2>1, <2>3, <2>4, OneDistance
<1>13. x.path # <<>>
  <2>1. Len(x.path) # 0
    BY <1>1, <1>11
  <2> QED
    BY <2>1
<1> QED
  BY <1>9, <1>11, <1>12, <1>13 DEF CitedPath, Over

------------------------------------------------------------------------------
(* Ownership chains: sequences that begin alike.                           *)

Begins(q, p) == Len(q) <= Len(p) /\ \A k \in 1..Len(q) : p[k] = q[k]

LEMMA BeginsEqual ==
  ASSUME NEW S, NEW q \in Seq(S), NEW p \in Seq(S), Begins(q, p), Len(p) <= Len(q)
  PROVE  p = q
<1>1. Len(p) = Len(q)
  BY LenProperties DEF Begins
<1>2. \A k \in 1..Len(q) : p[k] = q[k]
  BY DEF Begins
<1> QED
  BY <1>1, <1>2, SeqEqual

\* What begins with r, one longer than q, begins with q; what r begins with
\* begins q, or begins with it.
ForkOf(q, r, p) ==
  /\ Begins(q, r)
  /\ Begins(r, p) => Begins(q, p)
  /\ Begins(p, r) => Begins(p, q) \/ Begins(q, p)

LEMMA BeginsAppend ==
  ASSUME NEW S, NEW q \in Seq(S), NEW e \in S, NEW p \in Seq(S), NEW r, r = Append(q, e)
  PROVE  ForkOf(q, r, p)
<1>1. /\ r \in Seq(S) /\ Len(r) = Len(q) + 1 /\ Len(q) \in Nat /\ Len(p) \in Nat
      /\ \A k \in 1..Len(q) : r[k] = q[k]
      /\ r[Len(q) + 1] = e
  BY AppendProperties, LenProperties
<1>2. Begins(q, r)
  BY <1>1 DEF Begins
<1>3. ASSUME Begins(r, p) PROVE Begins(q, p)
  <2>1. \A k \in 1..Len(q) : k \in 1..Len(r) /\ p[k] = r[k]
    BY <1>1, <1>3 DEF Begins
  <2> QED
    BY <1>1, <1>3, <2>1 DEF Begins
<1>4. ASSUME Begins(p, r) PROVE Begins(p, q) \/ p = r
  <2>1. CASE Len(p) <= Len(q)
    <3>1. \A k \in 1..Len(p) : k \in 1..Len(q) /\ r[k] = p[k]
      BY <1>1, <1>4, <2>1 DEF Begins
    <3> QED
      BY <1>1, <2>1, <3>1 DEF Begins
  <2>2. CASE Len(p) > Len(q)
    <3>1. Len(r) <= Len(p)
      BY <1>1, <2>2
    <3> QED
      BY <1>1, <1>4, <3>1, BeginsEqual
  <2> QED
    BY <1>1, <2>1, <2>2
<1> QED
  BY <1>2, <1>3, <1>4 DEF ForkOf

LEMMA BeginsOneMore ==
  ASSUME NEW S, NEW q \in Seq(S), NEW p \in Seq(S), Begins(q, p), Len(q) < Len(p)
  PROVE  /\ Len(q) + 1 \in DOMAIN p /\ p[Len(q) + 1] \in S
         /\ Begins(Append(q, p[Len(q) + 1]), p)
<1>1. Len(q) \in Nat /\ Len(p) \in Nat /\ DOMAIN p = 1..Len(p)
  BY LenProperties
<1>2. Len(q) + 1 \in DOMAIN p /\ p[Len(q) + 1] \in S
  BY <1>1
<1> DEFINE r == Append(q, p[Len(q) + 1])
<1>3. /\ Len(r) = Len(q) + 1 /\ \A k \in 1..Len(q) : r[k] = q[k]
      /\ r[Len(q) + 1] = p[Len(q) + 1]
  BY <1>1, <1>2, AppendProperties
<1> HIDE DEF r
<1>4. ASSUME NEW k \in 1..Len(r) PROVE p[k] = r[k]
  <2>1. k \in 1..Len(q) \/ k = Len(q) + 1
    BY <1>1, <1>3
  <2> QED
    BY <1>3, <2>1 DEF Begins
<1>5. Begins(r, p)
  BY <1>1, <1>3, <1>4 DEF Begins
<1> QED
  BY <1>2, <1>5 DEF r

------------------------------------------------------------------------------
(* Ownership chains: one hop more.                                         *)

ChainItems ==
  [at : DOMAIN graph.nodes, links : Seq(ShownTies), visited : SUBSET {n[2] : n \in DOMAIN graph.nodes},
   last : OwnershipRelations \cup {None}]

Terminals == {"restricted", "beneficial_owner", "unresolved", "root", "cycle", "max_depth"}
Chains == [links : Seq(ShownTies), terminal : Terminals]

Upwards(p) == \A k \in DOMAIN p : p[k].dst = At(p, k - 1)

\* The path of an item is one the walk may go on from.
ItemSound(x) ==
  /\ Upwards(x.links) /\ Simple(x.links) /\ Len(x.links) < MaxDepth
  /\ x.at = At(x.links, Len(x.links)) /\ x.visited = {At(x.links, k)[2] : k \in 0..Len(x.links)}

\* A chain ends where it may, and claims what holds there.
ChainSound(c) ==
  LET top == At(c.links, Len(c.links))
  IN  /\ c.links \in UpPaths /\ Ends(c.links)
      /\ Complete(c) => Simple(c.links) /\ OwnersOf(top) = {}
      /\ c.terminal = "restricted" => OwnersOf(top) # {}
      /\ c.terminal = "cycle" <=> ~Simple(c.links)
      /\ c.terminal = "root" => top \notin Surrogates

LEMMA UpPathFacts ==
  /\ \A p : p \in UpPaths <=> /\ p \in Seq(ShownTies) /\ Len(p) \in 1..MaxDepth
                              /\ Upwards(p) /\ SimpleTo(p, Len(p) - 1)
<1>1. MaxDepth \in Nat
  BY WalkAssumption
<1>2. ASSUME NEW p, p \in UpPaths PROVE p \in Seq(ShownTies) /\ Len(p) \in 1..MaxDepth
  <2>1. p # <<>>
    BY <1>2 DEF UpPaths
  <2>2. PICK m \in 0..MaxDepth : p \in [1..m -> ShownTies]
    BY <1>2 DEF UpPaths, SeqOf
  <2>3. p \in Seq(ShownTies) /\ Len(p) = m
    BY <1>1, <2>2
  <2> QED
    BY <1>1, <2>1, <2>3, EmptySeq
<1>3. ASSUME NEW p \in Seq(ShownTies), Len(p) \in 1..MaxDepth PROVE p \in SeqOf(ShownTies, MaxDepth) /\ p # <<>>
  <2>1. p \in [1..Len(p) -> ShownTies] /\ Len(p) \in 0..MaxDepth /\ Len(p) # 0
    BY <1>1, <1>3, LenProperties
  <2> QED
    BY <2>1 DEF SeqOf
<1> QED
  BY <1>2, <1>3 DEF UpPaths, Upwards

\* What a hop adds to a path.
Longer(p, e, q) ==
  /\ Len(q) = Len(p) + 1 /\ Len(p) \in Nat
  /\ \A k \in 0..Len(p) : At(q, k) = At(p, k)
  /\ At(q, Len(q)) = e.src
  /\ Upwards(p) /\ e.dst = At(p, Len(p)) => Upwards(q)
  /\ Simple(p) => SimpleTo(q, Len(q) - 1)
  /\ Simple(p) => (Simple(q) <=> \A k \in 0..Len(p) : At(p, k)[2] # e.src[2])

LEMMA AtAppend ==
  ASSUME NEW S, NEW p \in Seq(S), NEW e \in S, NEW q, q = Append(p, e)
  PROVE  q \in Seq(S) /\ Longer(p, e, q)
<1>1. /\ q \in Seq(S) /\ Len(q) = Len(p) + 1 /\ Len(p) \in Nat
      /\ \A k \in 1..Len(p) : q[k] = p[k]
      /\ q[Len(p) + 1] = e /\ DOMAIN p = 1..Len(p)
  BY AppendProperties, LenProperties
<1>2. \A k \in 0..Len(p) : At(q, k) = At(p, k)
  BY <1>1 DEF At
<1>3. At(q, Len(q)) = e.src
  BY <1>1 DEF At
<1>4. ASSUME Upwards(p), e.dst = At(p, Len(p)) PROVE Upwards(q)
  <2>1. DOMAIN q = 1..(Len(p) + 1)
    BY <1>1, LenProperties
  <2>2. ASSUME NEW k \in DOMAIN q PROVE q[k].dst = At(q, k - 1)
    <3>1. k - 1 \in 0..Len(p)
      BY <1>1, <2>1
    <3>2. CASE k \in 1..Len(p)
      BY <1>1, <1>2, <1>4, <3>1, <3>2 DEF Upwards
    <3>3. CASE k = Len(p) + 1
      <4>1. k - 1 = Len(p) /\ q[k] = e
        BY <1>1, <3>3
      <4> QED
        BY <1>2, <1>4, <3>1, <4>1
    <3> QED
      BY <1>1, <2>1, <3>2, <3>3
  <2> QED
    BY <2>2 DEF Upwards
<1>5. Simple(p) => SimpleTo(q, Len(q) - 1)
  <2>1. Len(q) - 1 = Len(p)
    BY <1>1
  <2> QED
    BY <1>2, <2>1 DEF Simple, SimpleTo
<1>6. ASSUME Simple(p) PROVE Simple(q) <=> \A k \in 0..Len(p) : At(p, k)[2] # e.src[2]
  <2>1. ASSUME Simple(q), NEW k \in 0..Len(p) PROVE At(p, k)[2] # e.src[2]
    <3>1. k \in 0..Len(q) /\ Len(q) \in 0..Len(q) /\ k # Len(q)
      BY <1>1
    <3> QED
      BY <1>2, <1>3, <2>1, <3>1 DEF Simple, SimpleTo
  <2>2. ASSUME \A k \in 0..Len(p) : At(p, k)[2] # e.src[2] PROVE Simple(q)
    <3> SUFFICES ASSUME NEW j \in 0..Len(q), NEW k \in 0..Len(q), At(q, j)[2] = At(q, k)[2]
                 PROVE  j = k
      BY DEF Simple, SimpleTo
    <3>1. (j \in 0..Len(p) \/ j = Len(q)) /\ (k \in 0..Len(p) \/ k = Len(q))
      BY <1>1
    <3> QED
      BY <1>2, <1>3, <1>6, <2>2, <3>1 DEF Simple, SimpleTo
  <2> QED
    BY <2>1, <2>2
<1> QED
  BY <1>1, <1>2, <1>3, <1>4, <1>5, <1>6 DEF Longer

LEMMA StopFacts ==
  ASSUME NEW item, NEW e
  PROVE  /\ StopAt(item, e) \in {"cycle", "max_depth", None}
         /\ StopAt(item, e) = "cycle" <=> e.src[2] \in item.visited
         /\ StopAt(item, e) = "max_depth" <=> e.src[2] \notin item.visited /\ Len(item.links) + 1 >= MaxDepth
BY DEF StopAt, None

\* The hop over e as a path: whether it is simple is whether it closes a circle.
LEMMA LongerPath ==
  ASSUME NEW item \in ChainItems, ItemSound(item), NEW e \in ShownTies, e.dst = item.at,
         NEW q, q = Append(item.links, e)
  PROVE  /\ q \in UpPaths /\ Len(q) = Len(item.links) + 1 /\ At(q, Len(q)) = e.src
         /\ Simple(q) <=> e.src[2] \notin item.visited
         /\ {At(q, k)[2] : k \in 0..Len(q)} = item.visited \cup {e.src[2]}
<1>1. item.links \in Seq(ShownTies)
  BY DEF ChainItems
<1>2. /\ Upwards(item.links) /\ Simple(item.links) /\ Len(item.links) < MaxDepth
      /\ item.at = At(item.links, Len(item.links))
      /\ item.visited = {At(item.links, k)[2] : k \in 0..Len(item.links)}
  BY DEF ItemSound
<1>3. /\ q \in Seq(ShownTies) /\ Len(q) = Len(item.links) + 1 /\ Len(item.links) \in Nat
      /\ \A k \in 0..Len(item.links) : At(q, k) = At(item.links, k)
      /\ At(q, Len(q)) = e.src
      /\ Upwards(q) /\ SimpleTo(q, Len(q) - 1)
      /\ Simple(q) <=> \A k \in 0..Len(item.links) : At(item.links, k)[2] # e.src[2]
  <2>1. q \in Seq(ShownTies) /\ Longer(item.links, e, q)
    BY <1>1, AtAppend
  <2> QED
    BY <1>2, <2>1 DEF Longer
<1>4. Len(q) \in 1..MaxDepth
  BY <1>2, <1>3, WalkAssumption
<1>5. q \in UpPaths
  BY <1>3, <1>4, UpPathFacts
<1>6. Simple(q) <=> e.src[2] \notin item.visited
  BY <1>2, <1>3
<1>7. {At(q, k)[2] : k \in 0..Len(q)} = item.visited \cup {e.src[2]}
  <2>1. \A k : k \in 0..Len(q) <=> k \in 0..Len(item.links) \/ k = Len(q)
    BY <1>3
  <2> QED
    BY <1>2, <1>3, <2>1
<1> QED
  BY <1>3, <1>5, <1>6, <1>7

LEMMA ShownTieFacts ==
  ASSUME Good(graph), NEW e \in ShownTies
  PROVE  /\ e.src \in DOMAIN graph.nodes /\ e.rel \in OwnershipRelations /\ e \in EdgeSet(graph)
         /\ Tie(e, ask.day) /\ CanSee(e, ask.clearance)
BY EdgeFacts DEF ShownTies, MayShow, Tie

LEMMA HopSound ==
  ASSUME Good(graph), NEW item \in ChainItems, ItemSound(item),
         NEW e \in ShownTies, e.dst = item.at, StopAt(item, e) = None
  PROVE  Hop(item, e) \in ChainItems /\ ItemSound(Hop(item, e))
<1> DEFINE q == Append(item.links, e)
           seenKeys == item.visited \cup {e.src[2]}
<1>1. Hop(item, e) = [at |-> e.src, links |-> q, visited |-> seenKeys, last |-> e.rel]
  BY DEF Hop
<1>2. /\ q \in UpPaths /\ Len(q) = Len(item.links) + 1 /\ At(q, Len(q)) = e.src
      /\ Simple(q) <=> e.src[2] \notin item.visited
      /\ {At(q, k)[2] : k \in 0..Len(q)} = seenKeys
  BY LongerPath
<1>3. e.src \in DOMAIN graph.nodes /\ e.rel \in OwnershipRelations
  BY ShownTieFacts
<1>4. seenKeys \in SUBSET {n[2] : n \in DOMAIN graph.nodes}
  BY <1>3 DEF ChainItems
<1>5. e.src[2] \notin item.visited /\ ~(Len(item.links) + 1 >= MaxDepth)
  BY StopFacts DEF None
<1>6. q \in Seq(ShownTies) /\ Len(q) \in 1..MaxDepth /\ Upwards(q)
  BY <1>2, UpPathFacts
<1> HIDE DEF q, seenKeys
<1>7. Hop(item, e) \in ChainItems
  BY <1>1, <1>3, <1>4, <1>6 DEF ChainItems
<1>8. Len(q) < MaxDepth
  BY <1>2, <1>5, <1>6, WalkAssumption
<1> QED
  BY <1>1, <1>2, <1>5, <1>6, <1>7, <1>8 DEF ItemSound

\* A chain that stops with its last hop.
LEMMA StopSound ==
  ASSUME Good(graph), NEW item \in ChainItems, ItemSound(item),
         NEW e \in ShownTies, e.dst = item.at, StopAt(item, e) # None,
         NEW c, c = [links |-> Append(item.links, e), terminal |-> StopAt(item, e)]
  PROVE  c \in Chains /\ ChainSound(c)
<1> DEFINE q == Append(item.links, e)
           t == StopAt(item, e)
<1>1. c.links = q /\ c.terminal = t /\ c = [links |-> q, terminal |-> t]
  OBVIOUS
<1>2. /\ q \in UpPaths /\ Len(q) = Len(item.links) + 1 /\ At(q, Len(q)) = e.src
      /\ Simple(q) <=> e.src[2] \notin item.visited
  BY LongerPath
<1>3. /\ t \in {"cycle", "max_depth"} /\ (t = "cycle" <=> e.src[2] \in item.visited)
      /\ (t = "max_depth" => Len(item.links) + 1 >= MaxDepth)
  BY StopFacts
<1>4. q \in Seq(ShownTies) /\ Len(q) \in 1..MaxDepth
  BY <1>2, UpPathFacts
<1> HIDE DEF q, t
<1>5. Ends(q)
  <2>1. CASE t = "cycle"
    BY <1>2, <1>3, <2>1 DEF Ends
  <2>2. CASE t = "max_depth"
    <3>1. Len(q) = MaxDepth
      BY <1>2, <1>3, <1>4, <2>2, WalkAssumption
    <3> QED
      BY <3>1 DEF Ends
  <2> QED
    BY <1>3, <2>1, <2>2
<1>6. c \in Chains
  BY <1>1, <1>3, <1>4 DEF Chains, Terminals
<1>7. t = "cycle" <=> ~Simple(q)
  BY <1>2, <1>3
<1> QED
  BY <1>1, <1>2, <1>3, <1>5, <1>6, <1>7 DEF ChainSound, Complete

\* Whether a node has owners, and whether the caller may see some of them.
LEMMA OwnersHidden ==
  ASSUME Good(graph), NEW n, Above(n) = {},
         NEW h, h = Hidden(graph, OwnerEdges(graph, n, ask.day), ask.clearance)
  PROVE  /\ h > 0 => OwnersOf(n) # {}
         /\ ~(h > 0) => OwnersOf(n) = {}
         /\ \A e \in ShownTies : e.dst # n
<1> DEFINE all == OwnerEdges(graph, n, ask.day)
<1>1. Shown(graph, all, ask.clearance) = {}
  BY DEF Above
<1>2. IsFiniteSet(all) /\ Cardinality(all) \in Nat
  <2>1. DOMAIN graph.edges = 1..Len(graph.edges) /\ Len(graph.edges) \in Int /\ 1 \in Int
    BY EdgeFacts
  <2>2. IsFiniteSet(1..Len(graph.edges)) /\ all \in SUBSET (1..Len(graph.edges))
    BY <2>1, FS_Interval DEF OwnerEdges
  <2> HIDE DEF all
  <2> QED
    BY <2>2, FS_Subset, FS_CardinalityType
<1>3. h = Cardinality(all)
  BY <1>1, <1>2, FS_EmptySet DEF Hidden
<1>4. all = {} <=> OwnersOf(n) = {}
  <2>1. \A i \in all : graph.edges[i] \in OwnersOf(n)
    BY DEF OwnerEdges, OwnersOf, EdgeSet, Range
  <2>2. \A e \in OwnersOf(n) : \E i \in all : e = graph.edges[i]
    BY EdgeFacts DEF OwnerEdges, OwnersOf
  <2> QED
    BY <2>1, <2>2
<1>5. all = {} <=> Cardinality(all) = 0
  BY <1>2, FS_EmptySet
<1>6. \A e \in ShownTies : e.dst # n
  BY ShownFacts
<1> HIDE DEF all
<1> QED
  BY <1>2, <1>3, <1>4, <1>5, <1>6

\* A chain that ends at a node without visible owners.
LEMMA EndSound ==
  ASSUME Good(graph), NEW item \in ChainItems, ItemSound(item), Above(item.at) = {}, item.links # <<>>,
         NEW h, h = Hidden(graph, OwnerEdges(graph, item.at, ask.day), ask.clearance),
         NEW c, c = [links |-> item.links, terminal |-> TerminalFor(graph, item.at, item.last, h)]
  PROVE  c \in Chains /\ ChainSound(c)
<1> DEFINE t == TerminalFor(graph, item.at, item.last, h)
<1>1. c.links = item.links /\ c.terminal = t /\ c = [links |-> item.links, terminal |-> t]
  OBVIOUS
<1>2. item.links \in Seq(ShownTies) /\ item.at \in DOMAIN graph.nodes
  BY DEF ChainItems
<1>3. /\ Upwards(item.links) /\ Simple(item.links) /\ Len(item.links) < MaxDepth
      /\ item.at = At(item.links, Len(item.links))
  BY DEF ItemSound
<1>4. Len(item.links) \in 1..MaxDepth
  BY <1>2, <1>3, EmptySeq, LenProperties, WalkAssumption
<1>5. item.links \in UpPaths
  <2>1. SimpleTo(item.links, Len(item.links) - 1)
    BY <1>3, <1>4, WalkAssumption DEF Simple, SimpleTo
  <2> QED
    BY <1>2, <1>3, <1>4, <2>1, UpPathFacts
<1>6. /\ h > 0 => OwnersOf(item.at) # {}
      /\ ~(h > 0) => OwnersOf(item.at) = {}
      /\ \A e \in ShownTies : e.dst # item.at
  BY OwnersHidden
<1>7. Ends(item.links)
  BY <1>3, <1>6 DEF Ends
<1>8. /\ t \in {"restricted", "beneficial_owner", "unresolved", "root"}
      /\ h > 0 <=> t = "restricted"
      /\ t = "root" => ~IsUnresolved(graph, item.at)
  BY DEF TerminalFor, Claim
<1>9. t = "root" => item.at \notin Surrogates
  BY <1>2, <1>8 DEF Good, HasNode
<1> HIDE DEF t
<1>10. c \in Chains
  BY <1>1, <1>2, <1>8 DEF Chains, Terminals
<1> QED
  BY <1>1, <1>3, <1>5, <1>6, <1>7, <1>8, <1>9, <1>10 DEF ChainSound, Complete

------------------------------------------------------------------------------
(* Ownership chains: what the walk makes of the last path of its stack.    *)

Stopping(item) == {i \in Above(item.at) : StopAt(item, graph.edges[i]) # None}
Goes(item) == Those(graph.edges, Above(item.at) \ Stopping(item))
Stops(item) == Those(graph.edges, Stopping(item))

\* s has each of the ties at the positions of I once, all of them ties to an owner of n.
Picks(n, I, s) ==
  /\ s \in Seq(ShownTies)
  /\ \A k \in DOMAIN s : s[k].dst = n /\ \E i \in I : s[k] = graph.edges[i]
  /\ \A i \in I : \E k \in DOMAIN s : s[k] = graph.edges[i]
  /\ \A k, l \in DOMAIN s : s[k] = s[l] => k = l

LEMMA PicksSound ==
  ASSUME Good(graph), NEW n, NEW I, I \subseteq Above(n)
  PROVE  Picks(n, I, Those(graph.edges, I))
<1> DEFINE s == Those(graph.edges, I)
<1>1. /\ \A i \in I : i \in DOMAIN graph.edges /\ graph.edges[i].dst = n /\ graph.edges[i] \in ShownTies
  BY ShownFacts
<1>2. I \subseteq DOMAIN graph.edges
  BY <1>1
<1>3. /\ DOMAIN s = 1..Cardinality(I) /\ Cardinality(I) \in Nat
      /\ \A k \in DOMAIN s : InOrder(I)[k] \in I /\ s[k] = graph.edges[InOrder(I)[k]]
      /\ \A i \in I : \E k \in DOMAIN s : InOrder(I)[k] = i
      /\ \A k, l \in DOMAIN s : InOrder(I)[k] = InOrder(I)[l] => k = l
      /\ s \in Seq(EdgeSet(graph))
  BY <1>2, EdgeFacts, ThoseSound
<1> HIDE DEF s
<1>4. ASSUME NEW k \in DOMAIN s PROVE s[k] \in ShownTies /\ s[k].dst = n /\ \E i \in I : s[k] = graph.edges[i]
  BY <1>1, <1>3
<1>5. s \in Seq(ShownTies)
  <2>1. Len(s) = Cardinality(I) /\ s = [k \in 1..Len(s) |-> s[k]] /\ Len(s) \in Nat
    BY <1>3, LenProperties
  <2>2. \A k \in 1..Len(s) : s[k] \in ShownTies
    BY <1>3, <1>4, <2>1
  <2> QED
    BY <2>1, <2>2
<1>6. \A i \in I : \E k \in DOMAIN s : s[k] = graph.edges[i]
  BY <1>3
<1>7. ASSUME NEW k \in DOMAIN s, NEW l \in DOMAIN s, s[k] = s[l] PROVE k = l
  <2>1. /\ InOrder(I)[k] \in DOMAIN graph.edges /\ InOrder(I)[l] \in DOMAIN graph.edges
        /\ graph.edges[InOrder(I)[k]] = graph.edges[InOrder(I)[l]]
    BY <1>2, <1>3, <1>7
  <2>2. InOrder(I)[k] = InOrder(I)[l]
    BY <2>1, EdgeFacts
  <2> QED
    BY <1>3, <2>2
<1> QED
  BY <1>4, <1>5, <1>6, <1>7 DEF Picks, s

\* The ties the walk goes on over, and those it stops with.
OnTies(item) == {e \in ShownTies : e.dst = item.at /\ StopAt(item, e) = None}
LastTies(item) == {e \in ShownTies : e.dst = item.at /\ StopAt(item, e) # None}

EachOnce(s, ties) ==
  /\ s \in Seq(ShownTies)
  /\ \A k \in DOMAIN s : s[k] \in ties
  /\ \A e \in ties : \E k \in DOMAIN s : s[k] = e
  /\ \A k, l \in DOMAIN s : s[k] = s[l] => k = l

LEMMA PickedOnce ==
  ASSUME NEW n, NEW I, NEW s, Picks(n, I, s), NEW ties,
         \A i \in I : graph.edges[i] \in ties, \A e \in ties : \E i \in I : e = graph.edges[i]
  PROVE  EachOnce(s, ties)
<1>1. \A k \in DOMAIN s : s[k] \in ties
  BY DEF Picks
<1>2. \A e \in ties : \E k \in DOMAIN s : s[k] = e
  BY DEF Picks
<1> QED
  BY <1>1, <1>2 DEF Picks, EachOnce

LEMMA TiesSplit ==
  ASSUME Good(graph), NEW item
  PROVE  EachOnce(Goes(item), OnTies(item)) /\ EachOnce(Stops(item), LastTies(item))
<1> DEFINE on == Above(item.at) \ Stopping(item)
<1>1. \A i : i \in Above(item.at) <=> /\ i \in DOMAIN graph.edges /\ graph.edges[i].dst = item.at
                                      /\ graph.edges[i] \in ShownTies
  BY ShownFacts
<1>2. \A e \in ShownTies : e.dst = item.at => \E i \in Above(item.at) : e = graph.edges[i]
  BY <1>1, ShownFacts
<1>3. \A i \in Above(item.at) : i \in Stopping(item) <=> StopAt(item, graph.edges[i]) # None
  BY DEF Stopping
<1>4. on \subseteq Above(item.at) /\ Stopping(item) \subseteq Above(item.at)
  BY DEF Stopping
<1>5. \A i : i \in on <=> i \in Above(item.at) /\ StopAt(item, graph.edges[i]) = None
  BY <1>3
<1>6. Goes(item) = Those(graph.edges, on) /\ Stops(item) = Those(graph.edges, Stopping(item))
  BY DEF Goes, Stops
<1> HIDE DEF on
<1>7. Picks(item.at, on, Goes(item)) /\ Picks(item.at, Stopping(item), Stops(item))
  BY <1>4, <1>6, PicksSound
<1>8. EachOnce(Goes(item), OnTies(item))
  <2>1. \A i \in on : graph.edges[i] \in OnTies(item)
    BY <1>1, <1>5 DEF OnTies
  <2>2. \A e \in OnTies(item) : \E i \in on : e = graph.edges[i]
    BY <1>2, <1>5 DEF OnTies
  <2> QED
    BY <1>7, <2>1, <2>2, PickedOnce
<1>9. EachOnce(Stops(item), LastTies(item))
  <2>1. \A i \in Stopping(item) : graph.edges[i] \in LastTies(item)
    BY <1>1, <1>3, <1>4 DEF LastTies
  <2>2. \A e \in LastTies(item) : \E i \in Stopping(item) : e = graph.edges[i]
    BY <1>2, <1>3 DEF LastTies
  <2> QED
    BY <1>7, <2>1, <2>2, PickedOnce
<1> QED
  BY <1>8, <1>9

OneOn(q, r) == \E e \in ShownTies : r = Append(q, e)

\* What the walk makes of an item: paths that go on and chains that end, one hop
\* longer or the item's own, and together all that begin like the item.
Parts(item, items, chains) ==
  /\ items \in Seq(ChainItems) /\ chains \in Seq(Chains)
  /\ \A k \in DOMAIN items : ItemSound(items[k]) /\ OneOn(item.links, items[k].links)
  /\ \A k \in DOMAIN chains : /\ ChainSound(chains[k])
                              /\ chains[k].links = item.links \/ OneOn(item.links, chains[k].links)
  /\ \A k, l \in DOMAIN items : Begins(items[k].links, items[l].links) => k = l
  /\ \A k, l \in DOMAIN chains : chains[k].links = chains[l].links => k = l
  /\ \A k \in DOMAIN items, l \in DOMAIN chains : ~Begins(items[k].links, chains[l].links)
  /\ \A p \in UpPaths : Ends(p) /\ Begins(item.links, p) =>
       (\E l \in DOMAIN chains : chains[l].links = p) \/ (\E k \in DOMAIN items : Begins(items[k].links, p))

NewItems(item) == [i \in DOMAIN Goes(item) |-> Hop(item, Goes(item)[i])]
StopChains(item) ==
  [i \in DOMAIN Stops(item) |-> [links |-> Append(item.links, Stops(item)[i]), terminal |-> StopAt(item, Stops(item)[i])]]
EndChain(item) ==
  [links |-> item.links,
   terminal |-> TerminalFor(graph, item.at, item.last,
                            Hidden(graph, OwnerEdges(graph, item.at, ask.day), ask.clearance))]
NewChains(item) ==
  IF Above(item.at) = {} /\ item.links # <<>> THEN <<EndChain(item)>> ELSE StopChains(item)

\* Two hops from one path are one hop when one of the longer paths begins the other.
LEMMA OneFork ==
  ASSUME NEW S, NEW q \in Seq(S), NEW e \in S, NEW f \in S, Begins(Append(q, e), Append(q, f))
  PROVE  e = f
<1>1. /\ Len(Append(q, e)) = Len(q) + 1 /\ Append(q, e)[Len(q) + 1] = e /\ Len(q) \in Nat
      /\ Append(q, f)[Len(q) + 1] = f
  BY AppendProperties, LenProperties
<1>2. Len(q) + 1 \in 1..Len(Append(q, e))
  BY <1>1
<1> QED
  BY <1>1, <1>2 DEF Begins

LEMMA BeginsSelf ==
  ASSUME NEW S, NEW q \in Seq(S)
  PROVE  Begins(q, q)
BY LenProperties DEF Begins

LEMMA NewItemsSound ==
  ASSUME Good(graph), NEW item \in ChainItems, ItemSound(item)
  PROVE  /\ NewItems(item) \in Seq(ChainItems) /\ DOMAIN NewItems(item) = DOMAIN Goes(item)
         /\ \A k \in DOMAIN Goes(item) : /\ ItemSound(NewItems(item)[k]) /\ Goes(item)[k] \in ShownTies
                                         /\ NewItems(item)[k].links = Append(item.links, Goes(item)[k])
<1> DEFINE goes == Goes(item)
           items == NewItems(item)
<1>1. EachOnce(goes, OnTies(item))
  BY TiesSplit
<1>2. items = [i \in DOMAIN goes |-> Hop(item, goes[i])]
  BY DEF NewItems
<1> HIDE DEF goes, items
<1>3. goes \in Seq(ShownTies) /\ \A k \in DOMAIN goes : goes[k] \in OnTies(item)
  BY <1>1 DEF EachOnce
<1>4. DOMAIN goes = 1..Len(goes) /\ Len(goes) \in Nat
  BY <1>3, LenProperties
<1>5. ASSUME NEW k \in DOMAIN goes
      PROVE  /\ items[k] \in ChainItems /\ ItemSound(items[k]) /\ goes[k] \in ShownTies
             /\ items[k].links = Append(item.links, goes[k])
  <2> DEFINE e == goes[k]
  <2>1. e \in ShownTies /\ e.dst = item.at /\ StopAt(item, e) = None
    BY <1>3 DEF OnTies
  <2>2. items[k] = Hop(item, e)
    BY <1>2
  <2> HIDE DEF e
  <2>3. Hop(item, e) \in ChainItems /\ ItemSound(Hop(item, e))
    BY <2>1, HopSound
  <2>4. Hop(item, e).links = Append(item.links, e)
    BY DEF Hop
  <2> QED
    BY <2>1, <2>2, <2>3, <2>4 DEF e
<1>6. items \in Seq(ChainItems) /\ DOMAIN items = DOMAIN goes
  <2>1. items = [k \in 1..Len(goes) |-> items[k]] /\ \A k \in 1..Len(goes) : items[k] \in ChainItems
    BY <1>2, <1>4, <1>5
  <2> QED
    BY <1>2, <1>4, <2>1
<1> QED
  BY <1>5, <1>6 DEF goes, items

LEMMA StopChainsSound ==
  ASSUME Good(graph), NEW item \in ChainItems, ItemSound(item)
  PROVE  /\ StopChains(item) \in Seq(Chains) /\ DOMAIN StopChains(item) = DOMAIN Stops(item)
         /\ \A k \in DOMAIN Stops(item) : /\ ChainSound(StopChains(item)[k]) /\ Stops(item)[k] \in ShownTies
                                          /\ StopChains(item)[k].links = Append(item.links, Stops(item)[k])
<1> DEFINE stops == Stops(item)
           chains == StopChains(item)
<1>1. EachOnce(stops, LastTies(item))
  BY TiesSplit
<1>2. chains = [i \in DOMAIN stops |-> [links |-> Append(item.links, stops[i]), terminal |-> StopAt(item, stops[i])]]
  BY DEF StopChains
<1> HIDE DEF stops, chains
<1>3. stops \in Seq(ShownTies) /\ \A k \in DOMAIN stops : stops[k] \in LastTies(item)
  BY <1>1 DEF EachOnce
<1>4. DOMAIN stops = 1..Len(stops) /\ Len(stops) \in Nat
  BY <1>3, LenProperties
<1>5. ASSUME NEW k \in DOMAIN stops
      PROVE  /\ chains[k] \in Chains /\ ChainSound(chains[k]) /\ stops[k] \in ShownTies
             /\ chains[k].links = Append(item.links, stops[k])
  <2> DEFINE e == stops[k]
  <2>1. e \in ShownTies /\ e.dst = item.at /\ StopAt(item, e) # None
    BY <1>3 DEF LastTies
  <2>2. chains[k] = [links |-> Append(item.links, e), terminal |-> StopAt(item, e)]
    BY <1>2
  <2> HIDE DEF e
  <2>3. chains[k] \in Chains /\ ChainSound(chains[k])
    BY <2>1, <2>2, StopSound
  <2>4. chains[k].links = Append(item.links, e)
    BY <2>2
  <2> QED
    BY <2>1, <2>3, <2>4 DEF e
<1>6. chains \in Seq(Chains) /\ DOMAIN chains = DOMAIN stops
  <2>1. chains = [k \in 1..Len(stops) |-> chains[k]] /\ \A k \in 1..Len(stops) : chains[k] \in Chains
    BY <1>2, <1>4, <1>5
  <2> QED
    BY <1>2, <1>4, <2>1
<1> QED
  BY <1>5, <1>6 DEF stops, chains

LEMMA EndChainSound ==
  ASSUME Good(graph), NEW item \in ChainItems, ItemSound(item), Above(item.at) = {}, item.links # <<>>
  PROVE  EndChain(item) \in Chains /\ ChainSound(EndChain(item)) /\ EndChain(item).links = item.links
<1> DEFINE h == Hidden(graph, OwnerEdges(graph, item.at, ask.day), ask.clearance)
           c == EndChain(item)
<1>1. c = [links |-> item.links, terminal |-> TerminalFor(graph, item.at, item.last, h)]
  BY DEF EndChain
<1> HIDE DEF h, c
<1>2. c.links = item.links
  BY <1>1
<1>3. h = Hidden(graph, OwnerEdges(graph, item.at, ask.day), ask.clearance)
  BY DEF h
<1>4. c \in Chains /\ ChainSound(c)
  BY <1>1, <1>3, EndSound
<1> QED
  BY <1>2, <1>4 DEF c

LEMMA BeginsAt ==
  ASSUME NEW S, NEW q \in Seq(S), NEW p, Begins(q, p), NEW k \in 0..Len(q)
  PROVE  At(p, k) = At(q, k)
<1>1. k # 0 => k \in 1..Len(q)
  BY LenProperties
<1> QED
  BY <1>1 DEF Begins, At

\* How a chain that begins like the item goes on after it.
LEMMA NextTie ==
  ASSUME NEW item \in ChainItems, ItemSound(item), NEW p \in UpPaths, Begins(item.links, p),
         Len(item.links) < Len(p), NEW e, e = p[Len(item.links) + 1]
  PROVE  /\ e \in ShownTies /\ e.dst = item.at /\ Begins(Append(item.links, e), p)
         /\ StopAt(item, e) # None => p = Append(item.links, e)
<1> DEFINE q == Append(item.links, e)
<1>1. /\ item.links \in Seq(ShownTies) /\ p \in Seq(ShownTies) /\ Len(p) \in 1..MaxDepth
      /\ Upwards(p) /\ SimpleTo(p, Len(p) - 1)
  BY UpPathFacts DEF ChainItems
<1>2. /\ Len(item.links) + 1 \in DOMAIN p /\ e \in ShownTies /\ Begins(q, p)
  BY <1>1, BeginsOneMore
<1>3. Len(item.links) \in Nat /\ Len(p) \in Nat
  BY <1>1, LenProperties
<1>4. e.dst = item.at
  <2>1. e.dst = At(p, Len(item.links) + 1 - 1)
    BY <1>1, <1>2 DEF Upwards
  <2>2. Len(item.links) + 1 - 1 = Len(item.links) /\ Len(item.links) \in 0..Len(item.links)
    BY <1>3
  <2>3. At(p, Len(item.links)) = At(item.links, Len(item.links))
    BY <1>1, <2>2, BeginsAt
  <2> QED
    BY <2>1, <2>2, <2>3 DEF ItemSound
<1>5. q = Append(item.links, e)
  OBVIOUS
<1> HIDE DEF q
<1>6. /\ q \in UpPaths /\ Len(q) = Len(item.links) + 1
      /\ Simple(q) <=> e.src[2] \notin item.visited
  BY <1>2, <1>4, <1>5, LongerPath
<1>7. q \in Seq(ShownTies)
  BY <1>6, UpPathFacts
<1>8. ASSUME StopAt(item, e) # None PROVE p = q
  <2>1. SUFFICES ASSUME Len(q) < Len(p) PROVE FALSE
    <3>1. Len(p) <= Len(q) \/ Len(q) < Len(p)
      BY <1>3, <1>6
    <3> QED
      BY <1>1, <1>2, <1>7, <2>1, <3>1, BeginsEqual
  <2>2. \A k \in 0..Len(q) : k \in 0..(Len(p) - 1) /\ At(p, k) = At(q, k)
    BY <1>2, <1>3, <1>6, <1>7, <2>1, BeginsAt
  <2>3. Simple(q)
    BY <1>1, <2>2 DEF Simple, SimpleTo
  <2>4. StopAt(item, e) = "max_depth"
    BY <1>6, <1>8, <2>3, StopFacts
  <2>5. Len(item.links) + 1 >= MaxDepth
    BY <2>4, StopFacts
  <2> QED
    BY <1>1, <1>3, <1>6, <2>1, <2>5, WalkAssumption
<1> QED
  BY <1>2, <1>4, <1>8 DEF q

\* Of the chains that begin like the item, none is the item's path if it goes on.
LEMMA PathCovered ==
  ASSUME Good(graph), NEW item \in ChainItems, ItemSound(item),
         NEW p \in UpPaths, Ends(p), Begins(item.links, p)
  PROVE  \/ p = item.links /\ Above(item.at) = {} /\ item.links # <<>>
         \/ \E k \in DOMAIN Stops(item) : p = Append(item.links, Stops(item)[k])
         \/ \E k \in DOMAIN Goes(item) : Begins(Append(item.links, Goes(item)[k]), p)
<1>1. /\ item.links \in Seq(ShownTies) /\ p \in Seq(ShownTies) /\ Len(p) \in 1..MaxDepth
  BY UpPathFacts DEF ChainItems
<1>2. Len(item.links) \in Nat /\ Len(p) \in Nat
  BY <1>1, LenProperties
<1>3. CASE Len(item.links) < Len(p)
  <2> DEFINE e == p[Len(item.links) + 1]
  <2>1. /\ e \in ShownTies /\ e.dst = item.at /\ Begins(Append(item.links, e), p)
        /\ StopAt(item, e) # None => p = Append(item.links, e)
    BY <1>3, NextTie
  <2> HIDE DEF e
  <2>2. EachOnce(Goes(item), OnTies(item)) /\ EachOnce(Stops(item), LastTies(item))
    BY TiesSplit
  <2>3. CASE StopAt(item, e) = None
    <3>1. e \in OnTies(item)
      BY <2>1, <2>3 DEF OnTies
    <3>2. PICK k \in DOMAIN Goes(item) : Goes(item)[k] = e
      BY <2>2, <3>1 DEF EachOnce
    <3> QED
      BY <2>1, <3>2
  <2>4. CASE StopAt(item, e) # None
    <3>1. e \in LastTies(item)
      BY <2>1, <2>4 DEF LastTies
    <3>2. PICK k \in DOMAIN Stops(item) : Stops(item)[k] = e
      BY <2>2, <3>1 DEF EachOnce
    <3> QED
      BY <2>1, <2>4, <3>2
  <2> QED
    BY <2>3, <2>4
<1>4. CASE ~(Len(item.links) < Len(p))
  <2>1. p = item.links
    <3>1. Len(p) <= Len(item.links)
      BY <1>2, <1>4
    <3> QED
      BY <1>1, <3>1, BeginsEqual
  <2>2. item.links # <<>>
    BY <1>1, <2>1, EmptySeq
  <2>3. \A e \in ShownTies : e.dst # item.at
    <3>1. Simple(item.links) /\ Len(item.links) # MaxDepth /\ item.at = At(item.links, Len(item.links))
      BY <1>2, WalkAssumption DEF ItemSound
    <3> QED
      BY <2>1, <3>1 DEF Ends
  <2>4. Above(item.at) = {}
    BY <2>3, ShownFacts
  <2> QED
    BY <2>1, <2>2, <2>4
<1> QED
  BY <1>3, <1>4

LEMMA PartsSound ==
  ASSUME Good(graph), NEW item \in ChainItems, ItemSound(item)
  PROVE  Parts(item, NewItems(item), NewChains(item))
<1> DEFINE goes == Goes(item)
           stops == Stops(item)
           items == NewItems(item)
           ended == Above(item.at) = {} /\ item.links # <<>>
<1>1. item.links \in Seq(ShownTies)
  BY DEF ChainItems
<1>2. /\ items \in Seq(ChainItems) /\ DOMAIN items = DOMAIN goes
      /\ \A k \in DOMAIN goes : /\ ItemSound(items[k]) /\ goes[k] \in ShownTies
                                /\ items[k].links = Append(item.links, goes[k])
  BY NewItemsSound
<1>3. /\ StopChains(item) \in Seq(Chains) /\ DOMAIN StopChains(item) = DOMAIN stops
      /\ \A k \in DOMAIN stops : /\ ChainSound(StopChains(item)[k]) /\ stops[k] \in ShownTies
                                 /\ StopChains(item)[k].links = Append(item.links, stops[k])
  BY StopChainsSound
<1>4. EachOnce(goes, OnTies(item)) /\ EachOnce(stops, LastTies(item))
  BY TiesSplit
<1> HIDE DEF goes, stops, items
<1>5. ASSUME NEW k \in DOMAIN items, NEW l \in DOMAIN items, Begins(items[k].links, items[l].links) PROVE k = l
  <2>1. goes[k] \in ShownTies /\ goes[l] \in ShownTies /\ Begins(Append(item.links, goes[k]), Append(item.links, goes[l]))
    <3>1. goes[k] \in ShownTies /\ items[k].links = Append(item.links, goes[k])
      BY <1>2
    <3>2. goes[l] \in ShownTies /\ items[l].links = Append(item.links, goes[l])
      BY <1>2
    <3> QED
      BY <1>5, <3>1, <3>2
  <2>2. goes[k] = goes[l]
    BY <1>1, <2>1, OneFork
  <2> QED
    BY <1>2, <1>4, <2>2 DEF EachOnce
<1>6. \A k \in DOMAIN items : ItemSound(items[k]) /\ OneOn(item.links, items[k].links)
  BY <1>2 DEF OneOn
<1>7. CASE ended
  <2> DEFINE chains == <<EndChain(item)>>
  <2>1. NewChains(item) = chains
    BY <1>7 DEF NewChains
  <2>2. EndChain(item) \in Chains /\ ChainSound(EndChain(item)) /\ EndChain(item).links = item.links
    BY <1>7, EndChainSound
  <2>3. chains \in Seq(Chains) /\ DOMAIN chains = {1} /\ chains[1] = EndChain(item)
    BY <2>2
  <2>4. DOMAIN goes = {} /\ DOMAIN stops = {}
    <3>1. \A e \in ShownTies : e.dst # item.at
      BY <1>7, ShownFacts
    <3>2. OnTies(item) = {} /\ LastTies(item) = {}
      BY <3>1 DEF OnTies, LastTies
    <3> QED
      BY <1>4, <3>2 DEF EachOnce
  <2> HIDE DEF chains
  <2>5. ASSUME NEW p \in UpPaths, Ends(p), Begins(item.links, p)
        PROVE  \E l \in DOMAIN chains : chains[l].links = p
    <3>1. p = item.links
      BY <2>4, <2>5, PathCovered DEF goes, stops
    <3> QED
      BY <2>2, <2>3, <3>1
  <2>6. DOMAIN items = {}
    BY <1>2, <2>4
  <2>7. Parts(item, items, chains)
    BY <1>2, <1>6, <2>2, <2>3, <2>5, <2>6 DEF Parts
  <2> QED
    BY <2>1, <2>7 DEF items
<1>8. CASE ~ended
  <2> DEFINE chains == StopChains(item)
  <2>1. NewChains(item) = chains
    BY <1>8 DEF NewChains
  <2>2. /\ chains \in Seq(Chains) /\ DOMAIN chains = DOMAIN stops
        /\ \A k \in DOMAIN stops : /\ ChainSound(chains[k]) /\ stops[k] \in ShownTies
                                   /\ chains[k].links = Append(item.links, stops[k])
    BY <1>3
  <2> HIDE DEF chains
  <2>3. \A k \in DOMAIN chains : ChainSound(chains[k]) /\ OneOn(item.links, chains[k].links)
    BY <2>2 DEF OneOn
  <2>4. ASSUME NEW k \in DOMAIN chains, NEW l \in DOMAIN chains, chains[k].links = chains[l].links PROVE k = l
    <3>1. stops[k] \in ShownTies /\ stops[l] \in ShownTies /\ Append(item.links, stops[k]) = Append(item.links, stops[l])
      BY <2>2, <2>4
    <3>2. Append(item.links, stops[k]) \in Seq(ShownTies)
      BY <1>1, <3>1, AppendProperties
    <3>3. Begins(Append(item.links, stops[k]), Append(item.links, stops[l]))
      BY <3>1, <3>2, BeginsSelf
    <3>4. stops[k] = stops[l]
      BY <1>1, <3>1, <3>3, OneFork
    <3> QED
      BY <1>4, <2>2, <3>4 DEF EachOnce
  <2>5. ASSUME NEW k \in DOMAIN items, NEW l \in DOMAIN chains, Begins(items[k].links, chains[l].links) PROVE FALSE
    <3>1. goes[k] \in ShownTies /\ stops[l] \in ShownTies /\ Begins(Append(item.links, goes[k]), Append(item.links, stops[l]))
      BY <1>2, <2>2, <2>5
    <3>2. goes[k] = stops[l]
      BY <1>1, <3>1, OneFork
    <3> QED
      BY <1>2, <1>4, <2>2, <3>2 DEF EachOnce, OnTies, LastTies
  <2>6. ASSUME NEW p \in UpPaths, Ends(p), Begins(item.links, p)
        PROVE  (\E l \in DOMAIN chains : chains[l].links = p) \/ (\E k \in DOMAIN items : Begins(items[k].links, p))
    <3>1. \/ \E k \in DOMAIN stops : p = Append(item.links, stops[k])
          \/ \E k \in DOMAIN goes : Begins(Append(item.links, goes[k]), p)
      BY <1>8, <2>6, PathCovered DEF goes, stops
    <3> QED
      BY <1>2, <2>2, <3>1
  <2>7. Parts(item, items, chains)
    BY <1>2, <1>5, <1>6, <2>2, <2>3, <2>4, <2>5, <2>6 DEF Parts
  <2> QED
    BY <2>1, <2>7 DEF items
<1> QED
  BY <1>7, <1>8

------------------------------------------------------------------------------
(* Ownership chains: the walk.                                             *)

\* Where things are when t is pushed on the stack s in place of its n-th and last.
PushedAt(n, s, t, r) ==
  /\ \A k \in DOMAIN r :
       \/ k \in DOMAIN s /\ k # n /\ r[k] = s[k]
       \/ k >= n /\ k - (n - 1) \in DOMAIN t /\ r[k] = t[k - (n - 1)]
  /\ \A i \in DOMAIN s : i # n => i \in DOMAIN r /\ r[i] = s[i]
  /\ \A i \in DOMAIN t : n - 1 + i \in DOMAIN r /\ r[n - 1 + i] = t[i]
  /\ DOMAIN r \subseteq Nat /\ n \in DOMAIN s
Pushed(s, t, r) == PushedAt(Len(s), s, t, r)

LEMMA PlacesAfter ==
  ASSUME NEW n \in Nat \ {0}, NEW m \in Nat, NEW s, NEW t, NEW r,
         DOMAIN s = 1..n, DOMAIN t = 1..m, DOMAIN r = 1..(n - 1 + m),
         \A i \in 1..(n - 1) : r[i] = s[i], \A i \in 1..m : r[n - 1 + i] = t[i]
  PROVE  PushedAt(n, s, t, r)
<1>1. ASSUME NEW k \in DOMAIN r
      PROVE  \/ k \in DOMAIN s /\ k # n /\ r[k] = s[k]
             \/ k >= n /\ k - (n - 1) \in DOMAIN t /\ r[k] = t[k - (n - 1)]
  <2>1. CASE k <= n - 1
    BY <2>1
  <2>2. CASE ~(k <= n - 1)
    <3>1. k - (n - 1) \in 1..m /\ n - 1 + (k - (n - 1)) = k /\ k >= n
      BY <2>2
    <3>2. r[n - 1 + (k - (n - 1))] = t[k - (n - 1)]
      BY <3>1
    <3> QED
      BY <3>1, <3>2
  <2> QED
    BY <2>1, <2>2
<1>2. \A i \in DOMAIN s : i # n => i \in DOMAIN r /\ r[i] = s[i]
  OBVIOUS
<1>3. \A i \in DOMAIN t : n - 1 + i \in DOMAIN r /\ r[n - 1 + i] = t[i]
  OBVIOUS
<1>4. DOMAIN r \subseteq Nat /\ n \in DOMAIN s
  OBVIOUS
<1> QED
  BY <1>1, <1>2, <1>3, <1>4 DEF PushedAt

LEMMA StackPlaces ==
  ASSUME NEW S, NEW s \in Seq(S), s # <<>>, NEW t \in Seq(S)
  PROVE  /\ Front(s) \o t \in Seq(S) /\ Pushed(s, t, Front(s) \o t)
         /\ Last(s) = s[Len(s)] /\ Len(s) \in Nat
<1> DEFINE r == Front(s) \o t
<1>1. /\ r \in Seq(S) /\ Len(r) = Len(s) - 1 + Len(t)
      /\ \A i \in 1..(Len(s) - 1) : r[i] = s[i]
      /\ \A i \in 1..Len(t) : r[Len(s) - 1 + i] = t[i]
      /\ Last(s) = s[Len(s)] /\ Len(s) \in Nat \ {0}
  BY StackStep
<1> HIDE DEF r
<1>2. DOMAIN s = 1..Len(s) /\ Len(t) \in Nat /\ DOMAIN t = 1..Len(t) /\ DOMAIN r = 1..(Len(s) - 1 + Len(t))
  BY <1>1, LenProperties
<1>3. Pushed(s, t, r)
  BY <1>1, <1>2, PlacesAfter DEF Pushed
<1> QED
  BY <1>1, <1>3 DEF r

ChainWalk ==
  /\ frontier \in Seq(ChainItems) /\ \A i \in DOMAIN frontier : ItemSound(frontier[i])
  /\ \A i, j \in DOMAIN frontier : Begins(frontier[i].links, frontier[j].links) => i = j

ChainFound ==
  /\ found \in Seq(Chains) /\ \A i \in DOMAIN found : ChainSound(found[i])
  /\ \A i, j \in DOMAIN found : found[i].links = found[j].links => i = j
  /\ \A i \in DOMAIN frontier, j \in DOMAIN found : ~Begins(frontier[i].links, found[j].links)

\* Every chain there is has been found or begins like a path on the stack.
ChainCover ==
  \A p \in UpPaths : Ends(p) =>
    (\E j \in DOMAIN found : found[j].links = p) \/ (\E i \in DOMAIN frontier : Begins(frontier[i].links, p))

ChainInv ==
  /\ Asking("chains")
  /\ IF HasNode(graph, ask.seed) THEN ChainWalk /\ ChainFound /\ ChainCover
                                 ELSE frontier = <<>> /\ found = <<>>

LEMMA SameChains ==
  ASSUME UNCHANGED <<graph, ask>>
  PROVE  /\ ChainItems' = ChainItems /\ UpPaths' = UpPaths
         /\ \A x : ItemSound(x)' <=> ItemSound(x)
         /\ \A c : ChainSound(c)' <=> ChainSound(c)
         /\ \A p : Ends(p)' <=> Ends(p)
         /\ Chains' = Chains
<1>1. ShownTies' = ShownTies
  BY SameTies
<1>2. ChainItems' = ChainItems /\ Chains' = Chains
  BY <1>1 DEF ChainItems, Chains
<1>3. \A p, k : At(p, k)' = At(p, k)
  BY DEF At
<1>4. \A p, n : SimpleTo(p, n)' <=> SimpleTo(p, n)
  BY <1>3 DEF SimpleTo
<1>5. \A p : Simple(p)' <=> Simple(p)
  BY <1>4 DEF Simple
<1>6. \A p : Upwards(p)' <=> Upwards(p)
  BY <1>3 DEF Upwards
<1>7. \A p : Ends(p)' <=> Ends(p)
  BY <1>1, <1>3, <1>5 DEF Ends
<1>8. UpPaths' = UpPaths
  BY <1>1, <1>3, <1>4 DEF UpPaths
<1>9. \A n : OwnersOf(n)' = OwnersOf(n)
  BY DEF OwnersOf, EdgeSet
<1>10. \A x : ItemSound(x)' <=> ItemSound(x)
  BY <1>3, <1>5, <1>6 DEF ItemSound
<1>11. \A c : ChainSound(c)' <=> ChainSound(c)
  BY <1>3, <1>5, <1>7, <1>8, <1>9 DEF ChainSound
<1> QED
  BY <1>2, <1>7, <1>8, <1>10, <1>11

LEMMA OneOnFacts ==
  ASSUME NEW q \in Seq(ShownTies), NEW r, OneOn(q, r), NEW p \in Seq(ShownTies)
  PROVE  ForkOf(q, r, p)
BY BeginsAppend DEF OneOn

Advance(items, chains) ==
  /\ frontier' = Front(frontier) \o items /\ found' = found \o chains
  /\ UNCHANGED <<graph, ask>>

LEMMA StackTop ==
  ASSUME ChainWalk, frontier # <<>>, NEW items \in Seq(ChainItems), NEW chains, Advance(items, chains)
  PROVE  /\ Last(frontier) = frontier[Len(frontier)] /\ Last(frontier) \in ChainItems /\ ItemSound(Last(frontier))
         /\ frontier' \in Seq(ChainItems) /\ PushedAt(Len(frontier), frontier, items, frontier')
         /\ \A i \in DOMAIN frontier : frontier[i].links \in Seq(ShownTies)
<1>1. frontier \in Seq(ChainItems)
  BY DEF ChainWalk
<1>2. frontier' = Front(frontier) \o items
  BY DEF Advance
<1>3. /\ Front(frontier) \o items \in Seq(ChainItems) /\ Pushed(frontier, items, Front(frontier) \o items)
      /\ Last(frontier) = frontier[Len(frontier)]
  BY <1>1, StackPlaces
<1>4. Len(frontier) \in DOMAIN frontier
  BY <1>3 DEF Pushed, PushedAt
<1>5. Last(frontier) \in ChainItems /\ ItemSound(Last(frontier))
  BY <1>1, <1>3, <1>4 DEF ChainWalk
<1>6. PushedAt(Len(frontier), frontier, items, frontier')
  BY <1>2, <1>3 DEF Pushed
<1>7. \A i \in DOMAIN frontier : frontier[i].links \in Seq(ShownTies)
  <2>1. \A i \in DOMAIN frontier : frontier[i] \in ChainItems
    BY <1>1
  <2> QED
    BY <2>1 DEF ChainItems
<1> QED
  BY <1>2, <1>3, <1>5, <1>6, <1>7

LEMMA ChainWalkOn ==
  ASSUME ChainWalk, frontier # <<>>, NEW items, NEW chains,
         Parts(Last(frontier), items, chains), Advance(items, chains)
  PROVE  ChainWalk'
<1> DEFINE n == Len(frontier)
           item == Last(frontier)
           top == n - 1
<1>1. items \in Seq(ChainItems)
  BY DEF Parts
<1>2. /\ item = frontier[n] /\ item \in ChainItems /\ ItemSound(item)
      /\ frontier' \in Seq(ChainItems) /\ PushedAt(n, frontier, items, frontier')
      /\ \A i \in DOMAIN frontier : frontier[i].links \in Seq(ShownTies)
  BY <1>1, StackTop
<1>3. /\ \A k \in DOMAIN items : ItemSound(items[k]) /\ OneOn(item.links, items[k].links)
      /\ \A k, l \in DOMAIN items : Begins(items[k].links, items[l].links) => k = l
  BY DEF Parts
<1>4. /\ \A i \in DOMAIN frontier : ItemSound(frontier[i])
      /\ \A i, j \in DOMAIN frontier : Begins(frontier[i].links, frontier[j].links) => i = j
  BY DEF ChainWalk
<1>5. n \in Nat /\ DOMAIN frontier' \subseteq Nat /\ n \in DOMAIN frontier
  BY <1>2, LenProperties DEF PushedAt, ChainWalk
<1> HIDE DEF item, top
<1>6. \A k \in DOMAIN frontier' :
        \/ k \in DOMAIN frontier /\ k # n /\ frontier'[k] = frontier[k]
        \/ k - top \in DOMAIN items /\ frontier'[k] = items[k - top]
  BY <1>2 DEF PushedAt, top
<1>7. \A k \in DOMAIN items, i \in DOMAIN frontier : ForkOf(item.links, items[k].links, frontier[i].links)
  <2>1. item.links \in Seq(ShownTies)
    BY <1>2, <1>5
  <2> QED
    BY <1>2, <1>3, <2>1, OneOnFacts
<1>8. ASSUME NEW i \in DOMAIN frontier', NEW j \in DOMAIN frontier', Begins(frontier'[i].links, frontier'[j].links)
      PROVE  i = j
  <2>1. CASE /\ i \in DOMAIN frontier /\ i # n /\ frontier'[i] = frontier[i]
             /\ j \in DOMAIN frontier /\ j # n /\ frontier'[j] = frontier[j]
    BY <1>4, <1>8, <2>1
  <2>2. CASE /\ i \in DOMAIN frontier /\ i # n /\ frontier'[i] = frontier[i]
             /\ j - top \in DOMAIN items /\ frontier'[j] = items[j - top]
    <3>1. Begins(frontier[i].links, item.links) \/ Begins(item.links, frontier[i].links)
      BY <1>7, <1>8, <2>2 DEF ForkOf
    <3> QED
      BY <1>2, <1>4, <1>5, <2>2, <3>1
  <2>3. CASE /\ i - top \in DOMAIN items /\ frontier'[i] = items[i - top]
             /\ j \in DOMAIN frontier /\ j # n /\ frontier'[j] = frontier[j]
    <3>1. Begins(item.links, frontier[j].links)
      BY <1>7, <1>8, <2>3 DEF ForkOf
    <3> QED
      BY <1>2, <1>4, <1>5, <2>3, <3>1
  <2>4. CASE /\ i - top \in DOMAIN items /\ frontier'[i] = items[i - top]
             /\ j - top \in DOMAIN items /\ frontier'[j] = items[j - top]
    <3>1. i - top = j - top
      BY <1>3, <1>8, <2>4
    <3> QED
      BY <1>5, <3>1 DEF top
  <2> QED
    BY <1>6, <2>1, <2>2, <2>3, <2>4
<1>9. \A k \in DOMAIN frontier' : ItemSound(frontier'[k])
  BY <1>3, <1>4, <1>6
<1>10. UNCHANGED <<graph, ask>>
  BY DEF Advance
<1>11. ChainItems' = ChainItems /\ \A x : ItemSound(x)' <=> ItemSound(x)
  BY <1>10, SameChains
<1> QED
  BY <1>2, <1>8, <1>9, <1>11 DEF ChainWalk

LEMMA ChainFoundOn ==
  ASSUME ChainWalk, ChainFound, frontier # <<>>, NEW items, NEW chains,
         Parts(Last(frontier), items, chains), Advance(items, chains)
  PROVE  ChainFound'
<1> DEFINE n == Len(frontier)
           item == Last(frontier)
           top == n - 1
           size == Len(found)
<1>1. items \in Seq(ChainItems) /\ chains \in Seq(Chains) /\ found \in Seq(Chains)
  BY DEF Parts, ChainFound
<1>2. /\ item = frontier[n] /\ item \in ChainItems
      /\ PushedAt(n, frontier, items, frontier')
      /\ \A i \in DOMAIN frontier : frontier[i].links \in Seq(ShownTies)
  BY <1>1, StackTop
<1>3. /\ \A k \in DOMAIN items : OneOn(item.links, items[k].links)
      /\ \A k \in DOMAIN chains : /\ ChainSound(chains[k])
                                  /\ chains[k].links = item.links \/ OneOn(item.links, chains[k].links)
      /\ \A k, l \in DOMAIN chains : chains[k].links = chains[l].links => k = l
      /\ \A k \in DOMAIN items, l \in DOMAIN chains : ~Begins(items[k].links, chains[l].links)
  BY DEF Parts
<1>4. \A i, j \in DOMAIN frontier : Begins(frontier[i].links, frontier[j].links) => i = j
  BY DEF ChainWalk
<1>5. /\ \A i \in DOMAIN found : ChainSound(found[i])
      /\ \A i, j \in DOMAIN found : found[i].links = found[j].links => i = j
      /\ \A i \in DOMAIN frontier, j \in DOMAIN found : ~Begins(frontier[i].links, found[j].links)
  BY DEF ChainFound
<1>6. found' = found \o chains /\ UNCHANGED <<graph, ask>>
  BY DEF Advance
<1>7. /\ found' \in Seq(Chains) /\ DOMAIN found' \subseteq Nat /\ size \in Nat
      /\ \A k \in DOMAIN found' :
           \/ k \in DOMAIN found /\ found'[k] = found[k]
           \/ k - size \in DOMAIN chains /\ found'[k] = chains[k - size]
  BY <1>1, <1>6, ConcatPlaces
<1> HIDE DEF item, top, size
<1>8. /\ n \in DOMAIN frontier
      /\ \A k \in DOMAIN frontier' :
           \/ k \in DOMAIN frontier /\ k # n /\ frontier'[k] = frontier[k]
           \/ k - top \in DOMAIN items /\ frontier'[k] = items[k - top]
  BY <1>2 DEF PushedAt, top
<1>9. item.links \in Seq(ShownTies) /\ \A j \in DOMAIN found : found[j].links \in Seq(ShownTies)
  <2>1. \A j \in DOMAIN found : found[j] \in Chains
    BY <1>1
  <2> QED
    BY <1>2, <1>8, <2>1 DEF Chains
<1>10. \A l \in DOMAIN chains : Begins(item.links, chains[l].links)
  <2>1. Begins(item.links, item.links)
    BY <1>9, BeginsSelf
  <2>2. \A l \in DOMAIN chains : OneOn(item.links, chains[l].links) => Begins(item.links, chains[l].links)
    BY <1>9, OneOnFacts DEF ForkOf
  <2> QED
    BY <1>3, <2>1, <2>2
<1>11. ASSUME NEW i \in DOMAIN frontier', NEW j \in DOMAIN found', Begins(frontier'[i].links, found'[j].links) PROVE FALSE
  <2>1. CASE /\ i \in DOMAIN frontier /\ i # n /\ frontier'[i] = frontier[i]
             /\ j \in DOMAIN found /\ found'[j] = found[j]
    BY <1>5, <1>11, <2>1
  <2>2. CASE /\ i \in DOMAIN frontier /\ i # n /\ frontier'[i] = frontier[i]
             /\ j - size \in DOMAIN chains /\ found'[j] = chains[j - size]
    <3>1. CASE chains[j - size].links = item.links
      BY <1>2, <1>4, <1>8, <1>11, <2>2, <3>1
    <3>2. CASE OneOn(item.links, chains[j - size].links)
      <4>1. ForkOf(item.links, chains[j - size].links, frontier[i].links)
        BY <1>2, <1>9, <2>2, <3>2, OneOnFacts
      <4>2. Begins(frontier[i].links, item.links) \/ Begins(item.links, frontier[i].links)
        BY <1>11, <2>2, <4>1 DEF ForkOf
      <4> QED
        BY <1>2, <1>4, <1>8, <2>2, <4>2
    <3> QED
      BY <1>3, <2>2, <3>1, <3>2
  <2>3. CASE /\ i - top \in DOMAIN items /\ frontier'[i] = items[i - top]
             /\ j \in DOMAIN found /\ found'[j] = found[j]
    <3>1. ForkOf(item.links, items[i - top].links, found[j].links)
      BY <1>3, <1>9, <2>3, OneOnFacts
    <3>2. Begins(item.links, found[j].links)
      BY <1>11, <2>3, <3>1 DEF ForkOf
    <3> QED
      BY <1>2, <1>5, <1>8, <2>3, <3>2
  <2>4. CASE /\ i - top \in DOMAIN items /\ frontier'[i] = items[i - top]
             /\ j - size \in DOMAIN chains /\ found'[j] = chains[j - size]
    BY <1>3, <1>11, <2>4
  <2> QED
    BY <1>7, <1>8, <2>1, <2>2, <2>3, <2>4
<1>12. ASSUME NEW i \in DOMAIN found', NEW j \in DOMAIN found', found'[i].links = found'[j].links PROVE i = j
  <2>1. \A k \in DOMAIN found, l \in DOMAIN chains : found[k].links # chains[l].links
    BY <1>2, <1>5, <1>8, <1>10
  <2>2. CASE /\ i \in DOMAIN found /\ found'[i] = found[i]
             /\ j \in DOMAIN found /\ found'[j] = found[j]
    BY <1>5, <1>12, <2>2
  <2>3. CASE /\ i - size \in DOMAIN chains /\ found'[i] = chains[i - size]
             /\ j - size \in DOMAIN chains /\ found'[j] = chains[j - size]
    <3>1. i - size = j - size
      BY <1>3, <1>12, <2>3
    <3> QED
      BY <1>7, <3>1
  <2> QED
    BY <1>7, <1>12, <2>1, <2>2, <2>3
<1>13. \A k \in DOMAIN found' : ChainSound(found'[k])
  BY <1>3, <1>5, <1>7
<1>14. Chains' = Chains /\ \A c : ChainSound(c)' <=> ChainSound(c)
  BY <1>6, SameChains
<1> QED
  BY <1>7, <1>11, <1>12, <1>13, <1>14 DEF ChainFound

LEMMA ChainCoverOn ==
  ASSUME ChainWalk, ChainFound, ChainCover, frontier # <<>>, NEW items, NEW chains,
         Parts(Last(frontier), items, chains), Advance(items, chains)
  PROVE  ChainCover'
<1> DEFINE n == Len(frontier)
           item == Last(frontier)
<1>1. items \in Seq(ChainItems) /\ chains \in Seq(Chains) /\ found \in Seq(Chains)
  BY DEF Parts, ChainFound
<1>2. item = frontier[n] /\ PushedAt(n, frontier, items, frontier')
  BY <1>1, StackTop
<1>3. found' = found \o chains /\ UNCHANGED <<graph, ask>>
  BY DEF Advance
<1>4. /\ \A i \in DOMAIN found : i \in DOMAIN found' /\ found'[i] = found[i]
      /\ \A i \in DOMAIN chains : Len(found) + i \in DOMAIN found' /\ found'[Len(found) + i] = chains[i]
  BY <1>1, <1>3, ConcatPlaces
<1>5. /\ \A i \in DOMAIN frontier : i # n => i \in DOMAIN frontier' /\ frontier'[i] = frontier[i]
      /\ \A i \in DOMAIN items : n - 1 + i \in DOMAIN frontier' /\ frontier'[n - 1 + i] = items[i]
  BY <1>2 DEF PushedAt
<1>6. \A p \in UpPaths : Ends(p) /\ Begins(item.links, p) =>
        (\E l \in DOMAIN chains : chains[l].links = p) \/ (\E k \in DOMAIN items : Begins(items[k].links, p))
  BY DEF Parts
<1> HIDE DEF item, n
<1>7. ASSUME NEW p \in UpPaths, Ends(p)
      PROVE  (\E j \in DOMAIN found' : found'[j].links = p) \/ (\E i \in DOMAIN frontier' : Begins(frontier'[i].links, p))
  <2>1. CASE \E j \in DOMAIN found : found[j].links = p
    BY <1>4, <2>1
  <2>2. CASE \E i \in DOMAIN frontier : i # n /\ Begins(frontier[i].links, p)
    BY <1>5, <2>2
  <2>3. CASE Begins(item.links, p)
    <3>1. CASE \E l \in DOMAIN chains : chains[l].links = p
      BY <1>4, <3>1
    <3>2. CASE \E k \in DOMAIN items : Begins(items[k].links, p)
      BY <1>5, <3>2
    <3> QED
      BY <1>6, <1>7, <2>3, <3>1, <3>2
  <2> QED
    BY <1>2, <1>7, <2>1, <2>2, <2>3 DEF ChainCover
<1>8. UpPaths' = UpPaths /\ \A p : Ends(p)' <=> Ends(p)
  BY <1>3, SameChains
<1> QED
  BY <1>7, <1>8 DEF ChainCover

LEMMA ChainStep ==
  ASSUME Good(graph), ChainInv, FollowChain
  PROVE  ChainInv'
<1> DEFINE item == Last(frontier)
           items == NewItems(item)
           chains == NewChains(item)
<1>1. frontier # <<>> /\ HasNode(graph, ask.seed) /\ ChainWalk /\ ChainFound /\ ChainCover
  BY DEF ChainInv, FollowChain
<1>2. item \in ChainItems /\ ItemSound(item)
  <2>1. frontier \in Seq(ChainItems) /\ <<>> \in Seq(ChainItems)
    BY <1>1 DEF ChainWalk
  <2>2. Last(frontier) = frontier[Len(frontier)] /\ Len(frontier) \in DOMAIN frontier
    BY <1>1, <2>1, StackPlaces DEF Pushed, PushedAt
  <2> QED
    BY <1>1, <2>1, <2>2 DEF ChainWalk
<1>3. UNCHANGED <<graph, ask>>
  BY DEF FollowChain
<1>4. frontier' = Front(frontier) \o items
  BY DEF FollowChain, NewItems, Goes, Stopping, Above
<1>5. found' = IF Above(item.at) = {} /\ item.links # <<>> THEN Append(found, EndChain(item))
               ELSE found \o StopChains(item)
  BY DEF FollowChain, StopChains, EndChain, Stops, Stopping, Above
<1>6. found' = found \o chains
  <2>1. CASE Above(item.at) = {} /\ item.links # <<>>
    <3>1. found \in Seq(Chains) /\ EndChain(item) \in Chains
      BY <1>1, <1>2, <2>1, EndChainSound DEF ChainFound
    <3>2. Append(found, EndChain(item)) = found \o <<EndChain(item)>>
      BY <3>1, AppendIsConcat
    <3> QED
      BY <1>5, <2>1, <3>2 DEF NewChains
  <2>2. CASE ~(Above(item.at) = {} /\ item.links # <<>>)
    BY <1>5, <2>2 DEF NewChains
  <2> QED
    BY <2>1, <2>2
<1>7. Parts(item, items, chains)
  BY <1>2, PartsSound
<1> HIDE DEF items, chains
<1>8. Advance(items, chains)
  BY <1>3, <1>4, <1>6 DEF Advance
<1>9. ChainWalk'
  BY <1>1, <1>7, <1>8, ChainWalkOn
<1>10. ChainFound'
  BY <1>1, <1>7, <1>8, ChainFoundOn
<1>11. ChainCover'
  BY <1>1, <1>7, <1>8, ChainCoverOn
<1>12. Asking("chains")' /\ HasNode(graph, ask.seed)'
  BY <1>1, <1>3 DEF FollowChain, Asking, HasNode
<1> QED
  BY <1>9, <1>10, <1>11, <1>12 DEF ChainInv

LEMMA ChainBegins ==
  ASSUME Good(graph), NoWalk, AskChains
  PROVE  ChainInv'
<1>1. PICK c \in Companies, clearance \in Clearances, day \in Days :
        /\ ask' = [walk |-> "chains", seed |-> c, clearance |-> clearance, day |-> day]
        /\ frontier' = IF HasNode(graph, c)
                       THEN <<[at |-> c, links |-> <<>>, visited |-> {c[2]}, last |-> None]>>
                       ELSE <<>>
  BY DEF AskChains
<1>2. graph' = graph /\ found' = <<>>
  BY DEF AskChains, NoWalk
<1>3. Asking("chains")' /\ ask'.seed = c
  BY <1>1 DEF Asking
<1>4. CASE ~HasNode(graph, c)
  BY <1>1, <1>2, <1>3, <1>4 DEF ChainInv, HasNode
<1>5. CASE HasNode(graph, c)
  <2> DEFINE x == [at |-> c, links |-> <<>>, visited |-> {c[2]}, last |-> None]
  <2>1. frontier' = <<x>> /\ c \in DOMAIN graph.nodes
    BY <1>1, <1>5 DEF HasNode
  <2>2. x.links = <<>> /\ x.at = c /\ x.visited = {c[2]} /\ x.last = None
    OBVIOUS
  <2>3. x \in ChainItems'
    <3>1. <<>> \in Seq(ShownTies') /\ c[2] \in {n[2] : n \in DOMAIN graph.nodes}
      BY <2>1
    <3> QED
      BY <1>2, <2>1, <3>1 DEF ChainItems
  <2> HIDE DEF x
  <2>4. Len(<<>>) = 0 /\ DOMAIN <<>> = {} /\ At(<<>>, 0)' = c
    BY <1>3 DEF At
  <2>5. ItemSound(x)'
    <3>1. Upwards(<<>>)'
      BY <2>4 DEF Upwards
    <3>2. Simple(<<>>)'
      <4>1. \A j \in 0..0 : j = 0
        OBVIOUS
      <4> QED
        BY <2>4, <4>1 DEF Simple, SimpleTo
    <3>3. 0 < MaxDepth
      BY WalkAssumption
    <3>4. {At(<<>>, k)'[2] : k \in 0..0} = {c[2]}
      <4>1. 0..0 = {0}
        OBVIOUS
      <4> QED
        BY <2>4, <4>1
    <3> QED
      BY <2>2, <2>4, <3>1, <3>2, <3>3, <3>4 DEF ItemSound
  <2>6. frontier' \in Seq(ChainItems') /\ DOMAIN frontier' = {1} /\ frontier'[1] = x
    BY <2>1, <2>3
  <2>7. ChainWalk'
    BY <2>5, <2>6 DEF ChainWalk
  <2>8. ChainFound'
    <3>1. found' \in Seq(Chains') /\ DOMAIN found' = {}
      BY <1>2
    <3> QED
      BY <3>1 DEF ChainFound
  <2>9. ChainCover'
    <3>1. \A p \in UpPaths' : Len(p) \in Nat
      <4>1. ASSUME NEW p \in UpPaths' PROVE Len(p) \in Nat
        <5>1. PICK m \in 0..MaxDepth : p \in [1..m -> ShownTies']
          BY DEF UpPaths, SeqOf
        <5> QED
          BY <5>1, WalkAssumption
      <4> QED
        BY <4>1
    <3>2. \A p \in UpPaths' : Begins(x.links, p)
      BY <2>2, <2>4, <3>1 DEF Begins
    <3> QED
      BY <2>6, <3>2 DEF ChainCover
  <2>10. HasNode(graph, ask.seed)'
    BY <1>2, <1>3, <1>5 DEF HasNode
  <2> QED
    BY <1>3, <2>7, <2>8, <2>9, <2>10 DEF ChainInv
<1> QED
  BY <1>4, <1>5

LEMMA ChainEnds ==
  ASSUME ChainInv
  PROVE  ChainsAreAllPaths /\ TerminalsAreHonest
<1>1. CASE ~HasNode(graph, ask.seed)
  <2>1. DOMAIN found = {}
    BY <1>1 DEF ChainInv
  <2>2. Range(found) = {}
    BY <2>1 DEF Range
  <2> QED
    BY <1>1, <2>2 DEF ChainsAreAllPaths, TerminalsAreHonest
<1>2. CASE HasNode(graph, ask.seed)
  <2>1. ChainFound /\ ChainCover
    BY <1>2 DEF ChainInv
  <2>2. \A c \in Range(found) : ChainSound(c)
    BY <2>1 DEF ChainFound, Range
  <2>3. TerminalsAreHonest
    BY <2>2 DEF TerminalsAreHonest, ChainSound
  <2>4. ASSUME Done PROVE {c.links : c \in Range(found)} = {p \in UpPaths : Ends(p)}
    <3>1. DOMAIN frontier = {}
      BY <2>4 DEF Done
    <3>2. \A c \in Range(found) : c.links \in UpPaths /\ Ends(c.links)
      BY <2>2 DEF ChainSound
    <3>3. \A p \in UpPaths : Ends(p) => \E j \in DOMAIN found : found[j].links = p
      BY <2>1, <3>1 DEF ChainCover
    <3>4. \A p \in UpPaths : Ends(p) => \E c \in Range(found) : c.links = p
      BY <3>3 DEF Range
    <3> QED
      BY <3>2, <3>4
  <2>5. \A i, j \in DOMAIN found : found[i].links = found[j].links => i = j
    BY <2>1 DEF ChainFound
  <2> QED
    BY <2>3, <2>4, <2>5 DEF ChainsAreAllPaths
<1> QED
  BY <1>1, <1>2

------------------------------------------------------------------------------
(* Every request, from the first state.                                    *)

\* Between two requests nothing is left of a walk; a walk reads a graph that only
\* WriteEdge wrote, and stands where its own invariant says.
WalksInv ==
  /\ jobs \in Nat
  /\ ask = Idle => NoWalk
  /\ ask # Idle => ~covering /\ jobs = 0 /\ (ChainInv \/ ContagionInv \/ NetworkInv)
  /\ ~covering /\ jobs = 0 => Good(graph)

LEMMA WalksInit == JobsInit => WalksInv
BY TrackedGood DEF JobsInit, NoWalk, WalksInv

\* One step of a walk, or of the jobs that write before it.
LEMMA WalksNext ==
  ASSUME WalksInv, ~covering, jobs = 0, Next, UNCHANGED <<jobs, covering>>
  PROVE  WalksInv'
<1>1. Good(graph) /\ jobs' \in Nat
  BY DEF WalksInv
<1>2. ASSUME NEW e \in Statements \cup CoMentions, WriteEdge(e) PROVE WalksInv'
  <2>1. Good(graph')
    BY <1>1, <1>2, WriteEdgeGood
  <2>2. NoWalk' /\ ask' = Idle
    BY <1>2 DEF WriteEdge, WalksInv, NoWalk
  <2> QED
    BY <1>1, <2>1, <2>2 DEF WalksInv, Good, Identity, HasNode, IsUnresolved, NodeProp
<1>3. ASSUME UNCHANGED graph, ask' # Idle, (ChainInv \/ ContagionInv \/ NetworkInv)' PROVE WalksInv'
  <2>1. Good(graph)'
    BY <1>1, <1>3 DEF Good, Identity, HasNode, IsUnresolved, NodeProp
  <2> QED
    BY <1>1, <1>3, <2>1 DEF WalksInv
<1>4. \A walk \in {"chains", "contagion", "network"} : ask.walk = walk => ask # Idle
  BY DEF Idle
<1>5. \A walk \in {"chains", "contagion", "network"} : ask'.walk = walk => ask' # Idle
  BY DEF Idle
<1>6. CASE IngestOwnership
  BY <1>2, <1>6 DEF IngestOwnership
<1>7. CASE ProjectReferences
  BY <1>2, <1>7 DEF ProjectReferences
<1>8. CASE AskChains
  <2>1. ChainInv'
    BY <1>1, <1>8, ChainBegins DEF AskChains, WalksInv
  <2> QED
    BY <1>3, <1>5, <1>8, <2>1 DEF AskChains, ChainInv, Asking
<1>9. CASE AskContagion
  <2>1. ContagionInv'
    BY <1>1, <1>9, ContagionBegins DEF AskContagion, WalksInv
  <2> QED
    BY <1>3, <1>5, <1>9, <2>1 DEF AskContagion, ContagionInv, Asking
<1>10. CASE AskNetwork
  <2>1. NetworkInv'
    BY <1>1, <1>10, NetworkBegins DEF AskNetwork, WalksInv
  <2> QED
    BY <1>3, <1>5, <1>10, <2>1 DEF AskNetwork, NetworkInv, Asking
<1>11. CASE FollowChain
  <2>1. ChainInv
    BY <1>4, <1>11 DEF FollowChain, WalksInv, ChainInv, ContagionInv, NetworkInv, Asking
  <2>2. ChainInv'
    BY <1>1, <1>11, <2>1, ChainStep
  <2> QED
    BY <1>3, <1>5, <1>11, <2>2 DEF FollowChain, ChainInv, Asking
<1>12. CASE SpreadContagion
  <2>1. ContagionInv
    BY <1>4, <1>12 DEF SpreadContagion, WalksInv, ChainInv, ContagionInv, NetworkInv, Asking
  <2>2. ContagionInv'
    BY <1>1, <1>12, <2>1, ContagionStep
  <2> QED
    BY <1>3, <1>5, <1>12, <2>2 DEF SpreadContagion, ContagionInv, Asking
<1>13. CASE FollowReferences
  <2>1. NetworkInv
    BY <1>4, <1>13 DEF FollowReferences, WalksInv, ChainInv, ContagionInv, NetworkInv, Asking
  <2>2. NetworkInv'
    BY <1>1, <1>13, <2>1, NetworkStep
  <2> QED
    BY <1>3, <1>5, <1>13, <2>2 DEF FollowReferences, NetworkInv, Asking
<1>14. CASE Reply
  <2>1. NoWalk' /\ ask' = Idle /\ UNCHANGED graph
    BY <1>14 DEF Reply, Done, NoWalk
  <2>2. Good(graph)'
    BY <1>1, <2>1 DEF Good, Identity, HasNode, IsUnresolved, NodeProp
  <2> QED
    BY <1>1, <2>1, <2>2 DEF WalksInv
<1> QED
  BY <1>6, <1>7, <1>8, <1>9, <1>10, <1>11, <1>12, <1>13, <1>14 DEF Next

LEMMA Extracting ==
  ASSUME WalksInv, Projecting,
         \/ Publish \/ ExtractRelationships \/ ProjectCompany \/ LinkMentions \/ IngestHoldings
  PROVE  WalksInv'
<1>1. ask = Idle /\ jobs \in Nat /\ NoWalk /\ ~covering
  BY DEF Projecting, WalksInv
<1>2. ASSUME NEW writes, Job(writes)
      PROVE  UNCHANGED <<walkVars, covering>> /\ ((jobs' = jobs /\ graph' = graph) \/ jobs' = jobs + 1)
  BY <1>2 DEF Job, registryVars
<1>3. UNCHANGED <<walkVars, covering>> /\ ((jobs' = jobs /\ graph' = graph) \/ jobs' = jobs + 1)
  <2>1. CASE Publish
    BY <2>1 DEF Publish, registryVars
  <2>2. CASE ExtractRelationships
    BY <1>2, <2>2 DEF ExtractRelationships
  <2>3. CASE ProjectCompany
    BY <1>2, <2>3 DEF ProjectCompany
  <2>4. CASE LinkMentions
    BY <1>2, <2>4 DEF LinkMentions
  <2>5. CASE IngestHoldings
    BY <1>2, <2>5 DEF IngestHoldings
  <2> QED
    BY <2>1, <2>2, <2>3, <2>4, <2>5
<1>4. ask' = Idle /\ NoWalk'
  BY <1>1, <1>3 DEF walkVars, NoWalk
<1>5. jobs' \in Nat /\ (jobs' = 0 => jobs = 0 /\ graph' = graph)
  BY <1>1, <1>3
<1>6. ~covering' /\ jobs' = 0 => Good(graph')
  BY <1>1, <1>5 DEF WalksInv
<1> QED
  BY <1>4, <1>5, <1>6 DEF WalksInv, Good, Identity, HasNode, IsUnresolved, NodeProp

LEMMA Registering ==
  ASSUME WalksInv, covering, RunCoverage \/ RunOwnership \/ ExtractAgain
  PROVE  WalksInv'
<1>1. ask = Idle /\ jobs \in Nat /\ NoWalk
  BY DEF WalksInv
<1>2. jobs' = jobs + 1 /\ UNCHANGED <<walkVars, covering>>
  BY DEF RunCoverage, RunOwnership, ExtractAgain, RegistryJob
<1>3. jobs' \in Nat /\ covering' /\ ask' = Idle /\ NoWalk'
  BY <1>1, <1>2 DEF walkVars, NoWalk
<1> QED
  BY <1>3 DEF WalksInv

LEMMA ChainWaits ==
  ASSUME ChainInv, UNCHANGED vars
  PROVE  ChainInv'
<1>1. UNCHANGED <<graph, ask, frontier, found>>
  BY DEF vars
<1>2. /\ ChainItems' = ChainItems /\ UpPaths' = UpPaths /\ Chains' = Chains
      /\ \A x : ItemSound(x)' <=> ItemSound(x)
      /\ \A c : ChainSound(c)' <=> ChainSound(c)
      /\ \A p : Ends(p)' <=> Ends(p)
  BY <1>1, SameChains
<1>3. ChainWalk => ChainWalk'
  BY <1>1, <1>2 DEF ChainWalk
<1>4. ChainFound => ChainFound'
  BY <1>1, <1>2 DEF ChainFound
<1>5. ChainCover => ChainCover'
  BY <1>1, <1>2 DEF ChainCover
<1> QED
  BY <1>1, <1>3, <1>4, <1>5 DEF ChainInv, Asking, HasNode

LEMMA ContagionWaits ==
  ASSUME ContagionInv, UNCHANGED vars
  PROVE  ContagionInv'
<1>1. UNCHANGED <<graph, ask, frontier, seen, found, withheld>>
  BY DEF vars
<1>2. /\ TieNext' = TieNext /\ Items' = Items /\ Members' = Members
      /\ \A path, n : TiedPath(path, n)' <=> TiedPath(path, n)
      /\ \A X : HiddenAt(X)' = HiddenAt(X)
  BY <1>1, SameTies
<1>3. ContagionWalk => ContagionWalk'
  BY <1>1, <1>2 DEF ContagionWalk
<1>4. ContagionFound => ContagionFound'
  BY <1>1, <1>2 DEF ContagionFound, MemberSound
<1>5. LookedAt' = LookedAt
  BY <1>1, <1>2 DEF LookedAt
<1>6. ContagionCount => ContagionCount'
  BY <1>1, <1>2, <1>5 DEF ContagionCount
<1> QED
  BY <1>1, <1>3, <1>4, <1>6 DEF ContagionInv, Asking, HasNode

LEMMA NetworkWaits ==
  ASSUME NetworkInv, UNCHANGED vars
  PROVE  NetworkInv'
<1>1. UNCHANGED <<graph, ask, frontier, seen, found>>
  BY DEF vars
<1>2. /\ RefNext' = RefNext /\ CiteItems' = CiteItems
      /\ \A path, n : CitedPath(path, n)' <=> CitedPath(path, n)
  BY <1>1, SameReferences
<1>3. NetworkWalk => NetworkWalk'
  BY <1>1, <1>2 DEF NetworkWalk
<1>4. NetworkFound => NetworkFound'
  BY <1>1, <1>2 DEF NetworkFound, EvidenceSound
<1> QED
  BY <1>1, <1>3, <1>4 DEF NetworkInv, Asking, HasNode

LEMMA Waiting ==
  ASSUME WalksInv, UNCHANGED <<vars, jobVars>>
  PROVE  WalksInv'
<1>1. UNCHANGED <<graph, ask, frontier, seen, found, withheld, jobs, covering>>
  BY DEF vars, jobVars, registryVars
<1>2. ~covering /\ jobs = 0 => Good(graph)'
  BY <1>1 DEF WalksInv, Good, Identity, HasNode, IsUnresolved, NodeProp
<1>3. ask = Idle => NoWalk'
  BY <1>1 DEF WalksInv, NoWalk
<1>4. ask # Idle => (ChainInv \/ ContagionInv \/ NetworkInv)'
  <2>1. UNCHANGED vars
    BY <1>1 DEF vars
  <2> QED
    BY <2>1, ChainWaits, ContagionWaits, NetworkWaits DEF WalksInv
<1> QED
  BY <1>1, <1>2, <1>3, <1>4 DEF WalksInv

LEMMA WalksStep == WalksInv /\ [JobsNext]_<<vars, jobVars>> => WalksInv'
<1> SUFFICES ASSUME WalksInv, [JobsNext]_<<vars, jobVars>> PROVE WalksInv'
  OBVIOUS
<1>1. CASE ~covering /\ ~projected /\ published = {} /\ Next /\ UNCHANGED jobVars
  <2>1. jobs = 0
    BY <1>1 DEF projected, WalksInv
  <2> QED
    BY <1>1, <2>1, WalksNext DEF jobVars, registryVars
<1>2. CASE Projecting /\ (Publish \/ ExtractRelationships \/ ProjectCompany \/ LinkMentions \/ IngestHoldings)
  BY <1>2, Extracting
<1>3. CASE covering /\ (RunCoverage \/ RunOwnership \/ ExtractAgain)
  BY <1>3, Registering
<1>4. CASE UNCHANGED <<vars, jobVars>>
  BY <1>4, Waiting
<1> QED
  BY <1>1, <1>2, <1>3, <1>4 DEF JobsNext

LEMMA WalksSound == WalksInv => ChainsSound /\ GroupsSound
<1> SUFFICES ASSUME WalksInv PROVE ChainsSound /\ GroupsSound
  OBVIOUS
<1>1. CASE ask = Idle
  <2>1. ~Asking("chains") /\ ~Asking("contagion") /\ ~Asking("network")
    BY <1>1 DEF Asking, Idle
  <2> QED
    BY <2>1 DEF ChainsSound, ChainsAreAllPaths, TerminalsAreHonest, GroupsSound,
                MembersAtShortestDistance, WithheldAreCounted, EvidenceMatchesDistance
<1>2. CASE ask # Idle /\ ChainInv
  <2>1. ~Asking("contagion") /\ ~Asking("network")
    BY <1>2 DEF ChainInv, Asking
  <2> QED
    BY <1>2, <2>1, ChainEnds DEF ChainsSound, GroupsSound,
                MembersAtShortestDistance, WithheldAreCounted, EvidenceMatchesDistance
<1>3. CASE ask # Idle /\ ContagionInv
  <2>1. ~Asking("chains") /\ ~Asking("network")
    BY <1>3 DEF ContagionInv, Asking
  <2>2. Good(graph)
    BY <1>3 DEF WalksInv
  <2> QED
    BY <1>3, <2>1, <2>2, ContagionEnds DEF ChainsSound, ChainsAreAllPaths, TerminalsAreHonest, GroupsSound,
                EvidenceMatchesDistance
<1>4. CASE ask # Idle /\ NetworkInv
  <2>1. ~Asking("chains") /\ ~Asking("contagion")
    BY <1>4 DEF NetworkInv, Asking
  <2>2. Good(graph)
    BY <1>4 DEF WalksInv
  <2> QED
    BY <1>4, <2>1, <2>2, NetworkEnds DEF ChainsSound, ChainsAreAllPaths, TerminalsAreHonest, GroupsSound,
                MembersAtShortestDistance, WithheldAreCounted
<1> QED
  BY <1>1, <1>2, <1>3, <1>4 DEF WalksInv

\* However many statements and depths there are, ownership_chains returns every
\* path of owners the caller may see, once, up to where it ends, and each chain
\* claims no more than what holds at its end, also where an owner is hidden.
THEOREM ChainsAlwaysSound == JobsSpec => []ChainsSound
<1>1. WalksInv => ChainsSound
  BY WalksSound
<1> QED
  BY <1>1, WalksInit, WalksStep, PTL DEF JobsSpec

\* group_contagion returns each company of the group once, at its shortest
\* distance, over ties the caller may see, and counts what it withholds; the
\* network's walk has evidence of the very length the store's own traversal answers.
THEOREM GroupsAlwaysSound == JobsSpec => []GroupsSound
<1>1. WalksInv => GroupsSound
  BY WalksSound
<1> QED
  BY <1>1, WalksInit, WalksStep, PTL DEF JobsSpec

------------------------------------------------------------------------------
(* Counting up.                                                            *)

\* What is at 0, and with every number at the next, is at all of them.
LEMMA UpTo ==
  ASSUME NEW n \in Nat, NEW S, 0 \in S, \A i \in 1..n : i - 1 \in S => i \in S
  PROVE  \A i \in 0..n : i \in S
<1> SUFFICES ASSUME NEW k \in 0..n, k \notin S PROVE FALSE
  OBVIOUS
<1> DEFINE wrong == {i \in 0..n : i \notin S}
<1>1. wrong \subseteq Nat /\ wrong # {}
  OBVIOUS
<1>2. PICK m \in wrong : \A i \in wrong : m <= i
  <2> HIDE DEF wrong
  <2> QED
    BY <1>1, LeastNumber
<1>3. m \in 1..n /\ m - 1 \in 0..n /\ ~(m <= m - 1)
  BY <1>2
<1>4. m - 1 \in S
  BY <1>2, <1>3
<1> QED
  BY <1>2, <1>3, <1>4

------------------------------------------------------------------------------
(* What a loop over a list leaves.                                         *)

KeptStep(s, E, f, i) == IF s[i] \in E THEN Append(f[i - 1], s[i]) ELSE f[i - 1]
KeptBy(f, s, E, n) == f = [i \in 0..n |-> IF i = 0 THEN <<>> ELSE KeptStep(s, E, f, i)]

LEMMA KeptExists ==
  ASSUME NEW s, NEW E, NEW n \in Nat
  PROVE  \E f : KeptBy(f, s, E, n)
<1> DEFINE S == {m \in 0..n : \E f : KeptBy(f, s, E, m)}
<1>1. 0 \in S
  <2> DEFINE f == [i \in 0..0 |-> <<>>]
  <2>1. KeptBy(f, s, E, 0)
    BY \A i \in 0..0 : i = 0 DEF KeptBy
  <2> QED
    BY <2>1
<1>2. ASSUME NEW m \in 1..n, m - 1 \in S PROVE m \in S
  <2>1. PICK f : KeptBy(f, s, E, m - 1)
    BY <1>2
  <2> DEFINE h == [i \in 0..m |-> IF i = m THEN KeptStep(s, E, f, m) ELSE f[i]]
  <2>2. ASSUME NEW i \in 0..m PROVE h[i] = IF i = 0 THEN <<>> ELSE KeptStep(s, E, h, i)
    <3>1. CASE i = m
      <4>1. h[m - 1] = f[m - 1] /\ i # 0
        BY <3>1
      <4> QED
        BY <3>1, <4>1 DEF KeptStep
    <3>2. CASE i # m
      <4>1. i \in 0..(m - 1) /\ h[i] = f[i] /\ (i # 0 => h[i - 1] = f[i - 1])
        BY <3>2
      <4>2. f[i] = IF i = 0 THEN <<>> ELSE KeptStep(s, E, f, i)
        BY <2>1, <4>1 DEF KeptBy
      <4> QED
        BY <4>1, <4>2 DEF KeptStep
    <3> QED
      BY <3>1, <3>2
  <2>3. h = [i \in 0..m |-> h[i]]
    OBVIOUS
  <2> HIDE DEF h
  <2>4. KeptBy(h, s, E, m)
    BY <2>2, <2>3 DEF KeptBy
  <2> QED
    BY <2>4
<1> HIDE DEF S
<1>3. n \in S
  BY <1>1, <1>2, UpTo
<1> QED
  BY <1>3 DEF S

LEMMA KeptAt ==
  ASSUME NEW s, NEW E, Len(s) \in Nat
  PROVE  \E f : KeptBy(f, s, E, Len(s)) /\ Kept(s, E) = f[Len(s)]
<1> DEFINE f == CHOOSE h : KeptBy(h, s, E, Len(s))
<1>1. Kept(s, E) = f[Len(s)]
  BY DEF Kept, KeptBy, KeptStep
<1>2. KeptBy(f, s, E, Len(s))
  BY KeptExists
<1> QED
  BY <1>1, <1>2

LEMMA KeptOnce ==
  ASSUME NEW s, NEW E, NEW n \in Nat, NEW f, NEW h, KeptBy(f, s, E, n), KeptBy(h, s, E, n)
  PROVE  f[n] = h[n]
<1> DEFINE S == {i \in 0..n : f[i] = h[i]}
<1>1. 0 \in S
  BY DEF KeptBy
<1>2. ASSUME NEW i \in 1..n, i - 1 \in S PROVE i \in S
  <2>1. i \in 0..n /\ i # 0
    OBVIOUS
  <2>2. f[i] = KeptStep(s, E, f, i) /\ h[i] = KeptStep(s, E, h, i)
    BY <2>1 DEF KeptBy
  <2> QED
    BY <1>2, <2>1, <2>2 DEF KeptStep
<1> HIDE DEF S
<1>3. n \in S
  BY <1>1, <1>2, UpTo
<1> QED
  BY <1>3 DEF S

LEMMA KeptNone ==
  ASSUME NEW E
  PROVE  Kept(<<>>, E) = <<>>
<1>1. PICK f : KeptBy(f, <<>>, E, 0) /\ Kept(<<>>, E) = f[0]
  <2>1. Len(<<>>) = 0
    OBVIOUS
  <2> QED
    BY <2>1, KeptAt
<1> QED
  BY <1>1 DEF KeptBy

LEMMA KeptAppend ==
  ASSUME NEW S, NEW s \in Seq(S), NEW x \in S, NEW E
  PROVE  Kept(Append(s, x), E) = IF x \in E THEN Append(Kept(s, E), x) ELSE Kept(s, E)
<1> DEFINE n == Len(s)
           t == Append(s, x)
<1>1. n \in Nat /\ Len(t) = n + 1 /\ t[n + 1] = x /\ \A i \in 1..n : t[i] = s[i]
  BY LenProperties, AppendProperties
<1>2. PICK f : KeptBy(f, s, E, n) /\ Kept(s, E) = f[n]
  BY <1>1, KeptAt
<1>3. PICK h : KeptBy(h, t, E, n + 1) /\ Kept(t, E) = h[n + 1]
  <2>1. Len(t) = n + 1 /\ Len(t) \in Nat
    BY <1>1
  <2> HIDE DEF t, n
  <2>2. \E h : KeptBy(h, t, E, Len(t)) /\ Kept(t, E) = h[Len(t)]
    BY <2>1, KeptAt
  <2> QED
    BY <2>1, <2>2
<1> HIDE DEF t
<1> DEFINE T == {i \in 0..n : f[i] = h[i]}
<1>4. 0 \in T
  BY <1>1, <1>2, <1>3 DEF KeptBy
<1>5. ASSUME NEW i \in 1..n, i - 1 \in T PROVE i \in T
  <2>1. f[i] = KeptStep(s, E, f, i)
    BY <1>1, <1>2 DEF KeptBy
  <2>2. h[i] = KeptStep(t, E, h, i)
    <3>1. i \in 0..(n + 1) /\ i # 0
      BY <1>1
    <3> QED
      BY <1>3, <3>1 DEF KeptBy
  <2> QED
    BY <1>1, <1>5, <2>1, <2>2 DEF KeptStep
<1>6. n \in T
  <2>1. n \in Nat /\ \A i \in 1..n : i - 1 \in T => i \in T
    BY <1>1, <1>5
  <2> HIDE DEF T, n
  <2>2. \A i \in 0..n : i \in T
    BY <1>4, <2>1, UpTo
  <2> QED
    BY <2>1, <2>2
<1>7. h[n + 1] = KeptStep(t, E, h, n + 1)
  <2>1. n + 1 \in 0..(n + 1) /\ n + 1 # 0
    BY <1>1
  <2> QED
    BY <1>3, <2>1 DEF KeptBy
<1>8. n + 1 - 1 = n /\ f[n] = h[n]
  BY <1>1, <1>6
<1> QED
  BY <1>1, <1>2, <1>3, <1>7, <1>8 DEF KeptStep, t

\* What is kept is a list of what is to be kept, all of it; and what is kept of it
\* again is what is kept of the whole.
LEMMA KeptSound ==
  ASSUME NEW s, IsList(s), NEW E
  PROVE  Kept(s, E) \in Seq(Range(s) \cap E) /\ Range(Kept(s, E)) = Range(s) \cap E
<1> DEFINE n == Len(s)
           R == Range(s)
           upTo(i) == {s[j] : j \in 1..i} \cap E
<1>1. s \in Seq(R) /\ n \in Nat /\ DOMAIN s = 1..n /\ R = {s[j] : j \in 1..n}
  BY LenProperties DEF IsList, Range
<1>2. PICK f : KeptBy(f, s, E, n) /\ Kept(s, E) = f[n]
  BY <1>1, KeptAt
<1> DEFINE T == {i \in 0..n : f[i] \in Seq(R \cap E) /\ Range(f[i]) = upTo(i)}
<1>3. 0 \in T
  <2>1. f[0] = <<>>
    BY <1>1, <1>2 DEF KeptBy
  <2>2. upTo(0) = {} /\ Range(<<>>) = {} /\ <<>> \in Seq(R \cap E)
    BY DEF Range
  <2>3. 0 \in 0..n
    BY <1>1
  <2> HIDE DEF n, R, upTo
  <2> QED
    BY <2>1, <2>2, <2>3
<1>4. ASSUME NEW i \in 1..n, i - 1 \in T PROVE i \in T
  <2>1. f[i] = KeptStep(s, E, f, i)
    BY <1>1, <1>2 DEF KeptBy
  <2>2. s[i] \in R /\ f[i - 1] \in Seq(R \cap E) /\ Range(f[i - 1]) = upTo(i - 1)
    BY <1>1, <1>4
  <2>3. {s[j] : j \in 1..i} = {s[j] : j \in 1..(i - 1)} \cup {s[i]}
    <3>1. 1..i = (1..(i - 1)) \cup {i}
      BY <1>1
    <3> QED
      BY <3>1
  <2>4. CASE s[i] \in E
    <3>1. f[i] = Append(f[i - 1], s[i])
      BY <2>1, <2>4 DEF KeptStep
    <3>2. f[i] \in Seq(R \cap E) /\ Range(f[i]) = Range(f[i - 1]) \cup {s[i]}
      <4>1. s[i] \in R \cap E
        BY <2>2, <2>4
      <4>2. /\ f[i] \in Seq(R \cap E) /\ Len(f[i]) = Len(f[i - 1]) + 1
            /\ \A j \in 1..Len(f[i - 1]) : f[i][j] = f[i - 1][j]
            /\ f[i][Len(f[i - 1]) + 1] = s[i]
        BY <2>2, <3>1, <4>1, AppendProperties
      <4>3. /\ DOMAIN f[i] = 1..(Len(f[i - 1]) + 1) /\ DOMAIN f[i - 1] = 1..Len(f[i - 1])
            /\ Len(f[i - 1]) \in Nat
        BY <2>2, <4>2, LenProperties
      <4>4. 1..(Len(f[i - 1]) + 1) = (1..Len(f[i - 1])) \cup {Len(f[i - 1]) + 1}
        BY <4>3
      <4> DEFINE new == f[i]
                 old == f[i - 1]
                 m == Len(old)
      <4>5. /\ DOMAIN new = DOMAIN old \cup {m + 1} /\ new[m + 1] = s[i]
            /\ \A j \in DOMAIN old : new[j] = old[j]
        BY <4>2, <4>3, <4>4
      <4>6. {new[j] : j \in DOMAIN new} = {old[j] : j \in DOMAIN old} \cup {s[i]}
        <5> HIDE DEF new, old, m
        <5> QED
          BY <4>5
      <4> QED
        BY <4>2, <4>6 DEF Range
    <3>3. upTo(i) = upTo(i - 1) \cup {s[i]}
      BY <2>3, <2>4
    <3>4. i \in 0..n
      BY <1>1
    <3> HIDE DEF upTo, n, R
    <3> QED
      BY <2>2, <3>2, <3>3, <3>4
  <2>5. CASE s[i] \notin E
    <3>1. f[i] = f[i - 1]
      BY <2>1, <2>5 DEF KeptStep
    <3> QED
      BY <1>1, <2>2, <2>3, <2>5, <3>1
  <2> QED
    BY <2>4, <2>5
<1>5. n \in T
  <2>1. n \in Nat /\ \A i \in 1..n : i - 1 \in T => i \in T
    BY <1>1, <1>4
  <2> HIDE DEF T, n
  <2>2. \A i \in 0..n : i \in T
    BY <1>3, <2>1, UpTo
  <2> QED
    BY <2>1, <2>2
<1> QED
  BY <1>1, <1>2, <1>5

LEMMA KeptAgain ==
  ASSUME NEW s, IsList(s), NEW E, NEW F, F \cap Range(s) \subseteq E
  PROVE  Kept(Kept(s, E), F) = Kept(s, F)
<1> DEFINE n == Len(s)
           R == Range(s)
<1>1. s \in Seq(R) /\ n \in Nat /\ \A i \in 1..n : s[i] \in R
  BY LenProperties DEF IsList, Range
<1>2. PICK f : KeptBy(f, s, E, n) /\ Kept(s, E) = f[n]
  BY <1>1, KeptAt
<1>3. PICK h : KeptBy(h, s, F, n) /\ Kept(s, F) = h[n]
  BY <1>1, KeptAt
<1> DEFINE T == {i \in 0..n : f[i] \in Seq(R) /\ Kept(f[i], F) = h[i]}
<1> HIDE DEF R
<1>4. 0 \in T
  <2>1. f[0] = <<>> /\ h[0] = <<>>
    BY <1>1, <1>2, <1>3 DEF KeptBy
  <2>2. f[0] \in Seq(R) /\ Kept(f[0], F) = h[0]
    BY <2>1, KeptNone
  <2>3. 0 \in 0..n
    BY <1>1
  <2> HIDE DEF n
  <2> QED
    BY <2>2, <2>3
<1>5. ASSUME NEW i \in 1..n, i - 1 \in T PROVE i \in T
  <2>1. f[i] = KeptStep(s, E, f, i) /\ h[i] = KeptStep(s, F, h, i)
    BY <1>1, <1>2, <1>3 DEF KeptBy
  <2>2. s[i] \in R /\ f[i - 1] \in Seq(R) /\ Kept(f[i - 1], F) = h[i - 1]
    BY <1>1, <1>5
  <2>3. Kept(Append(f[i - 1], s[i]), F)
          = IF s[i] \in F THEN Append(Kept(f[i - 1], F), s[i]) ELSE Kept(f[i - 1], F)
    BY <2>2, KeptAppend
  <2>4. s[i] \in F => s[i] \in E
    BY <2>2 DEF R
  <2>5. f[i] \in Seq(R)
    BY <2>1, <2>2, AppendProperties DEF KeptStep
  <2>6. Kept(f[i], F) = h[i]
    BY <2>1, <2>2, <2>3, <2>4 DEF KeptStep
  <2> QED
    BY <1>1, <2>5, <2>6
<1>6. n \in T
  <2>1. n \in Nat /\ \A i \in 1..n : i - 1 \in T => i \in T
    BY <1>1, <1>5
  <2> HIDE DEF T, n
  <2>2. \A i \in 0..n : i \in T
    BY <1>4, <2>1, UpTo
  <2> QED
    BY <2>1, <2>2
<1> QED
  BY <1>2, <1>3, <1>6

LEMMA ListFacts ==
  ASSUME NEW s, IsList(s)
  PROVE  /\ Len(s) \in Nat /\ DOMAIN s = 1..Len(s)
         /\ \A i \in DOMAIN s : s[i] \in Range(s)
         /\ \A x \in Range(s) : \E i \in DOMAIN s : x = s[i]
BY LenProperties DEF IsList, Range

\* A list of one thing, and none.
LEMMA OneList ==
  ASSUME NEW x
  PROVE  /\ IsList(<<x>>) /\ Range(<<x>>) = {x}
         /\ IsList(<<>>) /\ Range(<<>>) = {}
BY DEF IsList, Range

LEMMA TwoList ==
  ASSUME NEW x, NEW y
  PROVE  IsList(<<x, y>>) /\ Range(<<x, y>>) = {x, y}
<1>1. DOMAIN <<x, y>> = {1, 2} /\ <<x, y>>[1] = x /\ <<x, y>>[2] = y
  OBVIOUS
<1>2. Range(<<x, y>>) = {x, y}
  BY <1>1 DEF Range
<1>3. <<x, y>> \in Seq({x, y})
  OBVIOUS
<1> QED
  BY <1>2, <1>3 DEF IsList

LEMMA BothLists ==
  ASSUME NEW s, IsList(s), NEW t, IsList(t)
  PROVE  IsList(s \o t) /\ Range(s \o t) = Range(s) \cup Range(t)
<1> DEFINE S == Range(s) \cup Range(t)
           r == s \o t
<1>1. s \in Seq(Range(s)) /\ t \in Seq(Range(t))
  BY DEF IsList
<1>2. s \in Seq(S) /\ t \in Seq(S)
  <2>1. Range(s) \subseteq S /\ Range(t) \subseteq S
    OBVIOUS
  <2> HIDE DEF S
  <2> QED
    BY <1>1, <2>1
<1>3. /\ r \in Seq(S) /\ Len(r) = Len(s) + Len(t)
      /\ \A i \in 1..(Len(s) + Len(t)) : r[i] = IF i <= Len(s) THEN s[i] ELSE t[i - Len(s)]
  <2> HIDE DEF S
  <2> QED
    BY <1>2, ConcatProperties
<1>4. /\ Len(s) \in Nat /\ Len(t) \in Nat /\ DOMAIN s = 1..Len(s) /\ DOMAIN t = 1..Len(t)
      /\ DOMAIN r = 1..(Len(s) + Len(t))
  BY <1>1, <1>3, LenProperties
<1> HIDE DEF r
<1>5. ASSUME NEW x \in Range(r) PROVE x \in S
  <2>1. PICK i \in 1..(Len(s) + Len(t)) : x = r[i]
    BY <1>4 DEF Range
  <2>2. CASE i <= Len(s)
    <3>1. i \in DOMAIN s /\ x = s[i]
      BY <1>3, <1>4, <2>1, <2>2
    <3> QED
      BY <3>1 DEF Range
  <2>3. CASE ~(i <= Len(s))
    <3>1. i - Len(s) \in DOMAIN t /\ x = t[i - Len(s)]
      BY <1>3, <1>4, <2>1, <2>3
    <3> QED
      BY <3>1 DEF Range
  <2> QED
    BY <2>2, <2>3
<1>6. ASSUME NEW i \in DOMAIN s PROVE s[i] \in Range(r)
  <2>1. i \in DOMAIN r /\ r[i] = s[i]
    BY <1>3, <1>4
  <2> QED
    BY <2>1 DEF Range
<1>7. ASSUME NEW i \in DOMAIN t PROVE t[i] \in Range(r)
  <2>1. Len(s) + i \in DOMAIN r /\ ~(Len(s) + i <= Len(s)) /\ Len(s) + i - Len(s) = i
    BY <1>4
  <2>2. r[Len(s) + i] = t[i]
    BY <1>3, <1>4, <2>1
  <2> QED
    BY <2>1, <2>2 DEF Range
<1>8. Range(r) = S
  BY <1>5, <1>6, <1>7 DEF Range
<1>9. r \in Seq(Range(r))
  BY <1>3, <1>8
<1> QED
  BY <1>8, <1>9 DEF r, IsList

FlatStep(ss, f, i) == f[i - 1] \o ss[i]
FlatBy(f, ss, n) == f = [i \in 1..n |-> IF i = 1 THEN ss[i] ELSE FlatStep(ss, f, i)]

LEMMA FlatExists ==
  ASSUME NEW ss, NEW n \in Nat
  PROVE  \E f : FlatBy(f, ss, n)
<1> DEFINE S == {m \in 0..n : \E f : FlatBy(f, ss, m)}
<1>1. 0 \in S
  <2> DEFINE f == [i \in 1..0 |-> ss[i]]
  <2>1. FlatBy(f, ss, 0)
    BY \A i \in 1..0 : FALSE DEF FlatBy
  <2> QED
    BY <2>1
<1>2. ASSUME NEW m \in 1..n, m - 1 \in S PROVE m \in S
  <2>1. PICK f : FlatBy(f, ss, m - 1)
    BY <1>2
  <2> DEFINE h == [i \in 1..m |-> IF i = m THEN (IF m = 1 THEN ss[m] ELSE FlatStep(ss, f, m)) ELSE f[i]]
  <2>2. ASSUME NEW i \in 1..m PROVE h[i] = IF i = 1 THEN ss[i] ELSE FlatStep(ss, h, i)
    <3>1. CASE i = m
      <4>1. m # 1 => h[m - 1] = f[m - 1]
        BY <3>1
      <4> QED
        BY <3>1, <4>1 DEF FlatStep
    <3>2. CASE i # m
      <4>1. i \in 1..(m - 1) /\ h[i] = f[i] /\ (i # 1 => h[i - 1] = f[i - 1])
        BY <3>2
      <4>2. f[i] = IF i = 1 THEN ss[i] ELSE FlatStep(ss, f, i)
        BY <2>1, <4>1 DEF FlatBy
      <4> QED
        BY <4>1, <4>2 DEF FlatStep
    <3> QED
      BY <3>1, <3>2
  <2>3. h = [i \in 1..m |-> h[i]]
    OBVIOUS
  <2> HIDE DEF h
  <2>4. FlatBy(h, ss, m)
    BY <2>2, <2>3 DEF FlatBy
  <2> QED
    BY <2>4
<1> HIDE DEF S
<1>3. n \in S
  BY <1>1, <1>2, UpTo
<1> QED
  BY <1>3 DEF S

\* Lists one after the other have what each of them has.
LEMMA Flattened ==
  ASSUME NEW ss, IsList(ss), \A i \in DOMAIN ss : IsList(ss[i])
  PROVE  IsList(FlattenSeq(ss)) /\ Range(FlattenSeq(ss)) = UNION {Range(ss[i]) : i \in DOMAIN ss}
<1> DEFINE n == Len(ss)
           upTo(i) == UNION {Range(ss[j]) : j \in 1..i}
<1>1. n \in Nat /\ DOMAIN ss = 1..n
  BY ListFacts
<1>2. CASE n = 0
  <2>1. FlattenSeq(ss) = ss /\ DOMAIN ss = {}
    BY <1>1, <1>2 DEF FlattenSeq
  <2> QED
    BY <2>1 DEF Range
<1>3. CASE n # 0
  <2> DEFINE f == CHOOSE h : FlatBy(h, ss, n)
  <2>1. FlattenSeq(ss) = f[n]
    BY <1>3 DEF FlattenSeq, FlatBy, FlatStep
  <2>2. FlatBy(f, ss, n)
    BY <1>1, FlatExists
  <2> HIDE DEF f
  <2> DEFINE T == {i \in 0..n : i # 0 => IsList(f[i]) /\ Range(f[i]) = upTo(i)}
  <2>3. 0 \in T
    BY <1>1
  <2>4. ASSUME NEW i \in 1..n, i - 1 \in T PROVE i \in T
    <3>1. f[i] = IF i = 1 THEN ss[i] ELSE FlatStep(ss, f, i)
      BY <1>1, <2>2 DEF FlatBy
    <3>2. IsList(ss[i])
      BY <1>1
    <3>3. i \in 0..n /\ i # 0
      BY <1>1
    <3>4. CASE i = 1
      <4>1. upTo(i) = Range(ss[i])
        <5>1. 1..i = {1}
          BY <3>4
        <5> QED
          BY <3>4, <5>1
      <4> HIDE DEF n, upTo
      <4> QED
        BY <3>1, <3>2, <3>3, <3>4, <4>1
    <3>5. CASE i # 1
      <4>1. IsList(f[i - 1]) /\ Range(f[i - 1]) = upTo(i - 1)
        BY <2>4, <3>5
      <4>2. upTo(i) = upTo(i - 1) \cup Range(ss[i])
        <5>1. 1..i = (1..(i - 1)) \cup {i}
          BY <1>1
        <5> QED
          BY <5>1
      <4> HIDE DEF n, upTo
      <4>3. IsList(f[i - 1] \o ss[i]) /\ Range(f[i - 1] \o ss[i]) = Range(f[i - 1]) \cup Range(ss[i])
        BY <3>2, <4>1, BothLists
      <4>4. f[i] = f[i - 1] \o ss[i]
        BY <3>1, <3>5 DEF FlatStep
      <4> QED
        BY <3>3, <4>1, <4>2, <4>3, <4>4
    <3> QED
      BY <3>4, <3>5
  <2>5. n \in T
    <3>1. \A i \in 1..n : i - 1 \in T => i \in T
      BY <2>4
    <3> HIDE DEF T, n
    <3>2. \A i \in 0..n : i \in T
      BY <1>1, <2>3, <3>1, UpTo
    <3> QED
      BY <1>1, <3>2
  <2> QED
    BY <1>1, <1>3, <2>1, <2>5
<1> QED
  BY <1>2, <1>3

\* The sum of what lines hold is a number.
SumStep(s, c, f, i) == IF s[i].company = c THEN f[i - 1] + s[i].value ELSE f[i - 1]
SumBy(f, s, c, n) == f = [i \in 0..n |-> IF i = 0 THEN 0 ELSE SumStep(s, c, f, i)]

LEMMA SumExists ==
  ASSUME NEW s, NEW c, NEW n \in Nat
  PROVE  \E f : SumBy(f, s, c, n)
<1> DEFINE S == {m \in 0..n : \E f : SumBy(f, s, c, m)}
<1>1. 0 \in S
  <2> DEFINE f == [i \in 0..0 |-> 0]
  <2>1. SumBy(f, s, c, 0)
    BY \A i \in 0..0 : i = 0 DEF SumBy
  <2> QED
    BY <2>1
<1>2. ASSUME NEW m \in 1..n, m - 1 \in S PROVE m \in S
  <2>1. PICK f : SumBy(f, s, c, m - 1)
    BY <1>2
  <2> DEFINE h == [i \in 0..m |-> IF i = m THEN SumStep(s, c, f, m) ELSE f[i]]
  <2>2. ASSUME NEW i \in 0..m PROVE h[i] = IF i = 0 THEN 0 ELSE SumStep(s, c, h, i)
    <3>1. CASE i = m
      <4>1. h[m - 1] = f[m - 1] /\ i # 0
        BY <3>1
      <4> QED
        BY <3>1, <4>1 DEF SumStep
    <3>2. CASE i # m
      <4>1. i \in 0..(m - 1) /\ h[i] = f[i] /\ (i # 0 => h[i - 1] = f[i - 1])
        BY <3>2
      <4>2. f[i] = IF i = 0 THEN 0 ELSE SumStep(s, c, f, i)
        BY <2>1, <4>1 DEF SumBy
      <4> QED
        BY <4>1, <4>2 DEF SumStep
    <3> QED
      BY <3>1, <3>2
  <2>3. h = [i \in 0..m |-> h[i]]
    OBVIOUS
  <2> HIDE DEF h
  <2>4. SumBy(h, s, c, m)
    BY <2>2, <2>3 DEF SumBy
  <2> QED
    BY <2>4
<1> HIDE DEF S
<1>3. n \in S
  BY <1>1, <1>2, UpTo
<1> QED
  BY <1>3 DEF S

LEMMA ValueIsNumber ==
  ASSUME NEW s, IsList(s), \A l \in Range(s) : l.value \in Nat, NEW c
  PROVE  ValueOf(s, c) \in Nat
<1> DEFINE n == Len(s)
           f == CHOOSE h : SumBy(h, s, c, n)
           T == {i \in 0..n : f[i] \in Nat}
<1>1. n \in Nat /\ \A i \in 1..n : s[i].value \in Nat
  BY ListFacts
<1>2. SumBy(f, s, c, n) /\ ValueOf(s, c) = f[n]
  <2>1. SumBy(f, s, c, n)
    BY <1>1, SumExists
  <2> QED
    BY <2>1 DEF ValueOf, SumBy, SumStep
<1> HIDE DEF f
<1>3. 0 \in T
  BY <1>1, <1>2 DEF SumBy
<1>4. \A i \in 1..n : i - 1 \in T => i \in T
  <2> SUFFICES ASSUME NEW i \in 1..n, i - 1 \in T PROVE i \in T
    OBVIOUS
  <2>1. i \in 0..n /\ f[i] = SumStep(s, c, f, i) /\ f[i - 1] \in Nat /\ s[i].value \in Nat
    BY <1>1, <1>2 DEF SumBy
  <2> QED
    BY <2>1 DEF SumStep
<1>5. n \in T
  <2> HIDE DEF T, n
  <2>1. \A i \in 0..n : i \in T
    BY <1>1, <1>3, <1>4, UpTo
  <2> QED
    BY <1>1, <2>1
<1> QED
  BY <1>2, <1>5

------------------------------------------------------------------------------
(* What the jobs write.                                                    *)

\* Nodes that name what companies are grouped by: nothing writes one anew.
Labels == {"Industry", "Sector", "MarketTier"}

IsNode(n) == n = <<n[1], n[2]>>

SoundEdge(e) ==
  /\ e.rel = "operates_in" => e.dst[1] = "Country"
  /\ e.rel = "in_sector" => e.dst[1] = "Industry"
  /\ e.rel = "affects_sector" => e.dst[1] = "Sector"
  /\ e.rel = "in_market_tier" => e.dst[1] = "MarketTier"
  /\ e.rel = "holds" => Numbered(e.props, "value") \in Nat

SoundWrite(w) ==
  /\ w.op \in {"put", "ensure", "link"}
  /\ w.op # "link" => IsNode(w.node)
  /\ w.op = "put" => w.node[1] \notin Labels
  /\ w.op = "link" => SoundEdge(w.edge)

IsGraph(g) == g = [nodes |-> g.nodes, edges |-> g.edges] /\ IsList(g.edges)

\* Between two graphs nothing is taken back, and the labels stay as they are.
GrownTo(g, h) ==
  /\ EdgeSet(g) \subseteq EdgeSet(h) /\ DOMAIN g.nodes \subseteq DOMAIN h.nodes
  /\ \A n \in DOMAIN g.nodes : n[1] \in Labels => h.nodes[n] = g.nodes[n]

LEMMA PutSound ==
  ASSUME NEW g, IsGraph(g), NEW n, NEW props, NEW h, h = UpsertNode(g, n, props)
  PROVE  /\ IsGraph(h) /\ h.edges = g.edges /\ DOMAIN h.nodes = DOMAIN g.nodes \cup {n}
         /\ \A m \in DOMAIN g.nodes : m # n => h.nodes[m] = g.nodes[m]
<1>1. h = [nodes |-> [m \in DOMAIN g.nodes \cup {n} |-> IF m = n THEN props ELSE g.nodes[m]], edges |-> g.edges]
  BY DEF UpsertNode, IsGraph
<1> QED
  BY <1>1 DEF IsGraph

LEMMA LinkSound ==
  ASSUME NEW g, IsGraph(g), NEW e, NEW h, h = UpsertEdge(g, e)
  PROVE  /\ IsGraph(h) /\ h.nodes = g.nodes /\ EdgeSet(g) \subseteq EdgeSet(h)
         /\ \A x \in EdgeSet(h) : x \in EdgeSet(g) \/ x = e
<1>1. CASE \E x \in EdgeSet(g) : Identity(x) = Identity(e)
  BY <1>1 DEF UpsertEdge
<1>2. CASE ~\E x \in EdgeSet(g) : Identity(x) = Identity(e)
  <2>1. h = [nodes |-> g.nodes, edges |-> Append(g.edges, e)]
    BY <1>2 DEF UpsertEdge, IsGraph
  <2>2. g.edges \in Seq(Range(g.edges) \cup {e})
    <3>1. g.edges \in Seq(Range(g.edges))
      BY DEF IsGraph, IsList
    <3> QED
      BY <3>1
  <2>3. Append(g.edges, e) = g.edges \o <<e>>
    BY <2>2, AppendIsConcat
  <2>4. IsList(g.edges \o <<e>>) /\ Range(g.edges \o <<e>>) = Range(g.edges) \cup {e}
    <3>1. IsList(g.edges) /\ IsList(<<e>>) /\ Range(<<e>>) = {e}
      BY OneList DEF IsGraph
    <3> QED
      BY <3>1, BothLists
  <2> QED
    BY <2>1, <2>3, <2>4 DEF IsGraph, EdgeSet
<1> QED
  BY <1>1, <1>2

LEMMA WrittenSound ==
  ASSUME NEW g, IsGraph(g), NEW w, SoundWrite(w), NEW h, h = Written(g, w)
  PROVE  /\ IsGraph(h) /\ GrownTo(g, h)
         /\ \A e \in EdgeSet(h) : e \in EdgeSet(g) \/ (w.op = "link" /\ e = w.edge)
         /\ \A n \in DOMAIN h.nodes : n \in DOMAIN g.nodes \/ (w.op # "link" /\ n = w.node)
         /\ w.op # "link" => w.node \in DOMAIN h.nodes
<1>1. CASE w.op = "link"
  <2>1. h = UpsertEdge(g, w.edge)
    BY <1>1 DEF Written
  <2>2. /\ IsGraph(h) /\ h.nodes = g.nodes /\ EdgeSet(g) \subseteq EdgeSet(h)
        /\ \A x \in EdgeSet(h) : x \in EdgeSet(g) \/ x = w.edge
    BY <2>1, LinkSound
  <2> QED
    BY <1>1, <2>2 DEF GrownTo
<1>2. ASSUME h = UpsertNode(g, w.node, w.props), w.op # "link", w.node[1] \in Labels => w.node \notin DOMAIN g.nodes
      PROVE  /\ IsGraph(h) /\ GrownTo(g, h) /\ EdgeSet(h) = EdgeSet(g)
             /\ DOMAIN h.nodes = DOMAIN g.nodes \cup {w.node}
  <2>1. /\ IsGraph(h) /\ h.edges = g.edges /\ DOMAIN h.nodes = DOMAIN g.nodes \cup {w.node}
        /\ \A m \in DOMAIN g.nodes : m # w.node => h.nodes[m] = g.nodes[m]
    BY <1>2, PutSound
  <2> QED
    BY <1>2, <2>1 DEF GrownTo, EdgeSet
<1>3. CASE w.op = "put"
  <2>1. h = UpsertNode(g, w.node, w.props) /\ w.node[1] \notin Labels
    BY <1>3 DEF Written, SoundWrite
  <2> QED
    BY <1>2, <1>3, <2>1
<1>4. CASE w.op = "ensure"
  <2>1. h = EnsureNode(g, w.node, w.props)
    BY <1>4 DEF Written
  <2>2. CASE HasNode(g, w.node)
    BY <1>4, <2>1, <2>2 DEF EnsureNode, HasNode, GrownTo
  <2>3. CASE ~HasNode(g, w.node)
    BY <1>2, <1>4, <2>1, <2>3 DEF EnsureNode, HasNode
  <2> QED
    BY <2>2, <2>3
<1> QED
  BY <1>1, <1>3, <1>4 DEF SoundWrite

LEMMA GrownFurther ==
  ASSUME NEW g, NEW h, NEW k, GrownTo(g, h), GrownTo(h, k)
  PROVE  GrownTo(g, k)
BY DEF GrownTo

ApplyBy(f, g, ws, n) == f = [i \in 0..n |-> IF i = 0 THEN g ELSE Written(f[i - 1], ws[i])]

LEMMA ApplyExists ==
  ASSUME NEW g, NEW ws, NEW n \in Nat
  PROVE  \E f : ApplyBy(f, g, ws, n)
<1> DEFINE S == {m \in 0..n : \E f : ApplyBy(f, g, ws, m)}
<1>1. 0 \in S
  <2> DEFINE f == [i \in 0..0 |-> g]
  <2>1. ApplyBy(f, g, ws, 0)
    BY \A i \in 0..0 : i = 0 DEF ApplyBy
  <2> QED
    BY <2>1
<1>2. ASSUME NEW m \in 1..n, m - 1 \in S PROVE m \in S
  <2>1. PICK f : ApplyBy(f, g, ws, m - 1)
    BY <1>2
  <2> DEFINE h == [i \in 0..m |-> IF i = m THEN Written(f[m - 1], ws[m]) ELSE f[i]]
  <2>2. ASSUME NEW i \in 0..m PROVE h[i] = IF i = 0 THEN g ELSE Written(h[i - 1], ws[i])
    <3>1. CASE i = m
      <4>1. h[m - 1] = f[m - 1] /\ i # 0
        BY <3>1
      <4> QED
        BY <3>1, <4>1
    <3>2. CASE i # m
      <4>1. i \in 0..(m - 1) /\ h[i] = f[i] /\ (i # 0 => h[i - 1] = f[i - 1])
        BY <3>2
      <4>2. f[i] = IF i = 0 THEN g ELSE Written(f[i - 1], ws[i])
        BY <2>1, <4>1 DEF ApplyBy
      <4> QED
        BY <4>1, <4>2
    <3> QED
      BY <3>1, <3>2
  <2>3. h = [i \in 0..m |-> h[i]]
    OBVIOUS
  <2> HIDE DEF h
  <2>4. ApplyBy(h, g, ws, m)
    BY <2>2, <2>3 DEF ApplyBy
  <2> QED
    BY <2>4
<1> HIDE DEF S
<1>3. n \in S
  BY <1>1, <1>2, UpTo
<1> QED
  BY <1>3 DEF S

\* Writes whose edges lead from nodes that are there, or that one of them makes,
\* to such nodes.
Makes(ws, n) == \E w \in Range(ws) : w.op # "link" /\ n = w.node
Based(ws, N, n) == n \in N \/ Makes(ws, n)
SoundWrites(ws, N) ==
  /\ IsList(ws)
  /\ \A w \in Range(ws) :
       /\ SoundWrite(w)
       /\ w.op = "link" => Based(ws, N, w.edge.src) /\ (w.edge.rel # "mentions" => Based(ws, N, w.edge.dst))

\* A graph that the jobs on the snapshot leave.
SoundGraph(g) ==
  /\ IsGraph(g)
  /\ \A n \in DOMAIN g.nodes : IsNode(n)
  /\ \A e \in EdgeSet(g) :
       SoundEdge(e) /\ HasNode(g, e.src) /\ (e.rel # "mentions" => HasNode(g, e.dst))

LEMMA ApplySound ==
  ASSUME NEW g, SoundGraph(g), NEW ws, SoundWrites(ws, DOMAIN g.nodes)
  PROVE  SoundGraph(Apply(g, ws)) /\ GrownTo(g, Apply(g, ws))
<1> DEFINE n == Len(ws)
           f == CHOOSE h : ApplyBy(h, g, ws, n)
           Sound(i) == /\ IsGraph(f[i]) /\ GrownTo(g, f[i])
                       /\ \A e \in EdgeSet(f[i]) : e \in EdgeSet(g) \/ \E w \in Range(ws) : w.op = "link" /\ e = w.edge
                       /\ \A m \in DOMAIN f[i].nodes : Based(ws, DOMAIN g.nodes, m)
                       /\ \A j \in 1..i : ws[j].op # "link" => ws[j].node \in DOMAIN f[i].nodes
           T == {i \in 0..n : Sound(i)}
<1>1. n \in Nat /\ (\A i \in 1..n : ws[i] \in Range(ws)) /\ (\A w \in Range(ws) : \E i \in 1..n : w = ws[i])
  BY ListFacts DEF SoundWrites
<1>2. ApplyBy(f, g, ws, n) /\ Apply(g, ws) = f[n]
  <2>1. ApplyBy(f, g, ws, n)
    BY <1>1, ApplyExists
  <2> QED
    BY <2>1 DEF Apply, ApplyBy
<1> HIDE DEF f, n
<1>3. 0 \in T
  <2>1. f[0] = g /\ 0 \in 0..n
    BY <1>1, <1>2 DEF ApplyBy
  <2>2. Sound(0)
    BY <2>1 DEF SoundGraph, GrownTo, Based
  <2> QED
    BY <2>1, <2>2
<1>4. ASSUME NEW i \in 1..n, i - 1 \in T PROVE i \in T
  <2>1. i \in 0..n /\ f[i] = Written(f[i - 1], ws[i]) /\ Sound(i - 1)
    <3>1. i \in 0..n /\ i # 0
      BY <1>1
    <3>2. f[i] = Written(f[i - 1], ws[i])
      BY <1>2, <3>1 DEF ApplyBy
    <3>3. Sound(i - 1)
      BY <1>4
    <3> HIDE DEF Sound
    <3> QED
      BY <3>1, <3>2, <3>3
  <2>2. ws[i] \in Range(ws) /\ SoundWrite(ws[i])
    BY <1>1 DEF SoundWrites
  <2>3. /\ IsGraph(f[i]) /\ GrownTo(f[i - 1], f[i])
        /\ \A e \in EdgeSet(f[i]) : e \in EdgeSet(f[i - 1]) \/ (ws[i].op = "link" /\ e = ws[i].edge)
        /\ \A m \in DOMAIN f[i].nodes : m \in DOMAIN f[i - 1].nodes \/ (ws[i].op # "link" /\ m = ws[i].node)
        /\ ws[i].op # "link" => ws[i].node \in DOMAIN f[i].nodes
    BY <2>1, <2>2, WrittenSound
  <2>4. GrownTo(g, f[i])
    BY <2>1, <2>3, GrownFurther
  <2>5. \A e \in EdgeSet(f[i]) : e \in EdgeSet(g) \/ \E w \in Range(ws) : w.op = "link" /\ e = w.edge
    BY <2>1, <2>2, <2>3
  <2>6. \A m \in DOMAIN f[i].nodes : Based(ws, DOMAIN g.nodes, m)
    BY <2>1, <2>2, <2>3 DEF Based, Makes
  <2>7. \A j \in 1..i : ws[j].op # "link" => ws[j].node \in DOMAIN f[i].nodes
    <3>1. \A j \in 1..i : j = i \/ j \in 1..(i - 1)
      BY <1>1
    <3> QED
      BY <2>1, <2>3, <3>1 DEF GrownTo
  <2> QED
    BY <2>1, <2>3, <2>4, <2>5, <2>6, <2>7
<1>5. Sound(n)
  <2>1. \A i \in 1..n : i - 1 \in T => i \in T
    BY <1>4
  <2> HIDE DEF T
  <2>2. \A i \in 0..n : i \in T
    BY <1>1, <1>3, <2>1, UpTo
  <2>3. n \in T
    BY <1>1, <2>2
  <2> QED
    BY <2>3 DEF T
<1>6. \A m : Based(ws, DOMAIN g.nodes, m) <=> m \in DOMAIN f[n].nodes
  <2>1. \A w \in Range(ws) : w.op # "link" => w.node \in DOMAIN f[n].nodes
    BY <1>1, <1>5
  <2> QED
    BY <1>5, <2>1 DEF Based, Makes, GrownTo
<1>7. \A m \in DOMAIN f[n].nodes : IsNode(m)
  BY <1>5 DEF Based, Makes, SoundWrites, SoundWrite, SoundGraph
<1>8. ASSUME NEW e \in EdgeSet(f[n])
      PROVE  SoundEdge(e) /\ HasNode(f[n], e.src) /\ (e.rel # "mentions" => HasNode(f[n], e.dst))
  <2>1. CASE e \in EdgeSet(g)
    BY <1>5, <2>1 DEF SoundGraph, GrownTo, HasNode
  <2>2. CASE \E w \in Range(ws) : w.op = "link" /\ e = w.edge
    BY <1>6, <2>2 DEF SoundWrites, SoundWrite, HasNode
  <2> QED
    BY <1>5, <2>1, <2>2
<1> QED
  BY <1>2, <1>5, <1>7, <1>8 DEF SoundGraph

------------------------------------------------------------------------------
(* Writes one after the other.                                             *)

LEMMA MoreBase ==
  ASSUME NEW ws, NEW N, NEW M, SoundWrites(ws, N), N \subseteq M
  PROVE  SoundWrites(ws, M)
BY DEF SoundWrites, Based

LEMMA BothSound ==
  ASSUME NEW a, NEW b, NEW N, NEW M, SoundWrites(a, N), SoundWrites(b, M), \A n \in M : Based(a, N, n)
  PROVE  SoundWrites(a \o b, N) /\ \A n : Makes(a, n) \/ Makes(b, n) => Makes(a \o b, n)
<1>1. IsList(a \o b) /\ Range(a \o b) = Range(a) \cup Range(b)
  BY BothLists DEF SoundWrites
<1>2. \A n : Makes(a, n) \/ Makes(b, n) => Makes(a \o b, n)
  BY <1>1 DEF Makes
<1>3. \A n : Based(a, N, n) \/ Based(b, M, n) => Based(a \o b, N, n)
  BY <1>2 DEF Based
<1> QED
  BY <1>1, <1>2, <1>3 DEF SoundWrites

LEMMA EachSound ==
  ASSUME NEW s, IsList(s), NEW ss, ss = [i \in DOMAIN s |-> ss[i]],
         NEW N, \A i \in DOMAIN s : SoundWrites(ss[i], N)
  PROVE  /\ SoundWrites(FlattenSeq(ss), N)
         /\ \A i \in DOMAIN s : \A n : Makes(ss[i], n) => Makes(FlattenSeq(ss), n)
<1>0. IsList(ss) /\ DOMAIN ss = DOMAIN s
  <2>1. DOMAIN s = 1..Len(s) /\ Len(s) \in Nat /\ DOMAIN ss = DOMAIN s
    BY ListFacts
  <2>2. \A i \in 1..Len(s) : ss[i] \in Range(ss)
    BY <2>1 DEF Range
  <2>3. [i \in 1..Len(s) |-> ss[i]] \in Seq(Range(ss))
    BY <2>1, <2>2
  <2> QED
    BY <2>1, <2>3 DEF IsList
<1>1. IsList(FlattenSeq(ss)) /\ Range(FlattenSeq(ss)) = UNION {Range(ss[i]) : i \in DOMAIN ss}
  BY <1>0, Flattened DEF SoundWrites
<1>2. \A i \in DOMAIN ss : \A n : Makes(ss[i], n) => Makes(FlattenSeq(ss), n)
  BY <1>1 DEF Makes
<1>3. \A i \in DOMAIN ss : \A n : Based(ss[i], N, n) => Based(FlattenSeq(ss), N, n)
  BY <1>2 DEF Based
<1> QED
  BY <1>0, <1>1, <1>2, <1>3 DEF SoundWrites

LEMMA NothingSound ==
  ASSUME NEW N
  PROVE  SoundWrites(<<>>, N)
BY OneList DEF SoundWrites

LEMMA PutAlone ==
  ASSUME NEW N, NEW n, NEW props, IsNode(n), n[1] \notin Labels
  PROVE  SoundWrites(<<Put(n, props)>>, N) /\ Makes(<<Put(n, props)>>, n)
BY OneList DEF SoundWrites, SoundWrite, Makes, Put

LEMMA LinkAlone ==
  ASSUME NEW N, NEW src \in N, NEW rel, NEW dst, NEW props,
         rel # "mentions" => dst \in N,
         SoundEdge([src |-> src, rel |-> rel, dst |-> dst, props |-> props])
  PROVE  SoundWrites(<<Link2(src, rel, dst, props)>>, N)
BY OneList DEF SoundWrites, SoundWrite, Based, Link2

LEMMA EnsureLink ==
  ASSUME NEW N, NEW src \in N, NEW rel, NEW dst, NEW props, NEW linked, IsNode(dst),
         SoundEdge([src |-> src, rel |-> rel, dst |-> dst, props |-> linked])
  PROVE  /\ SoundWrites(<<Ensure(dst, props), Link2(src, rel, dst, linked)>>, N)
         /\ Makes(<<Ensure(dst, props), Link2(src, rel, dst, linked)>>, dst)
<1> DEFINE ws == <<Ensure(dst, props), Link2(src, rel, dst, linked)>>
<1>1. IsList(ws) /\ Range(ws) = {Ensure(dst, props), Link2(src, rel, dst, linked)}
  BY TwoList
<1>2. Makes(ws, dst)
  <2>1. Ensure(dst, props) \in Range(ws)
    BY <1>1
  <2> HIDE DEF ws
  <2> QED
    BY <2>1 DEF Makes, Ensure
<1> HIDE DEF ws
<1>3. SoundWrites(ws, N)
  BY <1>1, <1>2 DEF SoundWrites, SoundWrite, Based, Ensure, Link2
<1> QED
  BY <1>2, <1>3 DEF ws

LEMMA Node ==
  ASSUME NEW kind, NEW n, IsOf(kind, n)
  PROVE  IsNode(n) /\ n[1] = kind
BY DEF IsOf, IsNode

LEMMA PairNode ==
  ASSUME NEW kind, NEW key
  PROVE  IsNode(<<kind, key>>) /\ <<kind, key>>[1] = kind /\ <<kind, key>>[2] = key
BY DEF IsNode

\* An edge of a relation that nothing is said about.
LEMMA PlainEdge ==
  ASSUME NEW e, e.rel \notin {"operates_in", "in_sector", "affects_sector", "in_market_tier", "holds"}
  PROVE  SoundEdge(e)
BY DEF SoundEdge

TrackedNodes == {c.company : c \in Range(Configured)}

LEMMA ConfiguredFacts ==
  /\ IsList(Configured)
  /\ \A i \in DOMAIN Configured : /\ Configured[i].company \in TrackedNodes
                                  /\ IsNode(Configured[i].company) /\ Configured[i].company[1] = "Company"
  /\ \A n \in TrackedNodes : \E i \in DOMAIN Configured : n = Configured[i].company
<1>1. IsList(Configured) /\ \A c \in Range(Configured) : IsOf("Company", c.company)
  BY JobsAssumption
<1>2. \A i \in DOMAIN Configured : Configured[i] \in Range(Configured)
  BY DEF Range
<1>3. \A c \in Range(Configured) : \E i \in DOMAIN Configured : c = Configured[i]
  BY DEF Range
<1> QED
  BY <1>1, <1>2, <1>3, Node DEF TrackedNodes

LEMMA CompanyNodesSound ==
  ASSUME NEW N
  PROVE  SoundWrites(CompanyNodes(Configured), N) /\ \A n \in TrackedNodes : Makes(CompanyNodes(Configured), n)
<1> DEFINE props(c) == Named(c.company) @@ Optional("cik", c.cik) @@ Optional("gics_code", Prop(c.path, "code"))
           ss == [i \in DOMAIN Configured |-> <<Put(Configured[i].company, props(Configured[i]))>>]
<1>1. CompanyNodes(Configured) = FlattenSeq(ss)
  BY DEF CompanyNodes, Each
<1> HIDE DEF props
<1>2. ASSUME NEW i \in DOMAIN Configured PROVE SoundWrites(ss[i], N) /\ Makes(ss[i], Configured[i].company)
  <2>1. IsNode(Configured[i].company) /\ Configured[i].company[1] \notin Labels
    BY ConfiguredFacts DEF Labels
  <2> QED
    BY <2>1, PutAlone
<1>3. ss = [i \in DOMAIN Configured |-> ss[i]]
  OBVIOUS
<1> HIDE DEF ss
<1>4. /\ SoundWrites(FlattenSeq(ss), N)
      /\ \A i \in DOMAIN Configured : \A n : Makes(ss[i], n) => Makes(FlattenSeq(ss), n)
  BY <1>2, <1>3, ConfiguredFacts, EachSound
<1> QED
  BY <1>1, <1>2, <1>4, ConfiguredFacts

LEMMA SectorEdgesSound == SoundWrites(SectorEdges(Configured), TrackedNodes)
<1> DEFINE industry(c) == <<"Industry", c.industry>>
           writes(c) == IF c.industry = None THEN <<>>
                        ELSE <<Ensure(industry(c), Named(industry(c))),
                               Link2(c.company, "in_sector", industry(c), c.path)>>
           ss == [i \in DOMAIN Configured |-> writes(Configured[i])]
<1>1. SectorEdges(Configured) = FlattenSeq(ss)
  BY DEF SectorEdges, Each
<1>2. ASSUME NEW i \in DOMAIN Configured PROVE SoundWrites(ss[i], TrackedNodes)
  <2> DEFINE c == Configured[i]
             n == industry(c)
  <2>1. c.company \in TrackedNodes
    BY ConfiguredFacts
  <2>2. IsNode(n) /\ n[1] = "Industry"
    BY PairNode
  <2> HIDE DEF c, n
  <2>3. SoundEdge([src |-> c.company, rel |-> "in_sector", dst |-> n, props |-> c.path])
    BY <2>2 DEF SoundEdge
  <2>4. SoundWrites(<<Ensure(n, Named(n)), Link2(c.company, "in_sector", n, c.path)>>, TrackedNodes)
    BY <2>1, <2>2, <2>3, EnsureLink
  <2> QED
    BY <2>4, NothingSound DEF c, n
<1>3. ss = [i \in DOMAIN Configured |-> ss[i]]
  OBVIOUS
<1> HIDE DEF ss
<1> QED
  BY <1>1, <1>2, <1>3, ConfiguredFacts, EachSound

LEMMA MarketTierEdgesSound == SoundWrites(MarketTierEdges(Configured), TrackedNodes)
<1> DEFINE tier(c) == <<"MarketTier", c.tier>>
           writes(c) == IF c.tier = None THEN <<>>
                        ELSE <<Ensure(tier(c), Named(tier(c)) @@ [code |-> c.tier]),
                               Link2(c.company, "in_market_tier", tier(c), <<>>)>>
           ss == [i \in DOMAIN Configured |-> writes(Configured[i])]
<1>1. MarketTierEdges(Configured) = FlattenSeq(ss)
  BY DEF MarketTierEdges, Each
<1>2. ASSUME NEW i \in DOMAIN Configured PROVE SoundWrites(ss[i], TrackedNodes)
  <2> DEFINE c == Configured[i]
             n == tier(c)
             props == Named(n) @@ [code |-> c.tier]
  <2>1. c.company \in TrackedNodes
    BY ConfiguredFacts
  <2>2. IsNode(n) /\ n[1] = "MarketTier"
    BY PairNode
  <2> HIDE DEF c, n, props
  <2>3. SoundEdge([src |-> c.company, rel |-> "in_market_tier", dst |-> n, props |-> <<>>])
    BY <2>2 DEF SoundEdge
  <2>4. SoundWrites(<<Ensure(n, props), Link2(c.company, "in_market_tier", n, <<>>)>>, TrackedNodes)
    BY <2>1, <2>2, <2>3, EnsureLink
  <2> QED
    BY <2>4, NothingSound DEF c, n, props
<1>3. ss = [i \in DOMAIN Configured |-> ss[i]]
  OBVIOUS
<1> HIDE DEF ss
<1> QED
  BY <1>1, <1>2, <1>3, ConfiguredFacts, EachSound

------------------------------------------------------------------------------
(* What the documents say.                                                 *)

IsDocument(d) ==
  /\ IsNode(d.node) /\ d.node[1] \notin Labels
  /\ IsList(d.names) /\ IsList(d.mentions) /\ IsList(d.subsidiaries)
  /\ IsList(d.officers) /\ IsList(d.directors)
  /\ Range(d.names) \subseteq TrackedNodes

AreDocuments(documents) == IsList(documents) /\ \A d \in Range(documents) : IsDocument(d)

LEMMA CorpusSound == AreDocuments(Corpus)
<1> SUFFICES ASSUME NEW d \in Range(Corpus) PROVE IsDocument(d)
  BY JobsAssumption DEF AreDocuments
<1>1. \A list \in {"names", "mentions", "subsidiaries", "officers", "directors"} : IsList(d[list])
  BY JobsAssumption
<1>2. \A n \in Range(d.names) : n \in TrackedNodes
  BY JobsAssumption DEF TrackedNodes
<1>3. IsOf("Filing", d.node) \/ IsOf("Document", d.node)
  BY JobsAssumption
<1>4. IsNode(d.node) /\ d.node[1] \notin Labels
  BY <1>3, Node DEF Labels
<1>5. IsList(d.names) /\ IsList(d.mentions) /\ IsList(d.subsidiaries) /\ IsList(d.officers) /\ IsList(d.directors)
  BY <1>1
<1> QED
  BY <1>2, <1>4, <1>5 DEF IsDocument

LEMMA KeptList ==
  ASSUME NEW s, IsList(s), NEW E
  PROVE  IsList(Kept(s, E)) /\ Range(Kept(s, E)) = Range(s) \cap E
BY KeptSound DEF IsList

LEMMA DocumentsOfSound ==
  ASSUME NEW documents, AreDocuments(documents), NEW c
  PROVE  AreDocuments(DocumentsOf(documents, c))
BY KeptList DEF AreDocuments, DocumentsOf

\* The writes of one company's documents.
ReferencesOf(c, documents) ==
  Each(LAMBDA d : Each(LAMBDA n : IF n = c.company THEN <<>>
                                  ELSE <<Link2(c.company, "references", n, [source_uri |-> d.node[2]])>>,
                       d.names), documents)

LEMMA ReferencesOfOne ==
  ASSUME NEW c, c.company \in TrackedNodes, NEW documents, AreDocuments(documents)
  PROVE  SoundWrites(ReferencesOf(c, documents), TrackedNodes)
<1> DEFINE link(d, n) == IF n = c.company THEN <<>>
                         ELSE <<Link2(c.company, "references", n, [source_uri |-> d.node[2]])>>
           links(d) == [k \in DOMAIN d.names |-> link(d, d.names[k])]
           ss == [i \in DOMAIN documents |-> FlattenSeq(links(documents[i]))]
<1>1. ASSUME NEW i \in DOMAIN documents PROVE SoundWrites(ss[i], TrackedNodes)
  <2> DEFINE d == documents[i]
             ts == links(d)
  <2>1. IsDocument(d)
    BY ListFacts DEF AreDocuments
  <2>2. IsList(d.names)
    BY <2>1 DEF IsDocument
  <2>3. ASSUME NEW k \in DOMAIN d.names PROVE SoundWrites(ts[k], TrackedNodes)
    <3> DEFINE n == d.names[k]
               uri == [source_uri |-> d.node[2]]
    <3>1. n \in TrackedNodes
      BY <2>1, ListFacts DEF IsDocument
    <3>2. ts[k] = link(d, n)
      OBVIOUS
    <3>3. SoundEdge([src |-> c.company, rel |-> "references", dst |-> n, props |-> uri])
      BY PlainEdge
    <3> HIDE DEF n, uri
    <3>4. SoundWrites(<<Link2(c.company, "references", n, uri)>>, TrackedNodes)
      BY <3>1, <3>3, LinkAlone
    <3> QED
      BY <3>2, <3>4, NothingSound DEF uri
  <2>4. ts = [k \in DOMAIN d.names |-> ts[k]]
    OBVIOUS
  <2>5. ss[i] = FlattenSeq(ts)
    OBVIOUS
  <2> HIDE DEF ts, d
  <2> QED
    BY <2>2, <2>3, <2>4, <2>5, EachSound
<1>2. ss = [i \in DOMAIN documents |-> ss[i]]
  OBVIOUS
<1>3. SoundWrites(FlattenSeq(ss), TrackedNodes)
  <2> HIDE DEF ss
  <2> QED
    BY <1>1, <1>2, EachSound DEF AreDocuments
<1> QED
  BY <1>3 DEF ReferencesOf, Each

LEMMA ReferenceEdgesSound ==
  ASSUME NEW documents, AreDocuments(documents)
  PROVE  SoundWrites(ReferenceEdges(Configured, documents), TrackedNodes)
<1> DEFINE ss == [i \in DOMAIN Configured |->
                    ReferencesOf(Configured[i], DocumentsOf(documents, Configured[i]))]
<1>1. ReferenceEdges(Configured, documents) = FlattenSeq(ss)
  BY DEF ReferenceEdges, Each, ReferencesOf
<1>2. \A i \in DOMAIN Configured : SoundWrites(ss[i], TrackedNodes)
  BY ConfiguredFacts, DocumentsOfSound, ReferencesOfOne
<1>3. ss = [i \in DOMAIN Configured |-> ss[i]]
  OBVIOUS
<1> HIDE DEF ss
<1> QED
  BY <1>1, <1>2, <1>3, ConfiguredFacts, EachSound

SubsidiariesOf(c, documents) ==
  Each(LAMBDA d :
         Each(LAMBDA s : LET n == <<"Subsidiary", s.key>>
                         IN  <<Ensure(n, Named(n)),
                               Link2(c.company, "has_subsidiary", n,
                                     [jurisdiction |-> s.jurisdiction, source_uri |-> d.node[2]])>>,
              d.subsidiaries), documents)

LEMMA SubsidiariesOfOne ==
  ASSUME NEW c, c.company \in TrackedNodes, NEW documents, AreDocuments(documents)
  PROVE  SoundWrites(SubsidiariesOf(c, documents), TrackedNodes)
<1> DEFINE node(s) == <<"Subsidiary", s.key>>
           props(d, s) == [jurisdiction |-> s.jurisdiction, source_uri |-> d.node[2]]
           link(d, s) == <<Ensure(node(s), Named(node(s))), Link2(c.company, "has_subsidiary", node(s), props(d, s))>>
           links(d) == [k \in DOMAIN d.subsidiaries |-> link(d, d.subsidiaries[k])]
           ss == [i \in DOMAIN documents |-> FlattenSeq(links(documents[i]))]
<1>1. ASSUME NEW i \in DOMAIN documents PROVE SoundWrites(ss[i], TrackedNodes)
  <2> DEFINE d == documents[i]
             ts == links(d)
  <2>1. IsDocument(d)
    BY ListFacts DEF AreDocuments
  <2>2. IsList(d.subsidiaries)
    BY <2>1 DEF IsDocument
  <2>3. ASSUME NEW k \in DOMAIN d.subsidiaries PROVE SoundWrites(ts[k], TrackedNodes)
    <3> DEFINE n == node(d.subsidiaries[k])
               linked == props(d, d.subsidiaries[k])
    <3>1. ts[k] = <<Ensure(n, Named(n)), Link2(c.company, "has_subsidiary", n, linked)>>
      OBVIOUS
    <3>2. SoundEdge([src |-> c.company, rel |-> "has_subsidiary", dst |-> n, props |-> linked])
      BY PlainEdge
    <3>3. IsNode(n)
      BY PairNode
    <3> HIDE DEF n, linked
    <3> QED
      BY <3>1, <3>2, <3>3, EnsureLink
  <2>4. ts = [k \in DOMAIN d.subsidiaries |-> ts[k]]
    OBVIOUS
  <2>5. ss[i] = FlattenSeq(ts)
    OBVIOUS
  <2> HIDE DEF ts, d
  <2> QED
    BY <2>2, <2>3, <2>4, <2>5, EachSound
<1>2. ss = [i \in DOMAIN documents |-> ss[i]]
  OBVIOUS
<1>3. SoundWrites(FlattenSeq(ss), TrackedNodes)
  <2> HIDE DEF ss
  <2> QED
    BY <1>1, <1>2, EachSound DEF AreDocuments
<1> QED
  BY <1>3 DEF SubsidiariesOf, Each

LEMMA SubsidiaryEdgesSound ==
  ASSUME NEW documents, AreDocuments(documents)
  PROVE  SoundWrites(SubsidiaryEdges(Configured, documents), TrackedNodes)
<1> DEFINE ss == [i \in DOMAIN Configured |->
                    SubsidiariesOf(Configured[i], DocumentsOf(documents, Configured[i]))]
<1>1. SubsidiaryEdges(Configured, documents) = FlattenSeq(ss)
  BY DEF SubsidiaryEdges, Each, SubsidiariesOf
<1>2. \A i \in DOMAIN Configured : SoundWrites(ss[i], TrackedNodes)
  BY ConfiguredFacts, DocumentsOfSound, SubsidiariesOfOne
<1>3. ss = [i \in DOMAIN Configured |-> ss[i]]
  OBVIOUS
<1> HIDE DEF ss
<1> QED
  BY <1>1, <1>2, <1>3, ConfiguredFacts, EachSound

\* The people of one list, but for the officers among the directors.
PeopleLinks(c, people, rel, officers) ==
  Each(LAMBDA p : IF rel = "board_member" /\ p \in officers THEN <<>>
                  ELSE <<Ensure(<<"Person", p>>, [name |-> p]), Link2(c.company, rel, <<"Person", p>>, <<>>)>>,
       people)

LEMMA PeopleLinksSound ==
  ASSUME NEW c, c.company \in TrackedNodes, NEW people, IsList(people),
         NEW rel \in {"employs", "board_member"}, NEW officers
  PROVE  SoundWrites(PeopleLinks(c, people, rel, officers), TrackedNodes)
<1> DEFINE link(p) == IF rel = "board_member" /\ p \in officers THEN <<>>
                      ELSE <<Ensure(<<"Person", p>>, [name |-> p]), Link2(c.company, rel, <<"Person", p>>, <<>>)>>
           ss == [k \in DOMAIN people |-> link(people[k])]
<1>1. ASSUME NEW k \in DOMAIN people PROVE SoundWrites(ss[k], TrackedNodes)
  <2> DEFINE p == people[k]
             n == <<"Person", p>>
             props == [name |-> p]
  <2>1. ss[k] = link(p)
    OBVIOUS
  <2>2. SoundEdge([src |-> c.company, rel |-> rel, dst |-> n, props |-> <<>>])
    BY PlainEdge
  <2>3. IsNode(n)
    BY PairNode
  <2> HIDE DEF n, props
  <2>4. SoundWrites(<<Ensure(n, props), Link2(c.company, rel, n, <<>>)>>, TrackedNodes)
    BY <2>2, <2>3, EnsureLink
  <2> QED
    BY <2>1, <2>4, NothingSound DEF n, props
<1>2. ss = [k \in DOMAIN people |-> ss[k]]
  OBVIOUS
<1>3. SoundWrites(FlattenSeq(ss), TrackedNodes)
  <2> HIDE DEF ss
  <2> QED
    BY <1>1, <1>2, EachSound
<1> QED
  BY <1>3 DEF PeopleLinks, Each

PeopleOf(c, filings) ==
  Each(LAMBDA d : PeopleLinks(c, d.officers, "employs", UNION {Range(filings[i].officers) : i \in DOMAIN filings})
               \o PeopleLinks(c, d.directors, "board_member", UNION {Range(filings[i].officers) : i \in DOMAIN filings}),
       filings)

LEMMA PeopleOfOne ==
  ASSUME NEW c, c.company \in TrackedNodes, NEW filings, AreDocuments(filings)
  PROVE  SoundWrites(PeopleOf(c, filings), TrackedNodes)
<1> DEFINE officers == UNION {Range(filings[i].officers) : i \in DOMAIN filings}
           links(d) == PeopleLinks(c, d.officers, "employs", officers)
                         \o PeopleLinks(c, d.directors, "board_member", officers)
           ss == [i \in DOMAIN filings |-> links(filings[i])]
<1>1. PeopleOf(c, filings) = FlattenSeq(ss)
  BY DEF PeopleOf, Each
<1> HIDE DEF officers
<1>2. ASSUME NEW i \in DOMAIN filings PROVE SoundWrites(ss[i], TrackedNodes)
  <2> DEFINE d == filings[i]
  <2>1. IsList(d.officers) /\ IsList(d.directors)
    BY ListFacts DEF AreDocuments, IsDocument
  <2>2. ss[i] = links(d)
    OBVIOUS
  <2> HIDE DEF d
  <2>3. SoundWrites(PeopleLinks(c, d.officers, "employs", officers), TrackedNodes)
    BY <2>1, PeopleLinksSound
  <2>4. SoundWrites(PeopleLinks(c, d.directors, "board_member", officers), TrackedNodes)
    BY <2>1, PeopleLinksSound
  <2>5. SoundWrites(links(d), TrackedNodes)
    BY <2>3, <2>4, BothSound DEF Based
  <2> QED
    BY <2>2, <2>5
<1>3. ss = [i \in DOMAIN filings |-> ss[i]]
  OBVIOUS
<1> HIDE DEF ss
<1> QED
  BY <1>1, <1>2, <1>3, EachSound DEF AreDocuments

LEMMA PeopleEdgesSound ==
  ASSUME NEW documents, AreDocuments(documents)
  PROVE  SoundWrites(PeopleEdges(Configured, documents), TrackedNodes)
<1> DEFINE ss == [i \in DOMAIN Configured |->
                    PeopleOf(Configured[i], DocumentsOf(documents, Configured[i]))]
<1>1. PeopleEdges(Configured, documents) = FlattenSeq(ss)
  BY DEF PeopleEdges, Each, PeopleOf, PeopleLinks
<1>2. \A i \in DOMAIN Configured : SoundWrites(ss[i], TrackedNodes)
  BY ConfiguredFacts, DocumentsOfSound, PeopleOfOne
<1>3. ss = [i \in DOMAIN Configured |-> ss[i]]
  OBVIOUS
<1> HIDE DEF ss
<1> QED
  BY <1>1, <1>2, <1>3, ConfiguredFacts, EachSound

------------------------------------------------------------------------------
(* The inventory, and the whole of an extraction.                          *)

SectorsOf(c) ==
  Each(LAMBDA s : <<Ensure(<<"Sector", s>>, [name |-> s]),
                    Link2(<<"Commodity", c.key>>, "affects_sector", <<"Sector", s>>, [sector |-> s])>>, c.sectors)

LEMMA SectorsOfOne ==
  ASSUME NEW c, IsList(c.sectors)
  PROVE  SoundWrites(SectorsOf(c), {<<"Commodity", c.key>>})
<1> DEFINE commodity == <<"Commodity", c.key>>
           link(s) == <<Ensure(<<"Sector", s>>, [name |-> s]),
                        Link2(commodity, "affects_sector", <<"Sector", s>>, [sector |-> s])>>
           ss == [k \in DOMAIN c.sectors |-> link(c.sectors[k])]
<1>1. SectorsOf(c) = FlattenSeq(ss)
  BY DEF SectorsOf, Each
<1> HIDE DEF commodity
<1>2. ASSUME NEW k \in DOMAIN c.sectors PROVE SoundWrites(ss[k], {commodity})
  <2> DEFINE n == <<"Sector", c.sectors[k]>>
             props == [name |-> c.sectors[k]]
             linked == [sector |-> c.sectors[k]]
  <2>1. ss[k] = <<Ensure(n, props), Link2(commodity, "affects_sector", n, linked)>>
    OBVIOUS
  <2>2. IsNode(n) /\ n[1] = "Sector"
    BY PairNode
  <2>3. SoundEdge([src |-> commodity, rel |-> "affects_sector", dst |-> n, props |-> linked])
    BY <2>2 DEF SoundEdge
  <2> HIDE DEF n, props, linked
  <2>4. commodity \in {commodity}
    OBVIOUS
  <2> QED
    BY <2>1, <2>2, <2>3, <2>4, EnsureLink
<1>3. ss = [k \in DOMAIN c.sectors |-> ss[k]]
  OBVIOUS
<1> HIDE DEF ss
<1>4. SoundWrites(FlattenSeq(ss), {commodity})
  BY <1>2, <1>3, EachSound
<1> QED
  BY <1>1, <1>4 DEF commodity

LEMMA InstrumentEdgesSound ==
  ASSUME NEW N
  PROVE  SoundWrites(InstrumentEdges(Inventory), N)
<1> DEFINE commodities == Inventory.commodities
           debts == Inventory.debt
           commodity(c) == <<Put(<<"Commodity", c.key>>, [name |-> c.key])>> \o SectorsOf(c)
           debt(d) == <<Put(<<"DebtInstrument", d.key>>, [name |-> d.key]),
                        Ensure(<<"Country", d.country>>, [name |-> d.country]),
                        Link2(<<"DebtInstrument", d.key>>, "issued_by", <<"Country", d.country>>, <<>>)>>
           ss == [i \in DOMAIN commodities |-> commodity(commodities[i])]
           ts == [i \in DOMAIN debts |-> debt(debts[i])]
<1>1. InstrumentEdges(Inventory) = FlattenSeq(ss) \o FlattenSeq(ts)
  BY DEF InstrumentEdges, Each, SectorsOf
<1>2. ASSUME NEW i \in DOMAIN commodities PROVE SoundWrites(ss[i], N)
  <2> DEFINE c == commodities[i]
             n == <<"Commodity", c.key>>
             props == [name |-> c.key]
  <2>1. ss[i] = <<Put(n, props)>> \o SectorsOf(c)
    OBVIOUS
  <2>2. IsList(c.sectors)
    BY JobsAssumption, ListFacts
  <2>3. SoundWrites(SectorsOf(c), {n})
    BY <2>2, SectorsOfOne
  <2>4. IsNode(n) /\ n[1] \notin Labels
    BY PairNode DEF Labels
  <2> HIDE DEF n, props, c
  <2>5. SoundWrites(<<Put(n, props)>>, N) /\ Makes(<<Put(n, props)>>, n)
    BY <2>4, PutAlone
  <2>6. \A m \in {n} : Based(<<Put(n, props)>>, N, m)
    BY <2>5 DEF Based
  <2> QED
    BY <2>1, <2>3, <2>5, <2>6, BothSound
<1>3. ASSUME NEW i \in DOMAIN debts PROVE SoundWrites(ts[i], N)
  <2> DEFINE d == debts[i]
             n == <<"DebtInstrument", d.key>>
             country == <<"Country", d.country>>
             a == <<Put(n, [name |-> d.key])>>
             b == <<Ensure(country, [name |-> d.country]), Link2(n, "issued_by", country, <<>>)>>
  <2>1. ts[i] = a \o b
    OBVIOUS
  <2>2. SoundWrites(a, N) /\ Makes(a, n)
    <3>1. IsNode(n) /\ n[1] \notin Labels
      BY PairNode DEF Labels
    <3> HIDE DEF n
    <3> QED
      BY <3>1, PutAlone
  <2>3. SoundWrites(b, {n})
    <3>1. IsNode(country)
      BY PairNode
    <3>2. SoundEdge([src |-> n, rel |-> "issued_by", dst |-> country, props |-> <<>>])
      BY PlainEdge
    <3>3. n \in {n}
      OBVIOUS
    <3> HIDE DEF n, country
    <3> QED
      BY <3>1, <3>2, <3>3, EnsureLink
  <2>4. \A m \in {n} : Based(a, N, m)
    BY <2>2 DEF Based
  <2>5. SoundWrites(a \o b, N)
    <3> HIDE DEF a, b, n
    <3> QED
      BY <2>2, <2>3, <2>4, BothSound
  <2> HIDE DEF ts, a, b
  <2> QED
    BY <2>1, <2>5
<1>4. IsList(commodities) /\ IsList(debts)
  BY JobsAssumption
<1>5. ss = [i \in DOMAIN commodities |-> ss[i]] /\ ts = [i \in DOMAIN debts |-> ts[i]]
  OBVIOUS
<1> HIDE DEF ss, ts, commodities, debts
<1>6. SoundWrites(FlattenSeq(ss), N) /\ SoundWrites(FlattenSeq(ts), N)
  BY <1>2, <1>3, <1>4, <1>5, EachSound
<1> QED
  BY <1>1, <1>6, BothSound DEF Based

LEMMA ExtractionSound ==
  ASSUME NEW documents, AreDocuments(documents), NEW N
  PROVE  SoundWrites(Extraction(documents), N)
<1> DEFINE a == CompanyNodes(Configured)
           b == SectorEdges(Configured)
           c == MarketTierEdges(Configured)
           d == ReferenceEdges(Configured, documents)
           e == SubsidiaryEdges(Configured, documents)
           f == PeopleEdges(Configured, documents)
           i == InstrumentEdges(Inventory)
           M == TrackedNodes
<1>1. SoundWrites(a, N) /\ \A n \in M : Makes(a, n)
  BY CompanyNodesSound
<1>2. SoundWrites(b, M) /\ SoundWrites(c, M)
  BY SectorEdgesSound, MarketTierEdgesSound
<1>3. SoundWrites(d, M) /\ SoundWrites(e, M) /\ SoundWrites(f, M)
  BY ReferenceEdgesSound, SubsidiaryEdgesSound, PeopleEdgesSound
<1>4. SoundWrites(i, M)
  BY InstrumentEdgesSound
<1>5. Extraction(documents) = a \o b \o c \o d \o e \o f \o i
  BY DEF Extraction
<1> HIDE DEF a, b, c, d, e, f, i, M
<1>6. ASSUME NEW x, SoundWrites(x, N), \A n \in M : Makes(x, n), NEW y, SoundWrites(y, M)
      PROVE  SoundWrites(x \o y, N) /\ \A n \in M : Makes(x \o y, n)
  BY <1>6, BothSound DEF Based
<1>7. SoundWrites(a \o b, N) /\ \A n \in M : Makes(a \o b, n)
  BY <1>1, <1>2, <1>6
<1>8. SoundWrites(a \o b \o c, N) /\ \A n \in M : Makes(a \o b \o c, n)
  BY <1>2, <1>6, <1>7
<1>9. SoundWrites(a \o b \o c \o d, N) /\ \A n \in M : Makes(a \o b \o c \o d, n)
  BY <1>3, <1>6, <1>8
<1>10. SoundWrites(a \o b \o c \o d \o e, N) /\ \A n \in M : Makes(a \o b \o c \o d \o e, n)
  BY <1>3, <1>6, <1>9
<1>11. SoundWrites(a \o b \o c \o d \o e \o f, N) /\ \A n \in M : Makes(a \o b \o c \o d \o e \o f, n)
  BY <1>3, <1>6, <1>10
<1>12. SoundWrites(a \o b \o c \o d \o e \o f \o i, N)
  BY <1>4, <1>6, <1>11
<1> QED
  BY <1>5, <1>12

------------------------------------------------------------------------------
(* The curated entities, the mentions and the holdings.                    *)

LEMMA ReferenceSound ==
  ASSUME NEW N, NEW c \in N, NEW rel, NEW n, IsNode(n), rel = "operates_in" => n[1] = "Country",
         rel \notin {"in_sector", "affects_sector", "in_market_tier", "holds"}
  PROVE  SoundWrites(Reference(c, rel, n), N) /\ Makes(Reference(c, rel, n), n)
<1>1. SoundEdge([src |-> c, rel |-> rel, dst |-> n, props |-> <<>>])
  BY DEF SoundEdge
<1> QED
  BY <1>1, EnsureLink DEF Reference

LEMMA PersonSound ==
  ASSUME NEW N, NEW c \in N, NEW p, IsNode(p.person), IsList(p.previously),
         \A n \in Range(p.previously) : IsNode(n)
  PROVE  SoundWrites(PersonWrites(c, p), N)
<1> DEFINE a == Reference(c, "employs", p.person)
           ss == [k \in DOMAIN p.previously |-> Reference(p.person, "previously_at", p.previously[k])]
<1>1. PersonWrites(c, p) = a \o FlattenSeq(ss)
  BY DEF PersonWrites, Each
<1>2. SoundWrites(a, N) /\ Makes(a, p.person)
  BY ReferenceSound
<1>3. ASSUME NEW k \in DOMAIN p.previously PROVE SoundWrites(ss[k], {p.person})
  <2>1. IsNode(p.previously[k]) /\ p.person \in {p.person}
    BY ListFacts
  <2> QED
    BY <2>1, ReferenceSound
<1>4. ss = [k \in DOMAIN p.previously |-> ss[k]]
  OBVIOUS
<1> HIDE DEF ss, a
<1>5. SoundWrites(FlattenSeq(ss), {p.person})
  BY <1>3, <1>4, EachSound
<1>6. \A n \in {p.person} : Based(a, N, n)
  BY <1>2 DEF Based
<1> QED
  BY <1>1, <1>2, <1>5, <1>6, BothSound

LEMMA SupplierSound ==
  ASSUME NEW N, NEW c \in N, NEW s, IsNode(s.supplier)
  PROVE  SoundWrites(SupplierWrites(c, s), N)
<1> DEFINE a == Reference(c, "relies_on_supplier", s.supplier)
           country == <<"Country", s.country>>
           b == Reference(s.supplier, "operates_in", country)
<1>1. SoundWrites(a, N) /\ Makes(a, s.supplier)
  BY ReferenceSound
<1>2. SoundWrites(b, {s.supplier})
  <2>1. IsNode(country) /\ country[1] = "Country" /\ s.supplier \in {s.supplier}
    BY PairNode
  <2> HIDE DEF country
  <2> QED
    BY <2>1, ReferenceSound
<1>3. SupplierWrites(c, s) = a \o (IF s.country = None THEN <<>> ELSE b)
  BY DEF SupplierWrites
<1>4. SoundWrites(IF s.country = None THEN <<>> ELSE b, {s.supplier})
  BY <1>2, NothingSound
<1>5. \A n \in {s.supplier} : Based(a, N, n)
  BY <1>1 DEF Based
<1> HIDE DEF a, b
<1> QED
  BY <1>1, <1>3, <1>4, <1>5, BothSound

LEMMA OtherSound ==
  ASSUME NEW N, NEW c \in N, NEW r, NEW others,
         IsNode(r.target), r.rel = "operates_in" => r.target[1] = "Country",
         r.rel \notin {"in_sector", "affects_sector", "in_market_tier", "holds"},
         IsList(others), \A t \in Range(others) : IsNode(t.target)
  PROVE  SoundWrites(OtherWrites(c, r, others), N)
<1> DEFINE a == Reference(c, r.rel, r.target)
           uses(t) == Reference(r.target, "uses_technology", t.target)
           ss == [k \in DOMAIN others |-> IF r.rel = "produces" /\ others[k].rel = "uses_technology"
                                          THEN uses(others[k]) ELSE <<>>]
<1>1. OtherWrites(c, r, others) = a \o FlattenSeq(ss)
  BY DEF OtherWrites, Each
<1>2. SoundWrites(a, N) /\ Makes(a, r.target)
  BY ReferenceSound
<1>3. ASSUME NEW k \in DOMAIN others PROVE SoundWrites(ss[k], {r.target})
  <2>1. IsNode(others[k].target) /\ r.target \in {r.target}
    BY ListFacts
  <2>2. SoundWrites(uses(others[k]), {r.target})
    BY <2>1, ReferenceSound
  <2> HIDE DEF uses
  <2> QED
    BY <2>2, NothingSound
<1>4. ss = [k \in DOMAIN others |-> ss[k]]
  OBVIOUS
<1> HIDE DEF ss, a
<1>5. SoundWrites(FlattenSeq(ss), {r.target})
  BY <1>3, <1>4, EachSound
<1>6. \A n \in {r.target} : Based(a, N, n)
  BY <1>2 DEF Based
<1> QED
  BY <1>1, <1>2, <1>5, <1>6, BothSound

LEMMA CompanyEntitiesSound ==
  ASSUME NEW c \in DOMAIN Curated, NEW N
  PROVE  SoundWrites(CompanyEntities(c, Curated[c]), N)
<1> DEFINE entities == Curated[c]
           people == entities.people
           suppliers == entities.suppliers
           others == entities.others
           ps == [k \in DOMAIN people |-> PersonWrites(c, people[k])]
           ss == [k \in DOMAIN suppliers |-> SupplierWrites(c, suppliers[k])]
           os == [k \in DOMAIN others |-> OtherWrites(c, others[k], others)]
           self == <<Put(c, Named(c))>>
<1>1. CompanyEntities(c, Curated[c]) = self \o FlattenSeq(ps) \o FlattenSeq(ss) \o FlattenSeq(os)
  BY DEF CompanyEntities, Each
<1>2. /\ IsOf("Company", c)
      /\ \A list \in {"people", "suppliers", "others"} : IsList(entities[list])
      /\ \A p \in Range(people) :
           /\ IsOf("Person", p.person) /\ IsList(p.previously)
           /\ \A n \in Range(p.previously) : IsOf("Company", n)
      /\ \A s \in Range(suppliers) : IsOf("Company", s.supplier)
      /\ \A r \in Range(others) : r.rel \in DOMAIN CuratedKind /\ IsOf(CuratedKind[r.rel], r.target)
  BY JobsAssumption
<1>3. IsList(people) /\ IsList(suppliers) /\ IsList(others)
  BY <1>2
<1>4. \A k \in DOMAIN people : SoundWrites(ps[k], {c})
  <2> SUFFICES ASSUME NEW k \in DOMAIN people PROVE SoundWrites(ps[k], {c})
    OBVIOUS
  <2> DEFINE p == people[k]
  <2>1. p \in Range(people) /\ ps[k] = PersonWrites(c, p) /\ c \in {c}
    BY <1>3, ListFacts
  <2>2. IsNode(p.person) /\ IsList(p.previously) /\ \A n \in Range(p.previously) : IsNode(n)
    BY <1>2, <2>1, Node
  <2> HIDE DEF p, ps
  <2> QED
    BY <2>1, <2>2, PersonSound
<1>5. \A k \in DOMAIN suppliers : SoundWrites(ss[k], {c})
  <2> SUFFICES ASSUME NEW k \in DOMAIN suppliers PROVE SoundWrites(ss[k], {c})
    OBVIOUS
  <2> DEFINE s == suppliers[k]
  <2>1. s \in Range(suppliers) /\ ss[k] = SupplierWrites(c, s) /\ c \in {c}
    BY <1>3, ListFacts
  <2>2. IsNode(s.supplier)
    BY <1>2, <2>1, Node
  <2> HIDE DEF s, ss
  <2> QED
    BY <2>1, <2>2, SupplierSound
<1>6. \A k \in DOMAIN others : SoundWrites(os[k], {c})
  <2> SUFFICES ASSUME NEW k \in DOMAIN others PROVE SoundWrites(os[k], {c})
    OBVIOUS
  <2> DEFINE r == others[k]
  <2>1. r \in Range(others) /\ os[k] = OtherWrites(c, r, others) /\ c \in {c}
    BY <1>3, ListFacts
  <2>2. r.rel \in DOMAIN CuratedKind /\ IsNode(r.target) /\ r.target[1] = CuratedKind[r.rel]
    BY <1>2, <2>1, Node
  <2>3. /\ DOMAIN CuratedKind = {"supplies_to", "competes_with", "partners_with", "operates_in", "produces",
                                 "uses_technology", "engaged_with"}
        /\ CuratedKind["operates_in"] = "Country"
    BY DEF CuratedKind
  <2>4. r.rel \notin {"in_sector", "affects_sector", "in_market_tier", "holds"}
    BY <2>2, <2>3
  <2>5. \A t \in Range(others) : IsNode(t.target)
    BY <1>2, Node
  <2> HIDE DEF r, os
  <2> QED
    BY <1>3, <2>1, <2>2, <2>3, <2>4, <2>5, OtherSound
<1>7. SoundWrites(self, N) /\ Makes(self, c)
  <2>1. IsNode(c) /\ c[1] \notin Labels
    BY <1>2, Node DEF Labels
  <2> QED
    BY <2>1, PutAlone
<1>8. /\ ps = [k \in DOMAIN people |-> ps[k]] /\ ss = [k \in DOMAIN suppliers |-> ss[k]]
      /\ os = [k \in DOMAIN others |-> os[k]]
  OBVIOUS
<1> HIDE DEF ps, ss, os, self, people, suppliers, others, entities
<1>9. SoundWrites(FlattenSeq(ps), {c})
  BY <1>3, <1>4, <1>8, EachSound
<1>10. SoundWrites(FlattenSeq(ss), {c})
  BY <1>3, <1>5, <1>8, EachSound
<1>11. SoundWrites(FlattenSeq(os), {c})
  BY <1>3, <1>6, <1>8, EachSound
<1>12. ASSUME NEW x, SoundWrites(x, N), Makes(x, c), NEW y, SoundWrites(y, {c})
       PROVE  SoundWrites(x \o y, N) /\ Makes(x \o y, c)
  BY <1>12, BothSound DEF Based
<1>13. SoundWrites(self \o FlattenSeq(ps), N) /\ Makes(self \o FlattenSeq(ps), c)
  BY <1>7, <1>9, <1>12
<1>14. SoundWrites(self \o FlattenSeq(ps) \o FlattenSeq(ss), N) /\ Makes(self \o FlattenSeq(ps) \o FlattenSeq(ss), c)
  BY <1>10, <1>12, <1>13
<1>15. SoundWrites(self \o FlattenSeq(ps) \o FlattenSeq(ss) \o FlattenSeq(os), N)
  BY <1>11, <1>12, <1>14
<1> QED
  BY <1>1, <1>15

LEMMA MentionsSound ==
  ASSUME NEW d, IsDocument(d), NEW names, NEW N, NEW props
  PROVE  SoundWrites(<<Put(d.node, props)>> \o Mentions(d, names), N)
<1> DEFINE met == Kept(d.names \o d.mentions, names)
           uri == [source_uri |-> d.node[2]]
           ss == [k \in DOMAIN met |-> <<Link2(d.node, "mentions", met[k], uri)>>]
           a == <<Put(d.node, props)>>
<1>1. Mentions(d, names) = FlattenSeq(ss)
  BY DEF Mentions, Each
<1>2. IsList(met)
  BY BothLists, KeptList DEF IsDocument
<1> HIDE DEF met, uri
<1>3. ASSUME NEW k \in DOMAIN met PROVE SoundWrites(ss[k], {d.node})
  <2>1. SoundEdge([src |-> d.node, rel |-> "mentions", dst |-> met[k], props |-> uri])
    BY PlainEdge
  <2>2. d.node \in {d.node}
    OBVIOUS
  <2> QED
    BY <2>1, <2>2, LinkAlone
<1>4. ss = [k \in DOMAIN met |-> ss[k]]
  OBVIOUS
<1>5. SoundWrites(a, N) /\ Makes(a, d.node)
  BY PutAlone DEF IsDocument
<1>6. \A n \in {d.node} : Based(a, N, n)
  BY <1>5 DEF Based
<1> HIDE DEF ss, a
<1>7. SoundWrites(FlattenSeq(ss), {d.node})
  BY <1>2, <1>3, <1>4, EachSound
<1>8. SoundWrites(a \o FlattenSeq(ss), N)
  BY <1>5, <1>6, <1>7, BothSound
<1> QED
  BY <1>1, <1>8 DEF a

LEMMA SetListed ==
  ASSUME NEW S, IsFiniteSet(S)
  PROVE  IsList(SetToSeq(S)) /\ Range(SetToSeq(S)) \subseteq S
<1> DEFINE n == Cardinality(S)
           q == SetToSeq(S)
<1>1. n \in Nat /\ \E f : f \in Bijection(1..n, S)
  BY FS_CardinalityType DEF ExistsBijection
<1>2. PICK f : f \in [1..n -> S] /\ IsInjective(f)
  BY <1>1 DEF Bijection, Injection, IsInjective
<1>3. q \in [1..n -> S]
  BY <1>2 DEF SetToSeq
<1> HIDE DEF q, n
<1>4. Range(q) \subseteq S /\ q \in [1..n -> Range(q)]
  BY <1>3 DEF Range
<1>5. q \in Seq(Range(q))
  BY <1>1, <1>4
<1> QED
  BY <1>4, <1>5 DEF q, IsList

LEMMA FundSound ==
  ASSUME NEW g, NEW filing \in Filings
  PROVE  SoundWrites(FundWrites(g, filing), DOMAIN g.nodes)
<1> DEFINE held == Holdings(g, filing)
           N == DOMAIN g.nodes
           order == SetToSeq(DOMAIN held)
           props == [name |-> filing.fund[2], resolved |-> Cardinality(DOMAIN held)]
           linked(c) == [value |-> held[c], valid_from |-> filing.period]
           a == <<Put(filing.fund, props)>>
           ss == [k \in DOMAIN order |-> <<Link2(filing.fund, "holds", order[k], linked(order[k]))>>]
<1>1. FundWrites(g, filing) = a \o FlattenSeq(ss)
  BY DEF FundWrites, Each
<1>2. IsOf("Fund", filing.fund) /\ IsList(filing.lines) /\ \A l \in Range(filing.lines) : l.value \in Nat
  BY JobsAssumption
<1>3. DOMAIN held \subseteq N /\ IsFiniteSet(DOMAIN held) /\ \A c \in DOMAIN held : held[c] \in Nat
  <2> DEFINE companies == {n \in NodesOfKind(g, "Company") : \E l \in Range(filing.lines) : l.company = n}
             named == {filing.lines[i].company : i \in DOMAIN filing.lines}
  <2>1. held = [c \in companies |-> ValueOf(filing.lines, c)]
    BY DEF Holdings
  <2>2. companies \in SUBSET named
    BY <1>2, ListFacts
  <2>3. IsFiniteSet(DOMAIN filing.lines)
    <3>1. DOMAIN filing.lines = 1..Len(filing.lines) /\ Len(filing.lines) \in Nat
      BY <1>2, ListFacts
    <3>2. IsFiniteSet(1..Len(filing.lines))
      BY <3>1, FS_Interval
    <3> QED
      BY <3>1, <3>2
  <2>4. IsFiniteSet(named)
    <3> DEFINE at == [i \in DOMAIN filing.lines |-> filing.lines[i].company]
    <3>1. at \in Surjection(DOMAIN filing.lines, named)
      BY DEF Surjection
    <3> QED
      BY <2>3, <3>1, FS_Surjection
  <2>5. IsFiniteSet(companies)
    BY <2>2, <2>4, FS_Subset
  <2>6. companies \subseteq N
    BY DEF NodesOfKind
  <2>7. \A c : ValueOf(filing.lines, c) \in Nat
    BY <1>2, ValueIsNumber
  <2> HIDE DEF companies, held
  <2> QED
    BY <2>1, <2>5, <2>6, <2>7
<1>4. IsList(order) /\ Range(order) \subseteq DOMAIN held
  BY <1>3, SetListed
<1>5. SoundWrites(a, N) /\ Makes(a, filing.fund)
  <2>1. IsNode(filing.fund) /\ filing.fund[1] \notin Labels
    BY <1>2, Node DEF Labels
  <2> HIDE DEF props
  <2> QED
    BY <2>1, PutAlone
<1> DEFINE M == N \cup {filing.fund}
<1> HIDE DEF held, order
<1>6. ASSUME NEW k \in DOMAIN order PROVE SoundWrites(ss[k], M)
  <2> DEFINE c == order[k]
             q == linked(c)
  <2>1. c \in DOMAIN held
    BY <1>4, ListFacts
  <2>2. ss[k] = <<Link2(filing.fund, "holds", c, q)>> /\ q.value = held[c] /\ "value" \in DOMAIN q
    OBVIOUS
  <2>3. filing.fund \in M /\ c \in M
    BY <1>3, <2>1
  <2> HIDE DEF c, q, M, ss
  <2>4. SoundEdge([src |-> filing.fund, rel |-> "holds", dst |-> c, props |-> q])
    BY <1>3, <2>1, <2>2 DEF SoundEdge, Numbered
  <2> QED
    BY <2>2, <2>3, <2>4, LinkAlone
<1>7. ss = [k \in DOMAIN order |-> ss[k]]
  OBVIOUS
<1>8. \A n \in M : Based(a, N, n)
  BY <1>5 DEF Based
<1> HIDE DEF ss, a, M, N
<1>9. SoundWrites(FlattenSeq(ss), M)
  BY <1>4, <1>6, <1>7, EachSound
<1>10. SoundWrites(a \o FlattenSeq(ss), N)
  BY <1>5, <1>8, <1>9, BothSound
<1> QED
  BY <1>1, <1>10 DEF N

------------------------------------------------------------------------------
(* Whatever jobs have run.                                                 *)

\* A graph without edges is still the tracked companies'; after the first job it is
\* what the jobs on the snapshot leave.
AnswersInv ==
  /\ published \subseteq DOMAIN Corpus
  /\ fed \subseteq Feeds /\ (~covering => fed = {} /\ stated = <<>>)
  /\ withheld \in Nat
  /\ ~covering /\ jobs = 0 /\ graph.edges = <<>> => graph = TrackedOnly
  /\ ~covering /\ jobs # 0 => SoundGraph(graph)

LEMMA TrackedSound == SoundGraph(TrackedOnly) /\ TrackedOnly.edges = <<>>
<1>1. TrackedOnly = [nodes |-> [c \in Tracked |-> [name |-> c[2]]], edges |-> <<>>]
  BY DEF TrackedOnly, EmptyGraph
<1>2. \A n \in Tracked : IsNode(n)
  BY JobsAssumption, Node
<1>3. IsList(TrackedOnly.edges) /\ EdgeSet(TrackedOnly) = {}
  BY <1>1, OneList DEF EdgeSet
<1> QED
  BY <1>1, <1>2, <1>3 DEF SoundGraph, IsGraph

LEMMA AnswersInit == JobsInit => AnswersInv
BY DEF JobsInit, AnswersInv, NoWalk

LEMMA PublishedSound ==
  ASSUME published \subseteq DOMAIN Corpus
  PROVE  AreDocuments(Published)
<1>1. Corpus \in Seq(Range(Corpus))
  BY CorpusSound DEF AreDocuments, IsList
<1>2. Published \in Seq(Range(Corpus))
  BY <1>1, ThoseSound DEF Published
<1>3. IsList(Published) /\ Range(Published) \subseteq Range(Corpus)
  <2>1. Published \in Seq(Range(Published))
    BY <1>2, SeqOfRange
  <2>2. \A i \in DOMAIN Published : Published[i] \in Range(Corpus)
    BY <1>2, LenProperties
  <2> QED
    BY <2>1, <2>2 DEF IsList, Range
<1> QED
  BY <1>3, CorpusSound DEF AreDocuments

\* A job on the snapshot works on a sound graph, and leaves one that has grown.
LEMMA JobSound ==
  ASSUME WalksInv, AnswersInv, Projecting, NEW writes, SoundWrites(writes, DOMAIN graph.nodes), Job(writes)
  PROVE  SoundGraph(graph') /\ GrownTo(graph, graph') /\ AnswersInv'
<1>1. SoundGraph(graph)
  <2>1. jobs # 0 \/ graph = TrackedOnly
    BY DEF WalksInv, Projecting, projected, AnswersInv
  <2> QED
    BY <2>1, TrackedSound DEF AnswersInv, Projecting
<1>2. /\ graph' = Apply(graph, writes) /\ jobs' = IF graph' = graph THEN jobs ELSE jobs + 1
      /\ UNCHANGED <<withheld, published, covering, fed, stated>>
  BY DEF Job, walkVars, registryVars
<1>3. SoundGraph(graph') /\ GrownTo(graph, graph')
  BY <1>1, <1>2, ApplySound
<1>4. jobs' = 0 => jobs = 0 /\ graph' = graph
  BY <1>2 DEF WalksInv
<1> QED
  BY <1>2, <1>3, <1>4 DEF AnswersInv

LEMMA ProjectingSound ==
  ASSUME WalksInv, AnswersInv, Projecting,
         \/ Publish \/ ExtractRelationships \/ ProjectCompany \/ LinkMentions \/ IngestHoldings
  PROVE  AnswersInv' /\ GrownTo(graph, graph')
<1>1. CASE Publish
  <2>1. UNCHANGED <<graph, jobs, withheld, covering, fed, stated>> /\ published' \subseteq DOMAIN Corpus
    BY <1>1 DEF Publish, walkVars, registryVars, AnswersInv
  <2> QED
    BY <2>1 DEF AnswersInv, GrownTo
<1>2. CASE ExtractRelationships
  <2>1. SoundWrites(Extraction(Published), DOMAIN graph.nodes)
    BY PublishedSound, ExtractionSound DEF AnswersInv
  <2> QED
    BY <1>2, <2>1, JobSound DEF ExtractRelationships
<1>3. CASE ProjectCompany
  <2>1. \A c \in DOMAIN Curated : SoundWrites(CompanyEntities(c, Curated[c]), DOMAIN graph.nodes)
    BY CompanyEntitiesSound
  <2> QED
    BY <1>3, <2>1, JobSound DEF ProjectCompany
<1>4. CASE LinkMentions
  <2> DEFINE d(i) == Corpus[i]
             writes(i) == <<Put(d(i).node, [title |-> d(i).node[2]])>> \o Mentions(d(i), EntityNames(d(i).by, Curated[d(i).by]))
  <2>1. \E i \in published : Job(writes(i))
    BY <1>4 DEF LinkMentions
  <2>2. \A i \in published : SoundWrites(writes(i), DOMAIN graph.nodes)
    <3> SUFFICES ASSUME NEW i \in published PROVE SoundWrites(writes(i), DOMAIN graph.nodes)
      OBVIOUS
    <3>1. IsDocument(Corpus[i])
      BY CorpusSound, ListFacts DEF AreDocuments, AnswersInv
    <3> QED
      BY <3>1, MentionsSound
  <2> HIDE DEF writes
  <2> QED
    BY <2>1, <2>2, JobSound
<1>5. CASE IngestHoldings
  <2>1. \A f \in Filings : SoundWrites(FundWrites(graph, f), DOMAIN graph.nodes)
    BY FundSound
  <2> QED
    BY <1>5, <2>1, JobSound DEF IngestHoldings
<1> QED
  BY <1>1, <1>2, <1>3, <1>4, <1>5

\* What WriteEdge has written has edges.
LEMMA EdgeIsWritten ==
  ASSUME Good(graph), NEW e \in Statements \cup CoMentions, WriteEdge(e)
  PROVE  graph'.edges # <<>>
<1> DEFINE g == EnsureNode(graph, e.src, PartyProps(e.src))
           h == EnsureNode(g, e.dst, PartyProps(e.dst))
<1>1. Good(g)
  BY EnsureGood
<1>2. Good(h)
  <2> HIDE DEF g
  <2> QED
    BY <1>1, EnsureGood
<1>3. graph' = UpsertEdge(h, e)
  BY DEF WriteEdge
<1> HIDE DEF h
<1>4. h.edges \in Seq(Statements \cup CoMentions) /\ h = [nodes |-> h.nodes, edges |-> h.edges]
  BY <1>2 DEF Good
<1>5. CASE \E x \in EdgeSet(h) : Identity(x) = Identity(e)
  <2>1. graph' = h /\ EdgeSet(h) # {}
    BY <1>3, <1>5 DEF UpsertEdge
  <2>2. EdgeSet(h) # {} => h.edges # <<>>
    BY DEF EdgeSet, Range
  <2> QED
    BY <2>1, <2>2
<1>6. CASE ~\E x \in EdgeSet(h) : Identity(x) = Identity(e)
  <2>1. graph'.edges = Append(h.edges, e)
    BY <1>3, <1>4, <1>6 DEF UpsertEdge
  <2>2. Append(h.edges, e) # <<>>
    BY <1>4, AppendProperties, EmptySeq
  <2> QED
    BY <2>1, <2>2
<1> QED
  BY <1>5, <1>6

LEMMA WalkingSound ==
  ASSUME WalksInv, WalksInv', AnswersInv, ~covering, jobs = 0, Next, UNCHANGED jobVars
  PROVE  AnswersInv'
<1>1. UNCHANGED <<jobs, published, covering, fed, stated>>
  BY DEF jobVars, registryVars
<1>2. Good(graph)
  BY DEF WalksInv
<1>3. ASSUME NEW e \in Statements \cup CoMentions, WriteEdge(e) PROVE AnswersInv'
  <2>1. graph'.edges # <<>> /\ withheld' = withheld
    BY <1>2, <1>3, EdgeIsWritten DEF WriteEdge
  <2> QED
    BY <1>1, <2>1 DEF AnswersInv
<1>4. ASSUME UNCHANGED graph, withheld' \in Nat PROVE AnswersInv'
  BY <1>1, <1>4 DEF AnswersInv
<1>5. CASE IngestOwnership
  BY <1>3, <1>5 DEF IngestOwnership
<1>6. CASE ProjectReferences
  BY <1>3, <1>6 DEF ProjectReferences
<1>7. CASE AskChains \/ AskContagion \/ AskNetwork \/ FollowChain \/ FollowReferences \/ Reply
  <2>1. UNCHANGED graph /\ (withheld' = withheld \/ withheld' = 0)
    BY <1>7 DEF AskChains, AskContagion, AskNetwork, FollowChain, FollowReferences, Reply
  <2> QED
    BY <1>4, <2>1 DEF AnswersInv
<1>8. CASE SpreadContagion
  <2>1. UNCHANGED <<graph, ask>> /\ Asking("contagion") /\ frontier # <<>>
    BY <1>8 DEF SpreadContagion
  <2>2. ask # Idle /\ ~Asking("chains") /\ ~Asking("network")
    BY <2>1 DEF Asking, Idle
  <2>3. ContagionInv /\ ContagionInv'
    BY <2>1, <2>2 DEF WalksInv, ChainInv, NetworkInv, Asking
  <2>4. HasNode(graph, ask.seed)
    BY <2>1, <2>3 DEF ContagionInv
  <2>5. ContagionCount'
    BY <2>1, <2>3, <2>4 DEF ContagionInv, HasNode
  <2>6. withheld' \in Nat
    <3>1. IsFiniteSet(HiddenAt(LookedAt)') /\ withheld' = Cardinality(HiddenAt(LookedAt)')
      BY <2>5 DEF ContagionCount
    <3> QED
      BY <3>1, FS_CardinalityType
  <2> QED
    BY <1>4, <2>1, <2>6
<1> QED
  BY <1>5, <1>6, <1>7, <1>8 DEF Next

LEMMA CoveringSound ==
  ASSUME AnswersInv, covering, RunCoverage \/ RunOwnership \/ ExtractAgain
  PROVE  AnswersInv'
<1>1. UNCHANGED <<withheld, published, covering>>
  BY DEF RunCoverage, RunOwnership, ExtractAgain, RegistryJob, walkVars
<1>2. fed' \subseteq Feeds
  BY DEF RunCoverage, RunOwnership, ExtractAgain, AnswersInv
<1> QED
  BY <1>1, <1>2 DEF AnswersInv

LEMMA AnswersStep ==
  WalksInv /\ WalksInv' /\ AnswersInv /\ [JobsNext]_<<vars, jobVars>> => AnswersInv'
<1> SUFFICES ASSUME WalksInv, WalksInv', AnswersInv, [JobsNext]_<<vars, jobVars>> PROVE AnswersInv'
  OBVIOUS
<1>1. CASE ~covering /\ ~projected /\ published = {} /\ Next /\ UNCHANGED jobVars
  <2>1. jobs = 0
    BY <1>1 DEF projected, WalksInv
  <2> QED
    BY <1>1, <2>1, WalkingSound
<1>2. CASE Projecting /\ (Publish \/ ExtractRelationships \/ ProjectCompany \/ LinkMentions \/ IngestHoldings)
  BY <1>2, ProjectingSound
<1>3. CASE covering /\ (RunCoverage \/ RunOwnership \/ ExtractAgain)
  BY <1>3, CoveringSound
<1>4. CASE UNCHANGED <<vars, jobVars>>
  <2>1. UNCHANGED <<graph, withheld, jobs, published, covering, fed, stated>>
    BY <1>4 DEF vars, jobVars, registryVars
  <2> QED
    BY <2>1 DEF AnswersInv
<1> QED
  BY <1>1, <1>2, <1>3, <1>4 DEF JobsNext

LEMMA JobsTyped == WalksInv /\ AnswersInv => JobsTypeOK
<1> SUFFICES ASSUME WalksInv, AnswersInv PROVE JobsTypeOK
  OBVIOUS
<1>1. ASSUME ~covering, jobs = 0 PROVE TypeOK /\ EndsOnGraph
  <2>1. Good(graph)
    BY <1>1 DEF WalksInv
  <2>2. \A e \in EdgeSet(graph) : e.src \in DOMAIN graph.nodes /\ e.dst \in DOMAIN graph.nodes
    BY <2>1, EdgeFacts
  <2>3. EdgeSet(graph) \subseteq Statements \cup CoMentions
    <3>1. graph.edges \in Seq(Statements \cup CoMentions)
      BY <2>1 DEF Good
    <3>2. \A i \in DOMAIN graph.edges : graph.edges[i] \in Statements \cup CoMentions
      BY <3>1, LenProperties
    <3> QED
      BY <3>2 DEF EdgeSet, Range
  <2>4. ask = Idle \/ ask.walk \in {"chains", "contagion", "network"}
    BY DEF WalksInv, ChainInv, ContagionInv, NetworkInv, Asking
  <2> QED
    BY <2>2, <2>3, <2>4 DEF TypeOK, EndsOnGraph, HasNode, WalksInv, AnswersInv, NoWalk
<1>2. ASSUME ~covering, jobs # 0 PROVE EndsOnGraph
  BY <1>2 DEF AnswersInv, SoundGraph, EndsOnGraph
<1>3. ~projected /\ ~covering => jobs = 0
  BY DEF projected, WalksInv
<1> QED
  BY <1>1, <1>2, <1>3 DEF JobsTypeOK, AnswersInv

------------------------------------------------------------------------------
(* An exposure that was shown.                                             *)

LEMMA LabelStays ==
  ASSUME NEW g, SoundGraph(g), NEW h, GrownTo(g, h), NEW n \in DOMAIN g.nodes, n[1] \in Labels
  PROVE  HasNode(h, n) /\ NameOf(g, n) = NameOf(h, n) /\ \A name : NodeProp(g, n, name) = NodeProp(h, n, name)
<1>1. n \in DOMAIN h.nodes /\ h.nodes[n] = g.nodes[n]
  BY DEF GrownTo
<1>2. \A name : NodeProp(g, n, name) = NodeProp(h, n, name)
  BY <1>1 DEF NodeProp, HasNode
<1> QED
  BY <1>1, <1>2 DEF NameOf, HasNode

LEMMA SectorStays ==
  ASSUME NEW g, SoundGraph(g), NEW h, GrownTo(g, h), NEW e \in EdgeSet(g),
         e.rel \in {"in_sector", "affects_sector"}
  PROVE  e \in EdgeSet(h) /\ NameOf(h, e.dst) = NameOf(g, e.dst) /\ SectorOf(h, e) = SectorOf(g, e)
<1>1. e.dst \in DOMAIN g.nodes /\ e.dst[1] \in Labels
  BY DEF SoundGraph, SoundEdge, HasNode, Labels
<1>2. NameOf(h, e.dst) = NameOf(g, e.dst)
  BY <1>1, LabelStays
<1> QED
  BY <1>2 DEF SectorOf, GrownTo

LEMMA MembersStay ==
  ASSUME NEW g, SoundGraph(g), NEW h, GrownTo(g, h), NEW s
  PROVE  CompaniesInSector(g, s) \subseteq CompaniesInSector(h, s)
<1> SUFFICES ASSUME NEW c \in CompaniesInSector(g, s) PROVE c \in CompaniesInSector(h, s)
  OBVIOUS
<1>1. PICK e \in EdgeSet(g) : e.rel = "in_sector" /\ SectorOf(g, e) = s /\ c = e.src
  BY DEF CompaniesInSector, ByRelation
<1>2. e \in EdgeSet(h) /\ SectorOf(h, e) = s
  BY <1>1, SectorStays
<1> QED
  BY <1>1, <1>2 DEF CompaniesInSector, ByRelation

LEMMA ExposureStays ==
  ASSUME NEW g, SoundGraph(g), NEW h, GrownTo(g, h), NEW pathway, NEW term
  PROVE  ExposedKeys(g, pathway, term) \subseteq ExposedKeys(h, pathway, term)
<1>1. \A e \in EdgeSet(g) : e \in EdgeSet(h)
  BY DEF GrownTo
<1>2. CASE pathway = "sector"
  <2> SUFFICES ASSUME NEW c \in SectorExposure(g, term).direct PROVE c \in SectorExposure(h, term).direct
    BY <1>2 DEF ExposedKeys
  <2>1. PICK e \in EdgeSet(g) : e.rel = "in_sector" /\ term \in ClassificationTerms(g, e) /\ c = e.src
    BY DEF SectorExposure, ByRelation, Sources
  <2>2. e \in EdgeSet(h) /\ NameOf(h, e.dst) = NameOf(g, e.dst)
    BY <2>1, SectorStays
  <2>3. term \in ClassificationTerms(h, e)
    BY <2>1, <2>2 DEF ClassificationTerms
  <2> QED
    BY <2>1, <2>2, <2>3 DEF SectorExposure, ByRelation, Sources
<1>3. CASE pathway = "market_tier"
  <2> SUFFICES ASSUME NEW c \in MarketTierExposure(g, term) PROVE c \in MarketTierExposure(h, term)
    BY <1>3 DEF ExposedKeys
  <2>1. PICK t \in NodesOfKind(g, "MarketTier") :
          /\ term \in {t[2], NodeProp(g, t, "code")}
          /\ c \in Sources(IncomingOver(g, t, "in_market_tier"))
    BY DEF MarketTierExposure
  <2>2. t \in DOMAIN g.nodes /\ t[1] \in Labels /\ c \in DOMAIN g.nodes
    BY <2>1 DEF NodesOfKind, Labels, MarketTierExposure
  <2>3. HasNode(h, t) /\ NodeProp(g, t, "code") = NodeProp(h, t, "code")
    BY <2>2, LabelStays
  <2>4. c \in Sources(IncomingOver(h, t, "in_market_tier"))
    BY <1>1, <2>1 DEF Sources, IncomingOver, Incoming
  <2>5. c \in DOMAIN h.nodes /\ t \in NodesOfKind(h, "MarketTier")
    BY <2>1, <2>2, <2>3 DEF GrownTo, NodesOfKind, HasNode
  <2> QED
    BY <2>1, <2>3, <2>4, <2>5 DEF MarketTierExposure
<1>4. CASE pathway = "commodity"
  <2> SUFFICES ASSUME NEW c \in CommodityExposure(g, term) PROVE c \in CommodityExposure(h, term)
    BY <1>4 DEF ExposedKeys
  <2> DEFINE n == <<"Commodity", term>>
  <2>1. PICK s \in AffectedSectors(g, n) : c \in CompaniesInSector(g, s)
    BY DEF CommodityExposure
  <2>2. PICK e \in EdgeSet(g) : e.src = n /\ e.rel = "affects_sector" /\ s = SectorOf(g, e)
    BY <2>1 DEF AffectedSectors, OutgoingOver, Outgoing
  <2>3. e \in EdgeSet(h) /\ SectorOf(h, e) = s
    BY <2>2, SectorStays
  <2>4. s \in AffectedSectors(h, n)
    BY <2>2, <2>3 DEF AffectedSectors, OutgoingOver, Outgoing
  <2>5. c \in CompaniesInSector(h, s)
    BY <2>1, MembersStay
  <2> QED
    BY <2>4, <2>5 DEF CommodityExposure
<1>5. CASE pathway = "jurisdiction"
  <2>1. \A k : DOMAIN JurisdictionExposure(k, term).direct = Sources(SubsidiariesIn(k, term))
    BY DEF JurisdictionExposure
  <2>2. Sources(SubsidiariesIn(g, term)) \subseteq Sources(SubsidiariesIn(h, term))
    BY <1>1 DEF Sources, SubsidiariesIn, ByRelation
  <2> QED
    BY <1>5, <2>1, <2>2 DEF ExposedKeys
<1>6. CASE pathway = "country"
  <2>1. \A k : ExposureToCountry(k, term).direct = Sources(IncomingOver(k, <<"Country", term>>, "operates_in"))
    BY DEF ExposureToCountry
  <2>2. Sources(IncomingOver(g, <<"Country", term>>, "operates_in"))
          \subseteq Sources(IncomingOver(h, <<"Country", term>>, "operates_in"))
    BY <1>1 DEF Sources, IncomingOver, Incoming
  <2> QED
    BY <1>6, <2>1, <2>2 DEF ExposedKeys
<1>7. CASE pathway \notin {"sector", "market_tier", "commodity", "jurisdiction", "country"}
  BY <1>7 DEF ExposedKeys
<1> QED
  BY <1>2, <1>3, <1>4, <1>5, <1>6, <1>7

LEMMA GrowsStep ==
  ASSUME WalksInv, AnswersInv, [JobsNext]_<<vars, jobVars>>
  PROVE  [projected => \A e \in Events(graph) :
            ExposedKeys(graph, e[1], e[2]) \subseteq ExposedKeys(graph', e[1], e[2])]_<<vars, jobVars>>
<1> SUFFICES ASSUME projected, JobsNext
             PROVE  \A e \in Events(graph) : ExposedKeys(graph, e[1], e[2]) \subseteq ExposedKeys(graph', e[1], e[2])
  OBVIOUS
<1>1. SoundGraph(graph) /\ ~covering
  BY DEF projected, AnswersInv, WalksInv
<1>2. GrownTo(graph, graph')
  <2>1. CASE Projecting /\ (Publish \/ ExtractRelationships \/ ProjectCompany \/ LinkMentions \/ IngestHoldings)
    BY <2>1, ProjectingSound
  <2> QED
    BY <1>1, <2>1 DEF JobsNext
<1> HIDE DEF Events
<1> QED
  BY <1>1, <1>2, ExposureStays

------------------------------------------------------------------------------
(* From either end of a relation.                                          *)

LEMMA Symmetric ==
  ASSUME NEW g, SoundGraph(g), NEW c \in DOMAIN g.nodes
  PROVE  CompanyCountryExposures(g, c) =
           {[country |-> p[1], via |-> p[2].via] : p \in
              UNION {{n} \X {x \in ExposureToCountry(g, n[2]).exposed : x.company = c} :
                       n \in NodesOfKind(g, "Country")}}
<1> DEFINE N == DOMAIN g.nodes
           countries == NodesOfKind(g, "Country")
           operators(n) == Sources(IncomingOver(g, <<"Country", n[2]>>, "operates_in"))
           exposed(n) == ExposureToCountry(g, n[2]).exposed
           pairs == UNION {{n} \X {x \in exposed(n) : x.company = c} : n \in countries}
           left == CompanyCountryExposures(g, c)
           right == {[country |-> p[1], via |-> p[2].via] : p \in pairs}
<1>1. \A n \in countries : n = <<"Country", n[2]>> /\ n \in N
  <2> SUFFICES ASSUME NEW n \in countries PROVE n = <<"Country", n[2]>> /\ n \in N
    OBVIOUS
  <2>1. n \in N /\ n[1] = "Country" /\ n = <<n[1], n[2]>>
    BY DEF NodesOfKind, SoundGraph, IsNode
  <2> QED
    BY <2>1
<1>2. \A n : exposed(n) = {[company |-> p[1], via |-> p[2]] : p \in
                             {p \in N \X operators(n) : p[1] \in Sources(IncomingOver(g, p[2], "relies_on_supplier"))}}
  BY DEF ExposureToCountry
<1>3. ASSUME NEW x \in left PROVE x \in right
  <2>1. PICK n \in N, v \in N : /\ x = [country |-> n, via |-> v]
                                /\ \E e \in OutgoingOver(g, c, "relies_on_supplier") : e.dst = v
                                /\ \E e \in OutgoingOver(g, v, "operates_in") : e.dst = n
    BY DEF CompanyCountryExposures
  <2>2. PICK e \in EdgeSet(g) : e.src = c /\ e.rel = "relies_on_supplier" /\ e.dst = v
    BY <2>1 DEF OutgoingOver, Outgoing
  <2>3. PICK o \in EdgeSet(g) : o.src = v /\ o.rel = "operates_in" /\ o.dst = n
    BY <2>1 DEF OutgoingOver, Outgoing
  <2>4. n \in countries
    BY <2>3 DEF SoundGraph, SoundEdge, NodesOfKind
  <2>5. n = <<"Country", n[2]>>
    BY <1>1, <2>4
  <2>6. v \in operators(n)
    BY <2>3, <2>5 DEF Sources, IncomingOver, Incoming
  <2>7. c \in Sources(IncomingOver(g, v, "relies_on_supplier"))
    BY <2>2 DEF Sources, IncomingOver, Incoming
  <2> DEFINE y == [company |-> c, via |-> v]
  <2>8. y \in exposed(n)
    <3>1. <<c, v>> \in N \X operators(n) /\ <<c, v>>[1] = c /\ <<c, v>>[2] = v
      BY <2>6
    <3> HIDE DEF operators, exposed
    <3> QED
      BY <1>2, <2>7, <3>1
  <2>9. y.company = c /\ y.via = v
    OBVIOUS
  <2>10. <<n, y>> \in pairs
    <3> HIDE DEF exposed, countries, y
    <3> QED
      BY <2>4, <2>8, <2>9
  <2>11. x = [country |-> <<n, y>>[1], via |-> <<n, y>>[2].via]
    BY <2>1
  <2> HIDE DEF pairs, y
  <2> QED
    BY <2>10, <2>11
<1>4. ASSUME NEW x \in right PROVE x \in left
  <2>1. PICK p \in pairs : x = [country |-> p[1], via |-> p[2].via]
    OBVIOUS
  <2>2. PICK n \in countries : p \in {n} \X {y \in exposed(n) : y.company = c}
    BY <2>1
  <2>3. p[1] = n /\ p[2] \in exposed(n) /\ p[2].company = c
    <3> HIDE DEF exposed
    <3> QED
      BY <2>2
  <2>4. PICK q \in N \X operators(n) : /\ p[2] = [company |-> q[1], via |-> q[2]]
                                      /\ q[1] \in Sources(IncomingOver(g, q[2], "relies_on_supplier"))
    <3> HIDE DEF operators, exposed
    <3> QED
      BY <1>2, <2>3
  <2> DEFINE v == q[2]
  <2>5. p[2].via = v /\ v \in operators(n) /\ c \in Sources(IncomingOver(g, v, "relies_on_supplier"))
    <3>1. q[1] = c /\ p[2].via = q[2]
      BY <2>3, <2>4
    <3>2. q[2] \in operators(n)
      <4> HIDE DEF operators
      <4> QED
        BY <2>4
    <3> QED
      BY <2>4, <3>1, <3>2
  <2> HIDE DEF v
  <2>6. n = <<"Country", n[2]>> /\ n \in N
    BY <1>1
  <2>7. PICK o \in EdgeSet(g) : o.src = v /\ o.dst = n /\ o.rel = "operates_in"
    BY <2>5, <2>6 DEF Sources, IncomingOver, Incoming
  <2>8. PICK e \in EdgeSet(g) : e.src = c /\ e.dst = v /\ e.rel = "relies_on_supplier"
    BY <2>5 DEF Sources, IncomingOver, Incoming
  <2>9. v \in N
    BY <2>7 DEF SoundGraph, HasNode
  <2>10. \E d \in OutgoingOver(g, c, "relies_on_supplier") : d.dst = v
    BY <2>8 DEF OutgoingOver, Outgoing
  <2>11. \E d \in OutgoingOver(g, v, "operates_in") : d.dst = n
    BY <2>7 DEF OutgoingOver, Outgoing
  <2>12. <<n, v>> \in N \X N /\ <<n, v>>[1] = n /\ <<n, v>>[2] = v
    BY <2>6, <2>9
  <2>13. [country |-> n, via |-> v] \in left
    BY <2>10, <2>11, <2>12 DEF CompanyCountryExposures
  <2> QED
    BY <2>1, <2>3, <2>5, <2>13
<1> HIDE DEF left, right
<1>5. left = right
  BY <1>3, <1>4
<1> QED
  BY <1>5 DEF left, right

------------------------------------------------------------------------------
(* In a list, in a bucket and in a total.                                  *)

LEMMA EdgesFinite ==
  ASSUME NEW g, SoundGraph(g)
  PROVE  IsFiniteSet(EdgeSet(g))
<1>1. g.edges \in Seq(Range(g.edges))
  BY DEF SoundGraph, IsGraph, IsList
<1>2. DOMAIN g.edges = 1..Len(g.edges) /\ Len(g.edges) \in Nat
  BY <1>1, LenProperties
<1>3. IsFiniteSet(1..Len(g.edges))
  BY <1>2, FS_Interval
<1>4. g.edges \in Surjection(1..Len(g.edges), Range(g.edges))
  <2>1. g.edges \in [1..Len(g.edges) -> Range(g.edges)]
    BY <1>1, <1>2
  <2> QED
    BY <1>2, <2>1 DEF Surjection, Range
<1> QED
  BY <1>3, <1>4, FS_Surjection DEF EdgeSet

LEMMA BookSound ==
  ASSUME NEW g, SoundGraph(g), NEW fund, NEW clearance, NEW day, NEW book, book = FundHoldings(g, fund, clearance, day)
  PROVE  IsFiniteSet(DOMAIN book) /\ \A c \in DOMAIN book : book[c] \in Nat
<1> DEFINE held == Visible(AsOf(OutgoingOver(g, fund, "holds"), day), clearance)
           companies == {e.dst : e \in held}
           line(c) == CHOOSE e \in held : e.dst = c
<1>1. book = [c \in companies |-> Numbered(line(c).props, "value")]
  BY DEF FundHoldings
<1>2. held \in SUBSET EdgeSet(g) /\ \A e \in held : e.rel = "holds"
  BY DEF Visible, AsOf, OutgoingOver, Outgoing
<1> HIDE DEF held
<1>3. IsFiniteSet(held)
  BY <1>2, EdgesFinite, FS_Subset
<1>4. IsFiniteSet(companies)
  <2> DEFINE at == [e \in held |-> e.dst]
  <2>1. at \in Surjection(held, companies)
    BY DEF Surjection
  <2> QED
    BY <1>3, <2>1, FS_Surjection
<1>5. ASSUME NEW c \in companies PROVE Numbered(line(c).props, "value") \in Nat
  <2>1. line(c) \in held
    OBVIOUS
  <2> HIDE DEF line
  <2> QED
    BY <1>2, <2>1 DEF SoundGraph, SoundEdge
<1> HIDE DEF companies, line
<1> QED
  BY <1>1, <1>4, <1>5

LEMMA WorthOfLess ==
  ASSUME NEW book, IsFiniteSet(DOMAIN book), \A c \in DOMAIN book : book[c] \in Nat, NEW S, S \subseteq DOMAIN book
  PROVE  Worth(book, S) <= Worth(book, DOMAIN book)
<1> DEFINE units(c) == {c} \X (1..book[c])
           parts(C) == {units(c) : c \in C}
           D == DOMAIN book
<1>1. ASSUME NEW c \in D PROVE IsFiniteSet(units(c))
  <2>1. IsFiniteSet({c}) /\ IsFiniteSet(1..book[c])
    <3>1. 1 \in Int /\ book[c] \in Int
      OBVIOUS
    <3>2. IsFiniteSet(1..book[c])
      BY <3>1, FS_Interval
    <3> QED
      BY <3>2, FS_Singleton
  <2> QED
    BY <2>1, FS_Product
<1>2. IsFiniteSet(parts(D))
  <2> DEFINE at == [c \in D |-> units(c)]
  <2>1. at \in Surjection(D, parts(D))
    <3> HIDE DEF units
    <3> QED
      BY DEF Surjection
  <2> HIDE DEF at
  <2> QED
    BY <2>1, FS_Surjection
<1> HIDE DEF units
<1>3. \A T \in parts(D) : IsFiniteSet(T)
  BY <1>1
<1>4. UNION parts(S) \in SUBSET UNION parts(D)
  OBVIOUS
<1> HIDE DEF parts
<1>5. IsFiniteSet(UNION parts(D))
  BY <1>2, <1>3, FS_UNION
<1>6. Cardinality(UNION parts(S)) <= Cardinality(UNION parts(D))
  BY <1>4, <1>5, FS_Subset
<1> QED
  BY <1>6 DEF Worth, parts, units

LEMMA MembersAreExposed ==
  ASSUME NEW g, NEW s
  PROVE  CompaniesInSector(g, s) \subseteq SectorExposure(g, s).direct
<1> SUFFICES ASSUME NEW c \in CompaniesInSector(g, s) PROVE c \in SectorExposure(g, s).direct
  OBVIOUS
<1>1. PICK e \in ByRelation(g, "in_sector") : SectorOf(g, e) = s /\ c = e.src
  BY DEF CompaniesInSector
<1>2. s \in ClassificationTerms(g, e)
  <2>1. CASE Prop(e.props, "sector") = None
    BY <1>1, <2>1 DEF SectorOf, ClassificationTerms
  <2>2. CASE Prop(e.props, "sector") # None
    <3>1. "sector" \in DOMAIN e.props /\ s = e.props["sector"]
      BY <1>1, <2>2 DEF SectorOf, Prop
    <3>2. "sector" \in Range(GicsLevels)
      BY DEF GicsLevels, Range
    <3> QED
      BY <3>1, <3>2 DEF ClassificationTerms
  <2> QED
    BY <2>1, <2>2
<1> QED
  BY <1>1, <1>2 DEF SectorExposure, Sources

LEMMA ViewsAgree ==
  ASSUME NEW g, SoundGraph(g)
  PROVE  /\ \A s \in DOMAIN ListSectors(g) :
              /\ GicsBreakdown(g)[s].companies = ListSectors(g)[s]
              /\ CompaniesInSector(g, s) \subseteq SectorExposure(g, s).direct
              /\ Cardinality(CompaniesInSector(g, s)) = ListSectors(g)[s]
         /\ \A f \in NodesOfKind(g, "Fund") :
              LET profile == PortfolioProfile(g, f, "public", NoDate)
                  touched(s) == PortfolioExposure(g, f, "sector", s, "public", NoDate)
              IN  \A s \in DOMAIN profile.by_sector :
                    /\ profile.by_sector[s] \subseteq DOMAIN touched(s).exposed
                    /\ touched(s).exposed_value <= profile.total_value
<1>1. ASSUME NEW s \in DOMAIN ListSectors(g)
      PROVE  /\ GicsBreakdown(g)[s].companies = ListSectors(g)[s]
             /\ Cardinality(CompaniesInSector(g, s)) = ListSectors(g)[s]
  <2> DEFINE edges == ByRelation(g, "in_sector")
             sectors == {SectorOf(g, e) : e \in edges}
             members(t) == {e.src : e \in {x \in edges : SectorOf(g, x) = t}}
             sub(e) == IF Prop(e.props, "sub_industry") # None THEN e.props.sub_industry ELSE NameOf(g, e.dst)
             of(t) == {e \in edges : SectorOf(g, e) = t}
             broken(t) == [i \in {sub(e) : e \in of(t)} |-> {e.src : e \in {x \in of(t) : sub(x) = i}}]
  <2>1. ListSectors(g) = [t \in sectors |-> Cardinality(members(t))]
    BY DEF ListSectors
  <2>2. GicsBreakdown(g) = [t \in sectors |-> [companies |-> Cardinality(members(t)), sub_industries |-> broken(t)]]
    BY DEF GicsBreakdown
  <2>3. CompaniesInSector(g, s) = members(s)
    BY DEF CompaniesInSector
  <2> HIDE DEF sectors, members, broken
  <2>4. s \in sectors
    BY <2>1
  <2> QED
    BY <2>1, <2>2, <2>3, <2>4
<1>2. ASSUME NEW f \in NodesOfKind(g, "Fund"), NEW s \in DOMAIN PortfolioProfile(g, f, "public", NoDate).by_sector
      PROVE  /\ PortfolioProfile(g, f, "public", NoDate).by_sector[s]
                  \subseteq DOMAIN PortfolioExposure(g, f, "sector", s, "public", NoDate).exposed
             /\ PortfolioExposure(g, f, "sector", s, "public", NoDate).exposed_value
                  <= PortfolioProfile(g, f, "public", NoDate).total_value
  <2> DEFINE book == FundHoldings(g, f, "public", NoDate)
             sectors(c) == Kept(g.edges, OutgoingOver(g, c, "in_sector"))
             sectored == {c \in DOMAIN book : sectors(c) # <<>>}
             bucket(t) == {c \in sectored : SectorOf(g, sectors(c)[1]) = t}
             exposed == DOMAIN book \cap ExposedKeys(g, "sector", s)
  <2>1. /\ PortfolioProfile(g, f, "public", NoDate).total_value = Worth(book, DOMAIN book)
        /\ PortfolioProfile(g, f, "public", NoDate).by_sector
             = [t \in {SectorOf(g, sectors(c)[1]) : c \in sectored} |-> bucket(t)]
    BY DEF PortfolioProfile
  <2>2. /\ DOMAIN PortfolioExposure(g, f, "sector", s, "public", NoDate).exposed = exposed
        /\ PortfolioExposure(g, f, "sector", s, "public", NoDate).exposed_value = Worth(book, exposed)
    BY DEF PortfolioExposure
  <2>3. IsFiniteSet(DOMAIN book) /\ \A c \in DOMAIN book : book[c] \in Nat
    BY BookSound
  <2> HIDE DEF book
  <2>4. exposed \subseteq DOMAIN book
    OBVIOUS
  <2>5. Worth(book, exposed) <= Worth(book, DOMAIN book)
    <3> HIDE DEF exposed
    <3> QED
      BY <2>3, <2>4, WorthOfLess
  <2>6. ASSUME NEW c \in bucket(s) PROVE c \in exposed
    <3> DEFINE own == OutgoingOver(g, c, "in_sector")
    <3>1. c \in DOMAIN book /\ sectors(c) # <<>> /\ SectorOf(g, sectors(c)[1]) = s
      OBVIOUS
    <3>2. sectors(c) \in Seq(Range(g.edges) \cap own)
      BY KeptSound DEF SoundGraph, IsGraph
    <3>3. sectors(c)[1] \in own
      <4> DEFINE q == sectors(c)
      <4> HIDE DEF q, own
      <4>1. q \in Seq(Range(g.edges) \cap own) /\ q # <<>>
        BY <3>1, <3>2 DEF q
      <4>2. q[1] \in Range(g.edges) \cap own
        BY <4>1, EmptySeq, LenProperties
      <4> QED
        BY <4>2 DEF q
    <3> DEFINE e == sectors(c)[1]
    <3>4. e \in EdgeSet(g) /\ e.src = c /\ e.rel = "in_sector" /\ SectorOf(g, e) = s
      BY <3>1, <3>3 DEF OutgoingOver, Outgoing
    <3> HIDE DEF e, sectors
    <3>5. c \in CompaniesInSector(g, s)
      BY <3>4 DEF CompaniesInSector, ByRelation
    <3>6. c \in SectorExposure(g, s).direct
      BY <3>5, MembersAreExposed
    <3>7. ExposedKeys(g, "sector", s) = SectorExposure(g, s).direct
      BY DEF ExposedKeys
    <3> QED
      BY <3>1, <3>6, <3>7
  <2>7. PortfolioProfile(g, f, "public", NoDate).by_sector[s] = bucket(s)
    <3> HIDE DEF bucket, sectored, sectors
    <3> QED
      BY <2>1
  <2> HIDE DEF bucket, exposed
  <2> QED
    BY <2>1, <2>2, <2>5, <2>6, <2>7
<1>3. \A s : CompaniesInSector(g, s) \subseteq SectorExposure(g, s).direct
  BY MembersAreExposed
<1>4. \A f \in NodesOfKind(g, "Fund") :
        LET profile == PortfolioProfile(g, f, "public", NoDate)
            touched(s) == PortfolioExposure(g, f, "sector", s, "public", NoDate)
        IN  \A s \in DOMAIN profile.by_sector :
              /\ profile.by_sector[s] \subseteq DOMAIN touched(s).exposed
              /\ touched(s).exposed_value <= profile.total_value
  BY <1>2
<1> QED
  BY <1>1, <1>3, <1>4

------------------------------------------------------------------------------
(* On either backend.                                                      *)

\* What h answers is what g answers, as far as g's edges have both of their nodes.
WholeEdges(g) == {e \in EdgeSet(g) : HasNode(g, e.src) /\ HasNode(g, e.dst)}
Alike(g, h) ==
  /\ h.nodes = g.nodes
  /\ EdgeSet(h) = WholeEdges(g)
  /\ \A e \in EdgeSet(g) : HasNode(g, e.src) /\ (e.rel # "mentions" => HasNode(g, e.dst))
  /\ \A E : E \subseteq WholeEdges(g) => Kept(h.edges, E) = Kept(g.edges, E)

LEMMA LoadedAlike ==
  ASSUME NEW g, SoundGraph(g)
  PROVE  Alike(g, BulkLoad(g))
<1> DEFINE h == BulkLoad(g)
           W == WholeEdges(g)
<1>1. h = [nodes |-> g.nodes, edges |-> Kept(g.edges, W)]
  BY DEF BulkLoad, WholeEdges, SoundGraph, IsGraph
<1>2. IsList(g.edges)
  BY DEF SoundGraph, IsGraph
<1>3. Range(Kept(g.edges, W)) = Range(g.edges) \cap W
  BY <1>2, KeptSound
<1>4. EdgeSet(h) = W
  BY <1>1, <1>3 DEF EdgeSet, WholeEdges
<1>5. \A E : E \subseteq W => Kept(Kept(g.edges, W), E) = Kept(g.edges, E)
  BY <1>2, KeptAgain
<1> QED
  BY <1>1, <1>4, <1>5 DEF Alike, SoundGraph

LEMMA NodesAlike ==
  ASSUME NEW g, NEW h, Alike(g, h)
  PROVE  /\ \A n : HasNode(h, n) = HasNode(g, n) /\ NameOf(h, n) = NameOf(g, n) /\ TierCode(h, n) = TierCode(g, n)
         /\ \A n, name : NodeProp(h, n, name) = NodeProp(g, n, name)
         /\ \A kind : NodesOfKind(h, kind) = NodesOfKind(g, kind)
         /\ \A e : SectorOf(h, e) = SectorOf(g, e) /\ ClassificationTerms(h, e) = ClassificationTerms(g, e)
<1>1. h.nodes = g.nodes
  BY DEF Alike
<1>2. \A n : HasNode(h, n) = HasNode(g, n)
  BY <1>1 DEF HasNode
<1>3. \A n, name : NodeProp(h, n, name) = NodeProp(g, n, name)
  BY <1>1, <1>2 DEF NodeProp
<1>4. \A kind : NodesOfKind(h, kind) = NodesOfKind(g, kind)
  BY <1>1 DEF NodesOfKind
<1>5. \A n : NameOf(h, n) = NameOf(g, n) /\ TierCode(h, n) = TierCode(g, n)
  BY <1>3 DEF NameOf, TierCode
<1>6. \A e : SectorOf(h, e) = SectorOf(g, e)
  BY <1>5 DEF SectorOf
<1>7. \A e : ClassificationTerms(h, e) = ClassificationTerms(g, e)
  BY <1>5 DEF ClassificationTerms
<1> QED
  BY <1>2, <1>3, <1>4, <1>5, <1>6, <1>7

LEMMA EdgesAlike ==
  ASSUME NEW g, NEW h, Alike(g, h)
  PROVE  /\ \A rel : rel # "mentions" => ByRelation(h, rel) = ByRelation(g, rel)
         /\ \A rel : rel # "mentions" => \A n : /\ IncomingOver(h, n, rel) = IncomingOver(g, n, rel)
                                                /\ OutgoingOver(h, n, rel) = OutgoingOver(g, n, rel)
         /\ \A n \in DOMAIN g.nodes : IncomingOver(h, n, "mentions") = IncomingOver(g, n, "mentions")
         /\ \A e \in EdgeSet(g) : e.rel # "mentions" => e \in WholeEdges(g)
         /\ \A e \in EdgeSet(h) : e \in EdgeSet(g)
<1>1. \A e \in EdgeSet(g) : e.rel # "mentions" => e \in EdgeSet(h)
  BY DEF Alike, WholeEdges
<1>2. \A e \in EdgeSet(h) : e \in EdgeSet(g)
  BY DEF Alike, WholeEdges
<1>3. \A n \in DOMAIN g.nodes : \A e \in EdgeSet(g) : e.dst = n => e \in EdgeSet(h)
  BY DEF Alike, WholeEdges, HasNode
<1>4. \A e \in EdgeSet(g) : e.rel # "mentions" => e \in WholeEdges(g)
  BY DEF Alike, WholeEdges
<1>5. \A rel : rel # "mentions" => ByRelation(h, rel) = ByRelation(g, rel)
  BY <1>1, <1>2 DEF ByRelation
<1>6. \A rel : rel # "mentions" => \A n : IncomingOver(h, n, rel) = IncomingOver(g, n, rel)
  BY <1>1, <1>2 DEF IncomingOver, Incoming
<1>7. \A rel : rel # "mentions" => \A n : OutgoingOver(h, n, rel) = OutgoingOver(g, n, rel)
  BY <1>1, <1>2 DEF OutgoingOver, Outgoing
<1>8. \A n \in DOMAIN g.nodes : IncomingOver(h, n, "mentions") = IncomingOver(g, n, "mentions")
  BY <1>2, <1>3 DEF IncomingOver, Incoming
<1> QED
  BY <1>2, <1>4, <1>5, <1>6, <1>7, <1>8

LEMMA ListsAlike ==
  ASSUME NEW g, NEW h, Alike(g, h)
  PROVE  /\ ListSectors(h) = ListSectors(g) /\ GicsBreakdown(h) = GicsBreakdown(g)
         /\ ListMarketTiers(h) = ListMarketTiers(g) /\ ListJurisdictions(h) = ListJurisdictions(g)
         /\ ListCommodities(h) = ListCommodities(g) /\ ListDebtInstruments(h) = ListDebtInstruments(g)
         /\ ListFunds(h) = ListFunds(g) /\ \A kind : ListEntities(h, kind) = ListEntities(g, kind)
<1>1. ByRelation(h, "in_sector") = ByRelation(g, "in_sector")
  BY EdgesAlike
<1>2. \A e : SectorOf(h, e) = SectorOf(g, e)
  BY NodesAlike
<1>3. ListSectors(h) = ListSectors(g)
  BY <1>1, <1>2 DEF ListSectors
<1>4. GicsBreakdown(h) = GicsBreakdown(g)
  <2> DEFINE E == ByRelation(g, "in_sector")
             sub(k, e) == IF Prop(e.props, "sub_industry") # None THEN e.props.sub_industry ELSE NameOf(k, e.dst)
             of(k, s) == {e \in E : SectorOf(k, e) = s}
             total(k, s) == Cardinality({e.src : e \in of(k, s)})
             broken(k, s) == [i \in {sub(k, e) : e \in of(k, s)} |-> {e.src : e \in {x \in of(k, s) : sub(k, x) = i}}]
             sectors(k) == {SectorOf(k, e) : e \in E}
  <2>1. GicsBreakdown(g) = [s \in sectors(g) |-> [companies |-> total(g, s), sub_industries |-> broken(g, s)]]
    BY DEF GicsBreakdown
  <2>2. GicsBreakdown(h) = [s \in sectors(h) |-> [companies |-> total(h, s), sub_industries |-> broken(h, s)]]
    BY <1>1 DEF GicsBreakdown
  <2>3. sectors(h) = sectors(g)
    BY <1>2
  <2>4. ASSUME NEW s PROVE total(h, s) = total(g, s) /\ broken(h, s) = broken(g, s)
    <3>1. of(h, s) = of(g, s)
      BY <1>2
    <3>2. \A e \in of(g, s) : sub(h, e) = sub(g, e)
      BY NodesAlike
    <3> DEFINE O == of(g, s)
               at(k, i) == {e.src : e \in {x \in O : sub(k, x) = i}}
    <3> HIDE DEF of
    <3>3. \A i : at(h, i) = at(g, i)
      <4> HIDE DEF sub
      <4> QED
        BY <3>2
    <3>4. {sub(h, e) : e \in O} = {sub(g, e) : e \in O}
      <4> HIDE DEF sub
      <4> QED
        BY <3>2
    <3>5. \A k : of(k, s) = O => broken(k, s) = [i \in {sub(k, e) : e \in O} |-> at(k, i)]
      OBVIOUS
    <3> HIDE DEF at, broken, sub
    <3>6. broken(h, s) = broken(g, s)
      BY <3>1, <3>3, <3>4, <3>5
    <3> QED
      BY <3>1, <3>6
  <2> HIDE DEF sectors, total, broken
  <2> QED
    BY <2>1, <2>2, <2>3, <2>4
<1>5. ListMarketTiers(h) = ListMarketTiers(g)
  BY NodesAlike, EdgesAlike DEF ListMarketTiers
<1>6. ListJurisdictions(h) = ListJurisdictions(g)
  BY EdgesAlike DEF ListJurisdictions, SubsidiariesIn
<1>7. ListCommodities(h) = ListCommodities(g)
  BY EdgesAlike, NodesAlike DEF ListCommodities, AffectedSectors
<1>8. ListDebtInstruments(h) = ListDebtInstruments(g)
  BY NodesAlike DEF ListDebtInstruments
<1>9. ListFunds(h) = ListFunds(g)
  BY NodesAlike DEF ListFunds, Alike
<1>10. \A kind : ListEntities(h, kind) = ListEntities(g, kind)
  BY NodesAlike DEF ListEntities, Alike
<1> QED
  BY <1>3, <1>4, <1>5, <1>6, <1>7, <1>8, <1>9, <1>10

LEMMA ExposedAlike ==
  ASSUME NEW g, NEW h, Alike(g, h), NEW pathway, NEW term
  PROVE  ExposedKeys(h, pathway, term) = ExposedKeys(g, pathway, term)
<1>1. ByRelation(h, "in_sector") = ByRelation(g, "in_sector")
  BY EdgesAlike
<1>2. CASE pathway = "sector"
  <2>1. \A e : ClassificationTerms(h, e) = ClassificationTerms(g, e)
    BY NodesAlike
  <2>2. SectorExposure(h, term).direct = SectorExposure(g, term).direct
    BY <1>1, <2>1 DEF SectorExposure
  <2> QED
    BY <1>2, <2>2 DEF ExposedKeys
<1>3. CASE pathway = "market_tier"
  <2>1. \A t : IncomingOver(h, t, "in_market_tier") = IncomingOver(g, t, "in_market_tier")
    BY EdgesAlike
  <2>2. NodesOfKind(h, "MarketTier") = NodesOfKind(g, "MarketTier")
    BY NodesAlike
  <2>3. \A t : NodeProp(h, t, "code") = NodeProp(g, t, "code")
    BY NodesAlike
  <2>4. h.nodes = g.nodes
    BY DEF Alike
  <2>5. MarketTierExposure(h, term) = MarketTierExposure(g, term)
    BY <2>1, <2>2, <2>3, <2>4 DEF MarketTierExposure
  <2> QED
    BY <1>3, <2>5 DEF ExposedKeys
<1>4. CASE pathway = "commodity"
  <2>1. \A e : SectorOf(h, e) = SectorOf(g, e)
    BY NodesAlike
  <2>2. \A s : CompaniesInSector(h, s) = CompaniesInSector(g, s)
    BY <1>1, <2>1 DEF CompaniesInSector
  <2>3. \A c : OutgoingOver(h, c, "affects_sector") = OutgoingOver(g, c, "affects_sector")
    BY EdgesAlike
  <2>4. \A c : AffectedSectors(h, c) = AffectedSectors(g, c)
    BY <2>1, <2>3 DEF AffectedSectors
  <2>5. CommodityExposure(h, term) = CommodityExposure(g, term)
    BY <2>2, <2>4 DEF CommodityExposure
  <2> QED
    BY <1>4, <2>5 DEF ExposedKeys
<1>5. CASE pathway = "jurisdiction"
  <2>1. SubsidiariesIn(h, term) = SubsidiariesIn(g, term)
    BY EdgesAlike DEF SubsidiariesIn
  <2>2. \A k : DOMAIN JurisdictionExposure(k, term).direct = Sources(SubsidiariesIn(k, term))
    BY DEF JurisdictionExposure
  <2>3. DOMAIN JurisdictionExposure(h, term).direct = DOMAIN JurisdictionExposure(g, term).direct
    BY <2>1, <2>2
  <2> QED
    BY <1>5, <2>3 DEF ExposedKeys
<1>6. CASE pathway = "country"
  <2>1. IncomingOver(h, <<"Country", term>>, "operates_in") = IncomingOver(g, <<"Country", term>>, "operates_in")
    BY EdgesAlike
  <2>2. ExposureToCountry(h, term).direct = ExposureToCountry(g, term).direct
    BY <2>1 DEF ExposureToCountry
  <2> QED
    BY <1>6, <2>2 DEF ExposedKeys
<1>7. CASE pathway \notin {"sector", "market_tier", "commodity", "jurisdiction", "country"}
  BY <1>7 DEF ExposedKeys
<1> QED
  BY <1>2, <1>3, <1>4, <1>5, <1>6, <1>7

LEMMA CountriesAlike ==
  ASSUME NEW g, NEW h, Alike(g, h), NEW country
  PROVE  ExposureToCountry(h, country) = ExposureToCountry(g, country) /\ DebtForCountry(h, country) = DebtForCountry(g, country)
<1>1. h.nodes = g.nodes
  BY DEF Alike
<1>2. /\ IncomingOver(h, <<"Country", country>>, "operates_in") = IncomingOver(g, <<"Country", country>>, "operates_in")
      /\ IncomingOver(h, <<"Country", country>>, "issued_by") = IncomingOver(g, <<"Country", country>>, "issued_by")
      /\ \A n : IncomingOver(h, n, "relies_on_supplier") = IncomingOver(g, n, "relies_on_supplier")
  BY EdgesAlike
<1>3. ExposureToCountry(h, country) = ExposureToCountry(g, country)
  BY <1>1, <1>2 DEF ExposureToCountry
<1>4. DebtForCountry(h, country) = DebtForCountry(g, country)
  BY <1>1, <1>2 DEF DebtForCountry, HasNode
<1> QED
  BY <1>3, <1>4

LEMMA EventsAlike ==
  ASSUME NEW g, NEW h, Alike(g, h)
  PROVE  Events(h) = Events(g) /\ EventAnswers(h) = EventAnswers(g)
<1>1. h.nodes = g.nodes
  BY DEF Alike
<1>2. /\ ListSectors(h) = ListSectors(g) /\ GicsBreakdown(h) = GicsBreakdown(g)
      /\ ListMarketTiers(h) = ListMarketTiers(g) /\ ListJurisdictions(h) = ListJurisdictions(g)
      /\ ListCommodities(h) = ListCommodities(g) /\ ListDebtInstruments(h) = ListDebtInstruments(g)
  BY ListsAlike
<1>3. \A n : NameOf(h, n) = NameOf(g, n)
  BY NodesAlike
<1>4. Events(h) = Events(g)
  BY <1>1, <1>2, <1>3 DEF Events
<1>5. \A e : ExposedKeys(h, e[1], e[2]) = ExposedKeys(g, e[1], e[2])
  BY ExposedAlike
<1>6. [e \in Events(h) |-> ExposedKeys(h, e[1], e[2])] = [e \in Events(g) |-> ExposedKeys(g, e[1], e[2])]
  BY <1>4, <1>5
<1>7. NodesOfKind(h, "Country") = NodesOfKind(g, "Country")
  BY NodesAlike
<1>8. \A n : <<ExposureToCountry(h, n[2]), DebtForCountry(h, n[2])>> = <<ExposureToCountry(g, n[2]), DebtForCountry(g, n[2])>>
  BY CountriesAlike
<1>9. [n \in NodesOfKind(h, "Country") |-> <<ExposureToCountry(h, n[2]), DebtForCountry(h, n[2])>>]
        = [n \in NodesOfKind(g, "Country") |-> <<ExposureToCountry(g, n[2]), DebtForCountry(g, n[2])>>]
  BY <1>7, <1>8
<1> QED
  BY <1>2, <1>4, <1>6, <1>9 DEF EventAnswers

LEMMA ProfileAlike ==
  ASSUME NEW g, NEW h, Alike(g, h), NEW n \in DOMAIN g.nodes, NEW clearance
  PROVE  EntityProfile(h, n, clearance) = EntityProfile(g, n, clearance)
<1> DEFINE shown(edges) == Visible({e \in edges : e.rel # "mentions"}, clearance)
           lines(out, in) == [i \in DOMAIN out |-> <<"out", out[i].rel, out[i].dst>>]
                               \o [i \in DOMAIN in |-> <<"in", in[i].rel, in[i].src>>]
           mentioned(k) == {m[2] : m \in Sources(Visible(IncomingOver(k, n, "mentions"), clearance))}
           profile(k, out, in) == IF ~HasNode(k, n) THEN None
                                  ELSE [entity |-> n, relationships |-> lines(out, in), mentioned |-> mentioned(k)]
<1>1. \A k : EntityProfile(k, n, clearance) =
                profile(k, Kept(k.edges, shown(Outgoing(k, n))), Kept(k.edges, shown(Incoming(k, n))))
  BY DEF EntityProfile
<1>2. shown(Outgoing(h, n)) = shown(Outgoing(g, n)) /\ shown(Incoming(h, n)) = shown(Incoming(g, n))
  <2>1. \A e \in EdgeSet(g) : e.rel # "mentions" => e \in EdgeSet(h)
    BY DEF Alike, WholeEdges
  <2>2. \A e \in EdgeSet(h) : e \in EdgeSet(g)
    BY EdgesAlike
  <2> QED
    BY <2>1, <2>2 DEF Visible, Outgoing, Incoming
<1>3. shown(Outgoing(g, n)) \subseteq WholeEdges(g) /\ shown(Incoming(g, n)) \subseteq WholeEdges(g)
  BY EdgesAlike DEF Visible, Outgoing, Incoming
<1>4. /\ Kept(h.edges, shown(Outgoing(h, n))) = Kept(g.edges, shown(Outgoing(g, n)))
      /\ Kept(h.edges, shown(Incoming(h, n))) = Kept(g.edges, shown(Incoming(g, n)))
  <2> HIDE DEF shown
  <2> QED
    BY <1>2, <1>3 DEF Alike
<1>5. mentioned(h) = mentioned(g)
  BY EdgesAlike
<1>6. HasNode(h, n) = HasNode(g, n)
  BY NodesAlike
<1> HIDE DEF lines, mentioned, shown
<1>7. \A out, in : profile(h, out, in) = profile(g, out, in)
  BY <1>5, <1>6
<1> HIDE DEF profile
<1> QED
  BY <1>1, <1>4, <1>7

LEMMA EntitiesAlike ==
  ASSUME NEW g, NEW h, Alike(g, h), NEW clearance
  PROVE  EntityAnswers(h, clearance) = EntityAnswers(g, clearance)
<1>1. h.nodes = g.nodes
  BY DEF Alike
<1>2. \A n : PeopleAt(h, n) = PeopleAt(g, n)
  BY EdgesAlike DEF PeopleAt
<1>3. CoExecutives(h) = CoExecutives(g)
  <2> DEFINE companies(k) == {n \in DOMAIN k.nodes : PeopleAt(k, n) # {}}
             at(k, p) == {c \in companies(k) : p \in PeopleAt(k, c)}
             groups(k) == {<<c, PeopleAt(k, c)>> : c \in {x \in companies(k) : Cardinality(PeopleAt(k, x)) >= 2}}
             bridges(k) == {<<p, at(k, p)>> : p \in {x \in UNION {PeopleAt(k, c) : c \in companies(k)} :
                                                    Cardinality(at(k, x)) >= 2}}
  <2>1. \A k : CoExecutives(k) = [groups |-> groups(k), bridges |-> bridges(k)]
    BY DEF CoExecutives
  <2>2. companies(h) = companies(g)
    BY <1>1, <1>2
  <2>3. \A p : at(h, p) = at(g, p)
    <3> HIDE DEF companies
    <3> QED
      BY <1>2, <2>2
  <2>4. groups(h) = groups(g)
    <3> HIDE DEF companies
    <3> QED
      BY <1>2, <2>2
  <2>5. bridges(h) = bridges(g)
    <3> DEFINE people(k) == UNION {PeopleAt(k, c) : c \in companies(k)}
    <3>1. people(h) = people(g)
      <4> HIDE DEF companies
      <4> QED
        BY <1>2, <2>2
    <3>2. \A k : bridges(k) = {<<p, at(k, p)>> : p \in {x \in people(k) : Cardinality(at(k, x)) >= 2}}
      OBVIOUS
    <3> HIDE DEF people, at, companies, bridges
    <3>3. {x \in people(h) : Cardinality(at(h, x)) >= 2} = {x \in people(g) : Cardinality(at(g, x)) >= 2}
      BY <2>3, <3>1
    <3> QED
      BY <2>3, <3>2, <3>3
  <2> HIDE DEF groups, bridges
  <2> QED
    BY <2>1, <2>4, <2>5
<1>4. ListEntities(h, None) = ListEntities(g, None)
  BY ListsAlike
<1>5. [n \in DOMAIN h.nodes |-> EntityProfile(h, n, clearance)] = [n \in DOMAIN g.nodes |-> EntityProfile(g, n, clearance)]
  BY <1>1, ProfileAlike
<1> QED
  BY <1>3, <1>4, <1>5 DEF EntityAnswers

LEMMA BookAlike ==
  ASSUME NEW g, NEW h, Alike(g, h), NEW fund, NEW clearance, NEW day
  PROVE  FundHoldings(h, fund, clearance, day) = FundHoldings(g, fund, clearance, day)
<1>1. OutgoingOver(h, fund, "holds") = OutgoingOver(g, fund, "holds")
  BY EdgesAlike
<1> DEFINE book(E) == LET held == Visible(AsOf(E, day), clearance)
                      IN  [c \in {e.dst : e \in held} |-> Numbered((CHOOSE e \in held : e.dst = c).props, "value")]
<1>2. \A k : FundHoldings(k, fund, clearance, day) = book(OutgoingOver(k, fund, "holds"))
  BY DEF FundHoldings
<1> HIDE DEF book
<1> QED
  BY <1>1, <1>2

LEMMA PortfolioAlike ==
  ASSUME NEW g, NEW h, Alike(g, h), NEW f, NEW clearance, NEW day
  PROVE  PortfolioProfile(h, f, clearance, day) = PortfolioProfile(g, f, clearance, day)
<1> DEFINE held(k) == FundHoldings(k, f, clearance, day)
           sectors(k, c) == Kept(k.edges, OutgoingOver(k, c, "in_sector"))
           tiers(k, c) == Kept(k.edges, OutgoingOver(k, c, "in_market_tier"))
           sectored(k) == {c \in DOMAIN held(k) : sectors(k, c) # <<>>}
           tiered(k) == {c \in DOMAIN held(k) : tiers(k, c) # <<>>}
           sectorAt(k, c) == SectorOf(k, sectors(k, c)[1])
           tierAt(k, c) == TierCode(k, tiers(k, c)[1].dst)
           bySector(k) == [s \in {sectorAt(k, c) : c \in sectored(k)} |-> {c \in sectored(k) : sectorAt(k, c) = s}]
           byTier(k) == [t \in {tierAt(k, c) : c \in tiered(k)} |-> {c \in tiered(k) : tierAt(k, c) = t}]
           profile(k) == [total_value |-> Worth(held(k), DOMAIN held(k)), by_sector |-> bySector(k), by_market_tier |-> byTier(k)]
<1>1. \A k : PortfolioProfile(k, f, clearance, day) = profile(k)
  BY DEF PortfolioProfile
<1>2. held(h) = held(g)
  BY BookAlike
<1>3. ASSUME NEW c PROVE sectors(h, c) = sectors(g, c) /\ tiers(h, c) = tiers(g, c)
  <2>1. /\ OutgoingOver(h, c, "in_sector") = OutgoingOver(g, c, "in_sector")
        /\ OutgoingOver(h, c, "in_market_tier") = OutgoingOver(g, c, "in_market_tier")
    BY EdgesAlike
  <2>2. /\ OutgoingOver(g, c, "in_sector") \subseteq WholeEdges(g)
        /\ OutgoingOver(g, c, "in_market_tier") \subseteq WholeEdges(g)
    BY EdgesAlike DEF OutgoingOver, Outgoing
  <2> QED
    BY <2>1, <2>2 DEF Alike
<1> HIDE DEF held, sectors, tiers
<1>4. \A c : sectorAt(h, c) = sectorAt(g, c) /\ tierAt(h, c) = tierAt(g, c)
  BY <1>3, NodesAlike
<1>5. sectored(h) = sectored(g) /\ tiered(h) = tiered(g)
  BY <1>2, <1>3
<1> HIDE DEF sectorAt, tierAt, sectored, tiered
<1>6. bySector(h) = bySector(g)
  BY <1>4, <1>5
<1>7. byTier(h) = byTier(g)
  BY <1>4, <1>5
<1> HIDE DEF bySector, byTier
<1> QED
  BY <1>1, <1>2, <1>6, <1>7

LEMMA FundsAlike ==
  ASSUME NEW g, NEW h, Alike(g, h), NEW clearance, NEW day
  PROVE  FundAnswers(h, clearance, day) = FundAnswers(g, clearance, day)
<1> DEFINE funds(k) == NodesOfKind(k, "Fund")
           exposure(k, q) == PortfolioExposure(k, q[1], q[2][1], q[2][2], clearance, day)
<1>1. funds(h) = funds(g) /\ ListFunds(h) = ListFunds(g) /\ Events(h) = Events(g)
  BY NodesAlike, ListsAlike, EventsAlike
<1>2. \A f : PortfolioProfile(h, f, clearance, day) = PortfolioProfile(g, f, clearance, day)
  BY PortfolioAlike
<1>3. \A f, pathway, term : PortfolioExposure(h, f, pathway, term, clearance, day)
                              = PortfolioExposure(g, f, pathway, term, clearance, day)
  BY BookAlike, ExposedAlike DEF PortfolioExposure
<1>4. \A q : exposure(h, q) = exposure(g, q)
  BY <1>3
<1> HIDE DEF funds, exposure
<1>5. [f \in funds(h) |-> PortfolioProfile(h, f, clearance, day)] = [f \in funds(g) |-> PortfolioProfile(g, f, clearance, day)]
  BY <1>1, <1>2
<1>6. [q \in funds(h) \X Events(h) |-> exposure(h, q)] = [q \in funds(g) \X Events(g) |-> exposure(g, q)]
  BY <1>1, <1>4
<1>7. \A k : FundAnswers(k, clearance, day) =
               [funds |-> ListFunds(k), profiles |-> [f \in funds(k) |-> PortfolioProfile(k, f, clearance, day)],
                exposures |-> [q \in funds(k) \X Events(k) |-> exposure(k, q)]]
  BY DEF FundAnswers, funds, exposure
<1> QED
  BY <1>1, <1>5, <1>6, <1>7

LEMMA PanelsAlike ==
  ASSUME NEW g, NEW h, Alike(g, h), NEW clearance, NEW day
  PROVE  PanelAnswers(h, clearance, day) = PanelAnswers(g, clearance, day)
<1>1. h.nodes = g.nodes
  BY DEF Alike
<1>2. \A kind : NodesOfKind(h, kind) = NodesOfKind(g, kind)
  BY NodesAlike
<1>3. \A kind : HasRun(h, kind) = HasRun(g, kind)
  BY <1>2 DEF HasRun
<1>4. ASSUME NEW rels, "mentions" \notin rels PROVE Panel(h, rels, clearance, day) = Panel(g, rels, clearance, day)
  <2> DEFINE E(k, rel) == Visible(AsOf(ByRelation(k, rel), day), clearance)
  <2>1. ASSUME NEW rel \in rels PROVE Kept(h.edges, E(h, rel)) = Kept(g.edges, E(g, rel))
    <3>1. rel # "mentions"
      BY <1>4
    <3>2. E(h, rel) = E(g, rel)
      BY <3>1, EdgesAlike
    <3>3. E(g, rel) \subseteq WholeEdges(g)
      BY <3>1, EdgesAlike DEF Visible, AsOf, ByRelation
    <3> HIDE DEF E
    <3> QED
      BY <3>2, <3>3 DEF Alike
  <2>2. \A k : Panel(k, rels, clearance, day) = [rel \in rels |-> Kept(k.edges, E(k, rel))]
    BY DEF Panel
  <2> HIDE DEF E
  <2> QED
    BY <2>1, <2>2
<1>5. ScreeningOverview(h, clearance, day) = ScreeningOverview(g, clearance, day)
  BY <1>3, <1>4 DEF ScreeningOverview
<1>6. ResolutionOverview(h, clearance, day) = ResolutionOverview(g, clearance, day)
  BY <1>3, <1>4 DEF ResolutionOverview
<1>7. \A e : e \in EdgeSet(h) /\ e.rel \in Ownership <=> e \in EdgeSet(g) /\ e.rel \in Ownership
  BY EdgesAlike DEF Alike, Ownership
<1>8. OwnershipOverview(h, clearance) = OwnershipOverview(g, clearance)
  <2>1. {e \in EdgeSet(h) : e.rel \in Ownership} = {e \in EdgeSet(g) : e.rel \in Ownership}
    BY <1>7
  <2> QED
    BY <1>3, <2>1 DEF OwnershipOverview
<1>9. ASSUME NEW c PROVE CompanyOwners(h, c, clearance, day) = CompanyOwners(g, c, clearance, day)
  <2> DEFINE all(k) == AsOf({e \in Incoming(k, c) : e.rel \in Ownership}, day)
             shown(k) == Visible(all(k), clearance)
  <2>1. all(h) = all(g)
    BY <1>7 DEF AsOf, Incoming
  <2>2. shown(g) \subseteq WholeEdges(g)
    BY EdgesAlike DEF Visible, AsOf, Incoming, Ownership
  <2>3. \A k : CompanyOwners(k, c, clearance, day) =
                 [connected |-> all(k) # {}, owners |-> Kept(k.edges, shown(k)), restricted |-> Cardinality(all(k) \ shown(k))]
    BY DEF CompanyOwners
  <2> HIDE DEF all
  <2>4. shown(h) = shown(g)
    BY <2>1
  <2> HIDE DEF shown
  <2>5. Kept(h.edges, shown(g)) = Kept(g.edges, shown(g))
    BY <2>2 DEF Alike
  <2> QED
    BY <2>1, <2>3, <2>4, <2>5
<1>10. [c \in NodesOfKind(h, "Company") |-> CompanyOwners(h, c, clearance, day)]
         = [c \in NodesOfKind(g, "Company") |-> CompanyOwners(g, c, clearance, day)]
  BY <1>2, <1>9
<1>11. CoverageOverview(h) = CoverageOverview(g)
  <2>1. \A n, name : NodeProp(h, n, name) = NodeProp(g, n, name)
    BY NodesAlike
  <2> DEFINE companies(k) == NodesOfKind(k, "Company")
             listing(k, S) == {c \in S : NodeProp(k, c, "in_universe") = "yes"}
             runs(k) == {k.nodes[n].market : n \in NodesOfKind(k, "CoverageRun")}
             markets(k) == runs(k) \cup ({NodeProp(k, c, "market") : c \in companies(k)} \ {None})
             of(k, m) == {c \in companies(k) : NodeProp(k, c, "market") = m}
             counts(k) == [m \in markets(k) |-> [companies |-> Cardinality(of(k, m)),
                                                 in_universe |-> Cardinality(listing(k, of(k, m)))]]
             covered(k) == listing(k, companies(k))
             overview(k) == IF runs(k) = {} /\ covered(k) = {}
                            THEN [connected |-> FALSE, total |-> Cardinality(companies(k))]
                            ELSE [connected |-> TRUE, total |-> Cardinality(companies(k)),
                                  in_universe |-> Cardinality(covered(k)), by_market |-> counts(k)]
  <2>2. \A k : CoverageOverview(k) = overview(k)
    BY DEF CoverageOverview
  <2>3. companies(h) = companies(g) /\ runs(h) = runs(g)
    BY <1>1, <1>2
  <2>4. \A S : listing(h, S) = listing(g, S)
    BY <2>1
  <2> HIDE DEF companies, runs
  <2>5. \A m : of(h, m) = of(g, m)
    BY <2>1, <2>3
  <2>6. markets(h) = markets(g)
    BY <2>1, <2>3
  <2> HIDE DEF listing, of, markets
  <2>7. counts(h) = counts(g) /\ covered(h) = covered(g)
    BY <2>3, <2>4, <2>5, <2>6
  <2> HIDE DEF counts, covered
  <2>8. overview(h) = overview(g)
    BY <2>3, <2>7
  <2> HIDE DEF overview
  <2> QED
    BY <2>2, <2>8
<1> QED
  BY <1>5, <1>6, <1>8, <1>10, <1>11 DEF PanelAnswers

LEMMA AskedAlike ==
  ASSUME NEW g, SoundGraph(g)
  PROVE  Asked(g) = Asked(BulkLoad(g))
<1>1. Alike(g, BulkLoad(g))
  BY LoadedAlike
<1> HIDE DEF BulkLoad
<1> QED
  BY <1>1, EntitiesAlike, EventsAlike, FundsAlike, PanelsAlike DEF Asked

------------------------------------------------------------------------------
LEMMA AnswersHold == WalksInv /\ AnswersInv => AnswersSound
<1> SUFFICES ASSUME WalksInv, AnswersInv PROVE AnswersSound
  OBVIOUS
<1>1. JobsTypeOK
  BY JobsTyped
<1>2. projected => SoundGraph(graph)
  BY DEF projected, AnswersInv, WalksInv
<1>3. BackendsAgree
  BY <1>2, AskedAlike DEF BackendsAgree
<1>4. ExposureIsSymmetric
  BY <1>2, Symmetric DEF ExposureIsSymmetric
<1>5. SectorViewsAgree
  <2> SUFFICES ASSUME projected PROVE SectorViewsAgree
    BY DEF SectorViewsAgree
  <2> QED
    BY <1>2, ViewsAgree DEF SectorViewsAgree
<1> QED
  BY <1>1, <1>3, <1>4, <1>5 DEF AnswersSound

\* Whatever graph the jobs on the snapshot have built, in any order and again and
\* again: no question of the API tells the disk store from the snapshot, exposure
\* through a supplier is the same from the country's side and from the company's,
\* and the menu, the breakdown, the event and the portfolios count one sector alike.
THEOREM AnswersAlwaysSound == JobsSpec => []AnswersSound
<1> USE WalksInit, WalksStep, AnswersInit, AnswersStep
<1>1. JobsInit => WalksInv /\ AnswersInv
  OBVIOUS
<1>2. WalksInv /\ AnswersInv /\ [JobsNext]_<<vars, jobVars>> => WalksInv' /\ AnswersInv'
  OBVIOUS
<1> QED
  BY <1>1, <1>2, AnswersHold, PTL DEF JobsSpec

\* No job on the snapshot takes back an exposure that another, or an earlier run of
\* itself, has shown: upsert_edge never overwrites, and no name that a term is
\* matched with is written twice differently.
THEOREM ExposureAlwaysGrows == JobsSpec => DirectExposureGrows
<1> USE WalksInit, WalksStep, AnswersInit, AnswersStep
<1>1. JobsInit => WalksInv /\ AnswersInv
  OBVIOUS
<1>2. WalksInv /\ AnswersInv /\ [JobsNext]_<<vars, jobVars>> => WalksInv' /\ AnswersInv'
  OBVIOUS
<1>3. WalksInv /\ AnswersInv /\ [JobsNext]_<<vars, jobVars>>
        => [projected => \A e \in Events(graph) :
              ExposedKeys(graph, e[1], e[2]) \subseteq ExposedKeys(graph', e[1], e[2])]_<<vars, jobVars>>
  BY GrowsStep
<1> QED
  BY <1>1, <1>2, <1>3, PTL DEF JobsSpec, DirectExposureGrows
==============================================================================
