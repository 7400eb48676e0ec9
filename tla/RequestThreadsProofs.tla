------------------------ MODULE RequestThreadsProofs ------------------------
(***************************************************************************)
(* What the API's request threads share in memory: the budgets of the rate *)
(* limiter, for any number of threads, keys, calls and minutes, and the    *)
(* feed caches, for any readers, books, lifetimes and fetch times.         *)
(***************************************************************************)
EXTENDS FixedWindowLimiter, Feeds, FiniteSetTheorems, TLAPS

------------------------------------------------------------------------------
(* The limiter.                                                            *)

\* What the lock protects: a thread in the critical section holds it, and what
\* it read is still what the bucket holds.
Exclusive ==
  \A t \in Threads : pc[t] = "counting" => lock = t /\ read[t] = buckets[key[t]]

Capped(n) == IF n <= Limit THEN n ELSE Limit

\* The calls admitted since a reset are those the bucket counted, up to Limit.
CountCoversAdmissions == \A k \in Keys : sinceReset[k] <= Capped(buckets[k].count)

\* How much of the bound on a minute has been used, by whether the bucket has
\* yet to come to that minute, is at it, or is past it.
MinuteShare(k, m) ==
  IF buckets[k].window < m THEN admitted[k][m] <= Limit * late[k]
  ELSE IF buckets[k].window = m
    THEN admitted[k][m] <= Limit * late[k] + Capped(buckets[k].count)
    ELSE admitted[k][m] <= Limit * late[k] + Limit

LimiterInv ==
  /\ TypeOK
  /\ Exclusive
  /\ CountCoversAdmissions
  /\ \A k \in Keys : \A m \in Minute : MinuteShare(k, m)

\* The bounds grow with the late calls by one budget each.
LEMMA BudgetArithmetic ==
  ASSUME NEW n \in Nat
  PROVE  /\ Limit * n \in Nat
         /\ Limit * (n + 1) = Limit * n + Limit
         /\ Limit * (1 + n) = Limit * n + Limit
BY LimitAssumption

LEMMA CappedType == \A n \in Nat : Capped(n) \in Nat /\ Capped(n) <= Limit
BY LimitAssumption DEF Capped

LEMMA LimiterInit == Init => LimiterInv
<1> SUFFICES ASSUME Init PROVE LimiterInv
  OBVIOUS
<1>1. TypeOK
  BY LimitAssumption DEF Init, TypeOK, Minute, Bucket
<1>2. Exclusive
  BY DEF Init, Exclusive
<1>3. CountCoversAdmissions
  BY LimitAssumption DEF Init, CountCoversAdmissions, Capped
<1>4. \A k \in Keys : \A m \in Minute : MinuteShare(k, m)
  <2> TAKE k \in Keys
  <2> TAKE m \in Minute
  <2>1. /\ buckets[k].window = 0 /\ buckets[k].count = 0
        /\ admitted[k][m] = 0 /\ late[k] = 0
    BY DEF Init
  <2>2. Limit * 0 = 0 /\ Capped(0) = 0
    BY LimitAssumption DEF Capped
  <2> QED
    BY <2>1, <2>2, LimitAssumption DEF MinuteShare, Minute
<1> QED
  BY <1>1, <1>2, <1>3, <1>4 DEF LimiterInv

LEMMA WriteStep ==
  ASSUME LimiterInv, NEW t \in Threads, WriteBucket(t)
  PROVE  LimiterInv'
<1> DEFINE k == key[t]
           n == Counted(t)
           admits == IF Within(n) THEN 1 ELSE 0
           s == seen[t]
           w == buckets[k].window
           c == buckets[k].count
<1>1. TypeOK /\ k \in Keys /\ s \in Minute /\ read[t] \in Bucket /\ buckets[k] \in Bucket
  BY DEF LimiterInv, TypeOK
<1>2. read[t] = buckets[k] /\ lock = t
  BY DEF LimiterInv, Exclusive, WriteBucket
<1>3. w \in Nat /\ c \in Nat /\ s \in Nat /\ Minute \subseteq Nat
  BY <1>1 DEF Bucket, Minute
<1>4. n \in Nat \ {0} /\ admits \in {0, 1}
      /\ n = IF c = 0 \/ w # s THEN 1 ELSE c + 1
  BY <1>2, <1>3 DEF Counted, Resets
<1>5. admits = IF n <= Limit THEN 1 ELSE 0
  BY DEF Within
<1>6. /\ buckets' = [buckets EXCEPT ![k] = [window |-> s, count |-> n]]
      /\ admitted' = [admitted EXCEPT ![k] = [admitted[k] EXCEPT ![s] = admitted[k][s] + admits]]
      /\ late' = [late EXCEPT ![k] = late[k] + (IF w > s THEN 1 ELSE 0)]
      /\ sinceReset' = [sinceReset EXCEPT ![k] =
                          admits + (IF c = 0 \/ w # s THEN 0 ELSE sinceReset[k])]
      /\ lock' = NoThread
      /\ pc' = [pc EXCEPT ![t] = "idle"]
      /\ UNCHANGED <<minute, key, seen, read, calls>>
  <2>1. read[t].window = w /\ (Resets(t) <=> c = 0 \/ w # s)
    BY <1>2 DEF Resets
  <2> QED
    BY <2>1 DEF WriteBucket, Released
<1> HIDE DEF n, admits
<1>7. TypeOK'
  <2>1. [window |-> s, count |-> n] \in Bucket
    BY <1>1, <1>4 DEF Bucket
  <2>2. buckets' \in [Keys -> Bucket]
    BY <1>1, <1>6, <2>1 DEF TypeOK
  <2>3. admitted' \in [Keys -> [Minute -> Nat]]
    <3>1. admitted[k] \in [Minute -> Nat] /\ admitted[k][s] + admits \in Nat
      BY <1>1, <1>4 DEF TypeOK
    <3>2. [admitted[k] EXCEPT ![s] = admitted[k][s] + admits] \in [Minute -> Nat]
      BY <3>1
    <3> QED
      BY <1>1, <1>6, <3>2 DEF TypeOK
  <2>4. late' \in [Keys -> Nat] /\ sinceReset' \in [Keys -> Nat]
    BY <1>1, <1>3, <1>4, <1>6 DEF TypeOK
  <2> QED
    BY <1>1, <1>6, <2>2, <2>3, <2>4 DEF TypeOK
<1>8. Exclusive'
  <2> SUFFICES ASSUME NEW u \in Threads, pc'[u] = "counting" PROVE FALSE
    BY DEF Exclusive
  <2>1. u # t /\ pc[u] = "counting"
    BY <1>1, <1>6 DEF TypeOK
  <2> QED
    BY <1>2, <2>1 DEF LimiterInv, Exclusive
<1>9. \A j \in Keys : j # k =>
        /\ buckets'[j] = buckets[j] /\ admitted'[j] = admitted[j]
        /\ late'[j] = late[j] /\ sinceReset'[j] = sinceReset[j]
  BY <1>1, <1>6 DEF TypeOK
<1>10. /\ buckets'[k] = [window |-> s, count |-> n]
       /\ late'[k] = late[k] + (IF w > s THEN 1 ELSE 0)
       /\ sinceReset'[k] = admits + (IF c = 0 \/ w # s THEN 0 ELSE sinceReset[k])
       /\ \A m \in Minute : admitted'[k][m] =
            admitted[k][m] + (IF m = s THEN admits ELSE 0)
  <2>1. /\ admitted[k] \in [Minute -> Nat] /\ admitted \in [Keys -> [Minute -> Nat]]
        /\ buckets \in [Keys -> Bucket] /\ late \in [Keys -> Nat]
        /\ sinceReset \in [Keys -> Nat]
    BY <1>1 DEF TypeOK
  <2>2. admitted'[k] = [admitted[k] EXCEPT ![s] = admitted[k][s] + admits]
    BY <1>1, <1>6, <2>1
  <2>3. \A m \in Minute : admitted'[k][m] =
          admitted[k][m] + (IF m = s THEN admits ELSE 0)
    BY <1>1, <1>4, <2>1, <2>2
  <2> QED
    BY <1>1, <1>6, <2>1, <2>3
<1>11. CountCoversAdmissions'
  <2> SUFFICES ASSUME NEW j \in Keys
               PROVE  sinceReset'[j] <= Capped(buckets'[j].count)
    BY DEF CountCoversAdmissions, Capped
  <2>1. CASE j # k
    BY <1>9, <2>1 DEF LimiterInv, CountCoversAdmissions
  <2>2. CASE j = k
    <3>1. sinceReset[k] \in Nat /\ sinceReset[k] <= Capped(c)
      BY <1>1 DEF LimiterInv, CountCoversAdmissions, TypeOK
    <3> QED
      BY <1>3, <1>4, <1>5, <1>10, <2>2, <3>1, LimitAssumption DEF Capped
  <2> QED
    BY <2>1, <2>2
<1>12. (\A j \in Keys : \A m \in Minute : MinuteShare(j, m))'
  <2> SUFFICES ASSUME NEW j \in Keys, NEW m \in Minute
               PROVE  MinuteShare(j, m)'
    BY DEF Minute
  <2>1. MinuteShare(j, m)
    BY DEF LimiterInv
  <2>2. CASE j # k
    BY <1>9, <2>1, <2>2 DEF MinuteShare, Capped
  <2>3. CASE j = k
    <3> DEFINE a == admitted[k][m]
               bound == Limit * late[k]
    <3>1. a \in Nat /\ late[k] \in Nat /\ m \in Nat
      <4>1. admitted[k] \in [Minute -> Nat]
        BY <1>1 DEF TypeOK
      <4> QED
        BY <1>1, <1>3, <4>1 DEF TypeOK
    <3>2. bound \in Nat /\ Limit * late'[k] = bound + (IF w > s THEN Limit ELSE 0)
      <4>1. bound \in Nat /\ Limit * (late[k] + 1) = bound + Limit
        BY <3>1, BudgetArithmetic
      <4>2. CASE w > s
        <5>1. late'[k] = late[k] + 1
          BY <1>10, <4>2
        <5> QED
          BY <4>1, <4>2, <5>1
      <4>3. CASE ~(w > s)
        <5>1. late'[k] = late[k]
          BY <1>10, <3>1, <4>3
        <5> QED
          BY <4>1, <4>3, <5>1, LimitAssumption
      <4> QED
        BY <4>2, <4>3
    <3>3. Capped(c) \in Nat /\ Capped(c) <= Limit /\ Capped(n) \in Nat
          /\ Limit \in Nat \ {0}
      BY <1>3, <1>4, CappedType, LimitAssumption
    <3>4. w = s /\ c # 0 => Capped(c) + admits = Capped(n)
      BY <1>3, <1>4, <1>5, LimitAssumption DEF Capped
    <3>5. w # s \/ c = 0 => Capped(n) = 1 /\ admits = 1
      BY <1>3, <1>4, <1>5, LimitAssumption DEF Capped
    <3>6. c = 0 => Capped(c) = 0
      BY LimitAssumption DEF Capped
    <3>7. buckets'[k].window = s /\ buckets'[k].count = n
      BY <1>10
    <3>8. IF w < m THEN a <= bound
          ELSE IF w = m THEN a <= bound + Capped(c) ELSE a <= bound + Limit
      BY <2>1, <2>3 DEF MinuteShare
    <3>9. admitted'[k][m] = a + (IF m = s THEN admits ELSE 0)
      BY <1>10
    <3> DEFINE newBound == Limit * late'[k]
               newA == admitted'[k][m]
    <3> HIDE DEF a, bound, newBound, newA
    <3>10. IF s < m THEN newA <= newBound
           ELSE IF s = m THEN newA <= newBound + Capped(n)
             ELSE newA <= newBound + Limit
      <4>1. newBound = bound + (IF w > s THEN Limit ELSE 0)
        BY <3>2 DEF newBound, bound
      <4>2. newA = a + (IF m = s THEN admits ELSE 0)
        BY <3>9 DEF newA, a
      <4>3. bound \in Nat
        BY <3>2 DEF bound
      <4>4. a \in Nat
        BY <3>1 DEF a
      <4> QED
        BY <1>3, <1>4, <3>1, <3>3, <3>4, <3>5, <3>6, <3>8, <4>1, <4>2, <4>3, <4>4
           DEF a, bound
    <3> QED
      BY <2>3, <3>7, <3>10 DEF MinuteShare, newA, newBound, Capped
  <2> QED
    BY <2>2, <2>3
<1> QED
  BY <1>7, <1>8, <1>11, <1>12 DEF LimiterInv

LEMMA LimiterStep == LimiterInv /\ [Next]_vars => LimiterInv'
<1> SUFFICES ASSUME LimiterInv, [Next]_vars PROVE LimiterInv'
  OBVIOUS
<1> USE LimitAssumption
<1>1. CASE NextMinute
  BY <1>1 DEF NextMinute, LimiterInv, TypeOK, Minute, Exclusive,
     CountCoversAdmissions, MinuteShare, Capped
<1>2. ASSUME NEW t \in Threads, NEW k \in Keys, ReadClock(t, k) PROVE LimiterInv'
  <2>1. TypeOK'
    BY <1>2 DEF LimiterInv, ReadClock, NowMinute, TypeOK
  <2>2. Exclusive'
    BY <1>2 DEF LimiterInv, ReadClock, TypeOK, Exclusive
  <2>3. (CountCoversAdmissions /\ \A j \in Keys : \A m \in Minute : MinuteShare(j, m))'
    BY <1>2 DEF LimiterInv, ReadClock, CountCoversAdmissions, MinuteShare, Capped, Minute
  <2> QED
    BY <2>1, <2>2, <2>3 DEF LimiterInv
<1>3. ASSUME NEW t \in Threads, ReadBucket(t) PROVE LimiterInv'
  <2>1. TypeOK'
    BY <1>3 DEF LimiterInv, ReadBucket, TypeOK
  <2>2. Exclusive'
    <3>1. \A u \in Threads : u # t => pc'[u] # "counting"
      BY <1>3 DEF LimiterInv, ReadBucket, LockFree, TypeOK, Exclusive
    <3>2. lock' = t /\ read'[t] = buckets'[key'[t]]
      BY <1>3 DEF LimiterInv, ReadBucket, TypeOK
    <3> QED
      BY <3>1, <3>2 DEF Exclusive
  <2>3. (CountCoversAdmissions /\ \A j \in Keys : \A m \in Minute : MinuteShare(j, m))'
    BY <1>3 DEF LimiterInv, ReadBucket, CountCoversAdmissions, MinuteShare, Capped, Minute
  <2> QED
    BY <2>1, <2>2, <2>3 DEF LimiterInv
<1>4. ASSUME NEW t \in Threads, WriteBucket(t) PROVE LimiterInv'
  BY <1>4, WriteStep
<1>5. CASE UNCHANGED vars
  BY <1>5 DEF vars, LimiterInv, TypeOK, Minute, Exclusive, CountCoversAdmissions,
     MinuteShare, Capped
<1> QED
  BY <1>1, <1>2, <1>3, <1>4, <1>5 DEF Next

\* The invariant of the limiter: types, mutual exclusion and the two budgets.
THEOREM LimiterInvariant == Spec => []LimiterInv
BY LimiterInit, LimiterStep, PTL DEF Spec

\* The types: counts are naturals, and only calls in progress hold a key.
THEOREM LimiterTypes == Spec => []TypeOK
<1>1. LimiterInv => TypeOK
  BY DEF LimiterInv
<1> QED
  BY <1>1, LimiterInvariant, PTL

\* Any number of concurrent calls: between two resets of a bucket at most
\* Limit of them are admitted.
THEOREM WindowBudget == Spec => []BudgetPerWindow
<1>1. LimiterInv => BudgetPerWindow
  <2> SUFFICES ASSUME LimiterInv, NEW k \in Keys PROVE sinceReset[k] <= Limit
    BY DEF BudgetPerWindow
  <2>1. buckets[k].count \in Nat /\ sinceReset[k] \in Nat
    BY DEF LimiterInv, TypeOK, Bucket
  <2> QED
    BY <2>1, LimitAssumption DEF LimiterInv, CountCoversAdmissions, Capped
<1> QED
  BY <1>1, LimiterInvariant, PTL

\* A minute admits at most one budget and one more for every late call.
THEOREM MinuteBudget == Spec => []OvershootIsBounded
<1>1. LimiterInv => OvershootIsBounded
  <2> SUFFICES ASSUME LimiterInv, NEW k \in Keys, NEW m \in Minute
               PROVE  admitted[k][m] <= Limit * (1 + late[k])
    BY DEF OvershootIsBounded
  <2>1. /\ buckets[k].count \in Nat /\ buckets[k].window \in Nat /\ m \in Nat
        /\ late[k] \in Nat /\ admitted[k][m] \in Nat
    <3>1. buckets[k] \in Bucket /\ admitted[k] \in [Minute -> Nat] /\ late[k] \in Nat
      BY DEF LimiterInv, TypeOK
    <3>2. admitted[k][m] \in Nat
      BY <3>1
    <3> QED
      BY <3>1, <3>2 DEF Bucket, Minute
  <2>2. Capped(buckets[k].count) \in Nat /\ Capped(buckets[k].count) <= Limit
    BY <2>1, CappedType
  <2>3. Limit * (1 + late[k]) = Limit * late[k] + Limit /\ Limit * late[k] \in Nat
    BY <2>1, BudgetArithmetic
  <2>4. MinuteShare(k, m)
    BY DEF LimiterInv
  <2> QED
    BY <2>1, <2>2, <2>3, <2>4, LimitAssumption DEF MinuteShare
<1> QED
  BY <1>1, LimiterInvariant, PTL

------------------------------------------------------------------------------
(* The feed caches: what overlapping fetches leave in them and what is served. *)

Symbols == UNION Books
Ages == 0..Horizon
Entry == [stamp : Ages, data : Ages]

\* What a thread is doing; what it has been served is settled.
AskSound(ask) ==
  \/ ask = Idle
  \/ ask \in [op : {"asking", "pricing"}, wanted : Books, age : 0..MaxFetch]
  \/ /\ ask = [op |-> "priced", lag |-> ask.lag, own |-> ask.own, quotes |-> ask.quotes]
     /\ \A s \in DOMAIN ask.quotes \intersect ask.own : ask.quotes[s] - ask.lag <= TTL
  \/ ask \in [op : {"timed", "reading"}, key : NewsKeys, age : 0..MaxFetch]
  \/ ask \in [op : {"calling"}, key : NewsKeys, age : 0..MaxFetch, again : BOOLEAN]
  \/ ask \in [op : {"read"}, entry : Entry, lag : 0..MaxFetch] /\ ask.entry.data - ask.lag <= TTL
  \/ ask \in [op : {"assembling"}, age : 0..MaxFetch, gaps : BOOLEAN]

AsksInv == asks = [t \in Readers |-> asks[t]] /\ \A t \in Readers : AskSound(asks[t])

\* The one stamp is no fresher than the quotes its fetch brought.
PricesInv ==
  /\ quotes = [s \in DOMAIN quotes |-> quotes[s]] /\ \A s \in DOMAIN quotes : quotes[s] \in Ages
  /\ fetchedAt \in Ages \union {Never} /\ covered \subseteq DOMAIN quotes
  /\ fetchedAt = Never => covered = {}
  /\ \A s \in covered : quotes[s] <= fetchedAt

\* An entry is no fresher than its articles.
HeadlinesInv ==
  /\ headlines = [k \in DOMAIN headlines |-> headlines[k]]
  /\ \A k \in DOMAIN headlines : headlines[k] \in Entry /\ headlines[k].data <= headlines[k].stamp

\* Ages of the clock readings of the recent calls.
CallAges == 0..(MinInterval + MaxFetch - 1)

\* A thread that asks read its clock after its calls, and once through the gate,
\* unless again, an interval after.
AskFollows(ask, c) ==
  /\ ask.op \in {"timed", "calling"} => ask.age <= c.age
  /\ ask.op = "calling" => ask.again \/ MinInterval <= c.age - ask.age

\* The stamp of the gate is no older than the calls of the threads behind whom
\* nobody has taken it back, and the calls of one thread are an interval apart.
CallsInv ==
  /\ lastCall \in Ages \union {Never}
  /\ newsCalls \subseteq [by : Readers, age : CallAges]
  /\ \A c \in newsCalls : c.by \in reopened \/ (lastCall # Never /\ lastCall <= c.age)
  /\ \A c, d \in newsCalls : c.by = d.by => \/ c = d
                                          \/ MinInterval <= c.age - d.age
                                          \/ MinInterval <= d.age - c.age
  /\ \A c \in newsCalls : AskFollows(asks[c.by], c)

MacroInv == tile \in [stamp : Ages \union {Never}, complete : BOOLEAN]

FeedsInv == AsksInv /\ PricesInv /\ HeadlinesInv /\ CallsInv /\ MacroInv

LEMMA Bounds ==
  /\ Horizon \in Nat /\ Ages \subseteq Nat /\ Never \notin Ages
  /\ 0 \in Ages /\ 0..MaxFetch \subseteq Ages /\ TTL < Horizon /\ MinInterval <= Horizon
  /\ CallAges \subseteq Ages /\ 0..MaxFetch \subseteq CallAges
BY FeedsAssumption DEF Horizon, Ages, Never, CallAges

LEMMA OlderAges ==
  /\ \A age \in Ages : Older(age) \in Ages
  /\ Older(Never) = Never
  /\ \A young, old \in Ages : young <= old => Older(young) <= Older(old)
BY Bounds DEF Older, Ages

LEMMA FeedsStart == FeedsInit => FeedsInv
<1> SUFFICES ASSUME FeedsInit PROVE FeedsInv
  OBVIOUS
<1>1. AsksInv
  BY DEF FeedsInit, AsksInv, AskSound
<1>2. PricesInv
  BY DEF FeedsInit, PricesInv
<1>3. HeadlinesInv
  BY DEF FeedsInit, HeadlinesInv
<1>4. CallsInv
  BY DEF FeedsInit, CallsInv
<1>5. MacroInv
  BY DEF FeedsInit, MacroInv, Nothing
<1> QED
  BY <1>1, <1>2, <1>3, <1>4, <1>5 DEF FeedsInv

\* One thread's step, by what it does next.
LEMMA TurnsSound ==
  ASSUME AsksInv, NEW t \in Readers, NEW ask, Turns(t, ask), AskSound(ask)
  PROVE  AsksInv'
BY DEF AsksInv, Turns

\* What a thread is at when it is not between its clock reading and its call.
Ungated == {"idle", "asking", "pricing", "priced", "reading", "read", "assembling"}

LEMMA PricesKept == ASSUME PricesInv, UNCHANGED prices PROVE PricesInv'
BY DEF PricesInv, prices

LEMMA HeadlinesKept == ASSUME HeadlinesInv, UNCHANGED headlines PROVE HeadlinesInv'
BY DEF HeadlinesInv

\* A step that calls nobody and lets no thread through the gate.
LEMMA CallsKept ==
  ASSUME CallsInv, AsksInv, NEW t \in Readers, NEW ask, Turns(t, ask), ask.op \in Ungated,
         UNCHANGED <<lastCall, newsCalls, reopened>>
  PROVE  CallsInv'
<1>1. ASSUME NEW c \in newsCalls PROVE AskFollows(asks'[c.by], c)
  <2>1. asks'[c.by] = IF c.by = t THEN ask ELSE asks[c.by]
    BY <1>1 DEF CallsInv, AsksInv, Turns
  <2> QED
    BY <1>1, <2>1 DEF CallsInv, AskFollows, Ungated
<1> QED
  BY <1>1 DEF CallsInv

-----------------------------------------------------------------------------
(* Prices. *)

\* A thread reads the clock.
LEMMA ReadPriceClockStep ==
  ASSUME FeedsInv, NEW t \in Readers, NEW book \in Books, ReadPriceClock(t, book)
  PROVE  FeedsInv'
<1> DEFINE ask == [op |-> "asking", wanted |-> book, age |-> 0]
<1>1. /\ PricesInv' /\ HeadlinesInv' /\ MacroInv'
      /\ UNCHANGED <<lastCall, newsCalls, reopened>>
  BY PricesKept, HeadlinesKept DEF ReadPriceClock, FeedsInv, MacroInv, news, macro
<1>2. AskSound(ask) /\ ask.op \in Ungated /\ Turns(t, ask)
  BY FeedsAssumption DEF AskSound, ReadPriceClock, Ungated
<1> HIDE DEF ask
<1> QED
  BY <1>1, <1>2, TurnsSound, CallsKept DEF FeedsInv

LEMMA AskQuotesStep ==
  ASSUME FeedsInv, NEW t \in Readers, AskQuotes(t)
  PROVE  FeedsInv'
<1>1. /\ PricesInv /\ PricesInv'
      /\ HeadlinesInv' /\ MacroInv'
      /\ UNCHANGED <<lastCall, newsCalls, reopened>>
  BY PricesKept, HeadlinesKept DEF AskQuotes, FeedsInv, MacroInv, news, macro
<1>2. asks[t] \in [op : {"asking"}, wanted : Books, age : 0..MaxFetch]
  BY DEF AskQuotes, FeedsInv, AsksInv, AskSound, Idle
<1>3. asks[t].age \in Nat /\ asks[t].wanted \in Books
  BY <1>2, FeedsAssumption
<1>4. CASE Stale(asks[t])
  <2> DEFINE ask == [asks[t] EXCEPT !.op = "pricing"]
  <2>1. AskSound(ask) /\ ask.op \in Ungated
    BY <1>2 DEF AskSound, Ungated
  <2>2. Turns(t, ask)
    BY <1>4 DEF AskQuotes
  <2> HIDE DEF ask
  <2> QED
    BY <1>1, <2>1, <2>2, TurnsSound, CallsKept DEF FeedsInv
<1>5. CASE ~Stale(asks[t])
  <2> DEFINE book == asks[t].wanted
             ask == [op |-> "priced", lag |-> asks[t].age, own |-> covered,
                     quotes |-> [s \in book \intersect DOMAIN quotes |-> quotes[s]]]
  <2>1. fetchedAt \in Ages /\ fetchedAt - asks[t].age <= TTL
    <3>1. fetchedAt # Never /\ ~(fetchedAt - asks[t].age > TTL)
      BY <1>5 DEF Stale, ExpiredThen
    <3> QED
      BY <1>1, <1>3, <3>1, Bounds, FeedsAssumption DEF PricesInv
  <2>2. ASSUME NEW s \in DOMAIN ask.quotes \intersect ask.own PROVE ask.quotes[s] - ask.lag <= TTL
    <3>1. ask.quotes[s] = quotes[s] /\ s \in covered /\ ask.lag = asks[t].age
      BY <2>2
    <3>2. quotes[s] \in Nat /\ quotes[s] <= fetchedAt /\ fetchedAt \in Nat
      BY <1>1, <2>1, <3>1, Bounds DEF PricesInv
    <3> QED
      BY <1>3, <2>1, <3>1, <3>2, FeedsAssumption
  <2>3. ask = [op |-> "priced", lag |-> ask.lag, own |-> ask.own, quotes |-> ask.quotes]
        /\ ask.op \in Ungated
    BY DEF Ungated
  <2>4. Turns(t, ask)
    BY <1>5 DEF AskQuotes, Serve
  <2> HIDE DEF ask
  <2>5. AskSound(ask)
    BY <2>2, <2>3 DEF AskSound
  <2> QED
    BY <1>1, <2>3, <2>4, <2>5, TurnsSound, CallsKept DEF FeedsInv
<1> QED
  BY <1>4, <1>5

LEMMA QuotesFetchedStep ==
  ASSUME FeedsInv, NEW t \in Readers, QuotesFetched(t)
  PROVE  FeedsInv'
<1>1. /\ HeadlinesInv' /\ MacroInv'
      /\ UNCHANGED <<lastCall, newsCalls, reopened>>
  BY HeadlinesKept DEF QuotesFetched, FeedsInv, MacroInv, news, macro
<1>2. asks[t] \in [op : {"pricing"}, wanted : Books, age : 0..MaxFetch]
  BY DEF QuotesFetched, FeedsInv, AsksInv, AskSound, Idle
<1>3. asks[t].age \in Ages /\ asks[t].age \in Nat /\ asks[t].wanted \in Books /\ asks[t].op = "pricing"
  BY <1>2, Bounds
<1>4. PICK got \in SUBSET asks[t].wanted, age \in 0 .. asks[t].age :
        LET cache == Update(quotes, [s \in got |-> age]) IN
         /\ quotes' = cache
         /\ IF got = {} THEN UNCHANGED <<fetchedAt, covered>>
            ELSE fetchedAt' = StampAge(asks[t]) /\ covered' = got
         /\ Serve(t, asks[t].wanted, cache, asks[t].age, got)
  BY DEF QuotesFetched
<1>5. quotes' = [s \in DOMAIN quotes \union got |-> IF s \in got THEN age ELSE quotes[s]]
  BY <1>4 DEF Update
<1>6. age \in Ages /\ age \in Nat /\ age <= asks[t].age
  BY <1>3, Bounds DEF Ages
<1>7. PricesInv'
  <2>1. DOMAIN quotes' = DOMAIN quotes \union got
    BY <1>5
  <2>2. \A s \in DOMAIN quotes' : quotes'[s] \in Ages
    BY <1>5, <1>6 DEF FeedsInv, PricesInv
  <2>3. quotes' = [s \in DOMAIN quotes' |-> quotes'[s]]
    BY <1>5
  <2>4. CASE got = {}
    <3>1. quotes' = quotes /\ UNCHANGED <<fetchedAt, covered>>
      BY <1>4, <1>5, <2>4 DEF FeedsInv, PricesInv
    <3> QED
      BY <3>1, PricesKept DEF FeedsInv, prices
  <2>5. CASE got # {}
    <3>1. fetchedAt' = asks[t].age /\ covered' = got
      BY <1>4, <2>5 DEF StampAge
    <3>2. \A s \in got : quotes'[s] = age
      BY <1>5
    <3>3. fetchedAt' # Never
      BY <1>3, <3>1, Bounds
    <3> QED
      BY <1>3, <1>6, <2>1, <2>2, <2>3, <3>1, <3>2, <3>3 DEF PricesInv
  <2> QED
    BY <2>4, <2>5
<1> DEFINE ask == [op |-> "priced", lag |-> asks[t].age, own |-> got,
                   quotes |-> [s \in asks[t].wanted \intersect DOMAIN quotes' |-> quotes'[s]]]
<1>8. Turns(t, ask)
  BY <1>4 DEF Serve
<1>9. ASSUME NEW s \in DOMAIN ask.quotes \intersect ask.own PROVE ask.quotes[s] - ask.lag <= TTL
  <2>1. ask.quotes[s] = age /\ ask.lag = asks[t].age
    BY <1>5, <1>9
  <2> QED
    BY <1>3, <1>6, <2>1, FeedsAssumption
<1>10. ask = [op |-> "priced", lag |-> ask.lag, own |-> ask.own, quotes |-> ask.quotes]
       /\ ask.op \in Ungated
  BY DEF Ungated
<1> HIDE DEF ask
<1>11. AskSound(ask)
  BY <1>9, <1>10 DEF AskSound
<1> QED
  BY <1>1, <1>7, <1>8, <1>10, <1>11, TurnsSound, CallsKept DEF FeedsInv

\* A thread takes its answer away.
LEMMA AnswerStep ==
  ASSUME FeedsInv, NEW t \in Readers, Turns(t, Idle), UNCHANGED <<prices, news, macro>>
  PROVE  FeedsInv'
<1>1. PricesInv' /\ HeadlinesInv' /\ MacroInv' /\ UNCHANGED <<lastCall, newsCalls, reopened>>
  BY PricesKept, HeadlinesKept DEF FeedsInv, MacroInv, news, macro
<1>2. AskSound(Idle) /\ Idle.op \in Ungated
  BY DEF AskSound, Idle, Ungated
<1> QED
  BY <1>1, <1>2, TurnsSound, CallsKept DEF FeedsInv

-----------------------------------------------------------------------------
(* News. *)

LEMMA ReadNewsClockStep ==
  ASSUME FeedsInv, NEW t \in Readers, NEW feed \in NewsKeys, ReadNewsClock(t, feed)
  PROVE  FeedsInv'
<1> DEFINE ask == [op |-> "timed", key |-> feed, age |-> 0]
<1>1. /\ PricesInv' /\ HeadlinesInv' /\ MacroInv'
      /\ UNCHANGED <<lastCall, newsCalls, reopened>>
  BY PricesKept, HeadlinesKept DEF ReadNewsClock, FeedsInv, MacroInv, news, macro
<1>2. AskSound(ask) /\ ask.op = "timed" /\ ask.age = 0 /\ Turns(t, ask)
  BY FeedsAssumption DEF AskSound, ReadNewsClock
<1> HIDE DEF ask
<1>3. ASSUME NEW c \in newsCalls PROVE AskFollows(asks'[c.by], c)
  <2>1. asks'[c.by] = IF c.by = t THEN ask ELSE asks[c.by]
    BY <1>2, <1>3 DEF FeedsInv, CallsInv, AsksInv, Turns
  <2>2. 0 <= c.age
    BY <1>3, FeedsAssumption DEF FeedsInv, CallsInv, CallAges
  <2> QED
    BY <1>2, <1>3, <2>1, <2>2 DEF FeedsInv, CallsInv, AskFollows
<1>4. CallsInv'
  BY <1>1, <1>3 DEF FeedsInv, CallsInv
<1> QED
  BY <1>1, <1>2, <1>4, TurnsSound DEF FeedsInv

LEMMA AskNewsStep ==
  ASSUME FeedsInv, NEW t \in Readers, AskNews(t)
  PROVE  FeedsInv'
<1> DEFINE feed == asks[t].key
<1>1. /\ PricesInv' /\ HeadlinesInv' /\ MacroInv'
      /\ UNCHANGED <<prices, news, macro>> /\ UNCHANGED <<lastCall, newsCalls, reopened>>
  BY PricesKept, HeadlinesKept DEF AskNews, FeedsInv, MacroInv, news, macro
<1>2. asks[t] \in [op : {"timed"}, key : NewsKeys, age : 0..MaxFetch]
  BY DEF AskNews, FeedsInv, AsksInv, AskSound, Idle
<1>3. asks[t].age \in 0..MaxFetch /\ asks[t].age \in Nat /\ feed \in NewsKeys /\ asks[t].op = "timed"
  BY <1>2, FeedsAssumption
<1>4. CASE Fresh(asks[t])
  <2> DEFINE ask == [op |-> "read", entry |-> headlines[feed], lag |-> asks[t].age]
  <2>1. headlines[feed] \in Entry /\ headlines[feed].data <= headlines[feed].stamp
        /\ headlines[feed].stamp - asks[t].age <= TTL
    BY <1>4 DEF Fresh, FeedsInv, HeadlinesInv
  <2>2. headlines[feed].data - asks[t].age <= TTL
    <3>1. headlines[feed].data \in Nat /\ headlines[feed].stamp \in Nat
      BY <2>1, Bounds DEF Entry
    <3> QED
      BY <1>3, <2>1, <3>1, FeedsAssumption
  <2>3. AskSound(ask) /\ ask.op \in Ungated
    BY <1>3, <2>1, <2>2 DEF AskSound, Ungated
  <2>4. Turns(t, ask)
    BY <1>4 DEF AskNews
  <2> HIDE DEF ask
  <2> QED
    BY <1>1, <2>3, <2>4, TurnsSound, CallsKept DEF FeedsInv
<1>5. CASE ~Fresh(asks[t]) /\ Gated(asks[t])
  BY <1>1, <1>5, AnswerStep DEF AskNews
<1>6. CASE ~Fresh(asks[t]) /\ ~Gated(asks[t])
  <2> DEFINE ask == [op |-> "calling", key |-> feed, age |-> asks[t].age, again |-> t \in reopened]
  <2>1. AskSound(ask)
    BY <1>3 DEF AskSound
  <2>2. Turns(t, ask)
    BY <1>6 DEF AskNews
  <2>3. ask.age = asks[t].age /\ ask.again = (t \in reopened)
    OBVIOUS
  <2> HIDE DEF ask
  <2>4. ASSUME NEW c \in newsCalls PROVE AskFollows(asks'[c.by], c)
    <3>1. asks'[c.by] = IF c.by = t THEN ask ELSE asks[c.by]
      BY <2>2, <2>4 DEF FeedsInv, CallsInv, AsksInv, Turns
    <3>2. CASE c.by # t
      BY <2>4, <3>1, <3>2 DEF FeedsInv, CallsInv
    <3>3. CASE c.by = t
      <4>1. asks[t].age <= c.age /\ c.age \in Nat
        BY <1>3, <2>4, <3>3, FeedsAssumption DEF FeedsInv, CallsInv, AskFollows, CallAges
      <4>2. t \in reopened \/ MinInterval <= c.age - asks[t].age
        <5> SUFFICES ASSUME t \notin reopened PROVE MinInterval <= c.age - asks[t].age
          OBVIOUS
        <5>1. lastCall # Never /\ lastCall <= c.age /\ lastCall \in Nat
          BY <2>4, <3>3, Bounds DEF FeedsInv, CallsInv
        <5>2. ~(lastCall - asks[t].age < MinInterval)
          BY <1>6, <5>1 DEF Gated
        <5> QED
          BY <1>3, <4>1, <5>1, <5>2, FeedsAssumption
      <4> QED
        BY <2>3, <3>1, <3>3, <4>1, <4>2 DEF AskFollows
    <3> QED
      BY <3>2, <3>3
  <2>5. CallsInv'
    BY <1>1, <2>4 DEF CallsInv, FeedsInv
  <2> QED
    BY <1>1, <2>1, <2>2, <2>5, TurnsSound DEF FeedsInv
<1> QED
  BY <1>4, <1>5, <1>6

\* The calls of one interval are made by different threads.
LEMMA CallsFinite ==
  ASSUME CallsInv, NEW since \in 0..MaxFetch
  PROVE  LET within == {c \in newsCalls : c.age \in since .. since + MinInterval - 1}
         IN  IsFiniteSet(within) /\ Cardinality(within) <= Cardinality(Readers)
<1> DEFINE within == {c \in newsCalls : c.age \in since .. since + MinInterval - 1}
           who == [c \in within |-> c.by]
<1>1. who \in [within -> Readers]
  BY DEF CallsInv
<1>2. ASSUME NEW c \in within, NEW d \in within, c.by = d.by PROVE c = d
  <2>1. /\ c.age \in Nat /\ d.age \in Nat /\ since \in Nat
        /\ since <= c.age /\ c.age <= since + MinInterval - 1
        /\ since <= d.age /\ d.age <= since + MinInterval - 1
    BY <1>2, FeedsAssumption DEF CallsInv, CallAges
  <2> QED
    BY <1>2, <2>1, FeedsAssumption DEF CallsInv
<1>3. who \in Injection(within, Readers)
  BY <1>1, <1>2 DEF Injection, IsInjective
<1> HIDE DEF who, within
<1>4. IsFiniteSet(within) /\ Cardinality(within) <= Cardinality(Readers)
  BY <1>3, FeedsAssumption, FS_Injection
<1> QED
  BY <1>4 DEF within

LEMMA CallNewsStep ==
  ASSUME FeedsInv, NEW t \in Readers, CallNews(t)
  PROVE  FeedsInv'
<1>1. PricesInv' /\ HeadlinesInv' /\ MacroInv'
  BY PricesKept, HeadlinesKept DEF CallNews, FeedsInv, MacroInv, macro
<1>2. asks[t] \in [op : {"calling"}, key : NewsKeys, age : 0..MaxFetch, again : BOOLEAN]
  BY DEF CallNews, FeedsInv, AsksInv, AskSound, Idle
<1> DEFINE age == asks[t].age
           ask == [op |-> "reading", key |-> asks[t].key, age |-> age]
           call == [by |-> t, age |-> age]
<1>3. age \in 0..MaxFetch /\ age \in Nat /\ age \in Ages /\ age \in CallAges /\ age # Never
  BY <1>2, Bounds, FeedsAssumption
<1>4. AskSound(ask) /\ ask.op \in Ungated
  BY <1>2 DEF AskSound, Ungated
<1>5. /\ Turns(t, ask) /\ lastCall' = age
      /\ newsCalls' = (IF asks[t].again THEN newsCalls ELSE newsCalls \union {call})
      /\ reopened' = (IF lastCall # Never /\ lastCall < age THEN Readers \ {t} ELSE reopened \ {t})
  BY DEF CallNews, GateStamp
<1>6. call \in [by : Readers, age : CallAges] /\ call.by = t /\ call.age = age
  BY <1>3
<1>7. AsksInv'
  BY <1>4, <1>5, TurnsSound DEF FeedsInv
<1>8. ASSUME NEW c \in newsCalls, c.by = t
      PROVE  /\ c.age \in Nat /\ age <= c.age
             /\ asks[t].again \/ MinInterval <= c.age - age
  BY <1>2, <1>8, FeedsAssumption DEF FeedsInv, CallsInv, AskFollows, CallAges
<1> HIDE DEF ask, call, age
<1>9. CallsInv'
  <2>1. lastCall' \in Ages \union {Never} /\ newsCalls' \subseteq [by : Readers, age : CallAges]
    BY <1>3, <1>5, <1>6 DEF FeedsInv, CallsInv
  <2>2. ASSUME NEW c \in newsCalls', c.by \notin reopened' PROVE lastCall' # Never /\ lastCall' <= c.age
    <3>1. CASE c.by = t
      BY <1>3, <1>5, <1>6, <1>8, <2>2, <3>1
    <3>2. CASE c.by # t
      <4>1. c \in newsCalls /\ c.by \in Readers /\ c.age \in Nat
        BY <1>5, <1>6, <2>2, <3>2, FeedsAssumption DEF FeedsInv, CallsInv, CallAges
      <4>2. ~(lastCall # Never /\ lastCall < age) /\ c.by \notin reopened
        BY <1>5, <2>2, <3>2, <4>1
      <4>3. lastCall # Never /\ lastCall <= c.age /\ lastCall \in Nat
        BY <4>1, <4>2, Bounds DEF FeedsInv, CallsInv
      <4> QED
        BY <1>3, <1>5, <4>1, <4>2, <4>3
    <3> QED
      BY <3>1, <3>2
  <2>3. ASSUME NEW c \in newsCalls', NEW d \in newsCalls', c.by = d.by
        PROVE  c = d \/ MinInterval <= c.age - d.age \/ MinInterval <= d.age - c.age
    <3>1. CASE c \in newsCalls /\ d \in newsCalls
      BY <2>3, <3>1 DEF FeedsInv, CallsInv
    <3>2. CASE c \notin newsCalls \/ d \notin newsCalls
      <4>1. ~asks[t].again /\ (c = call \/ d = call)
        BY <1>5, <3>2
      <4>2. (c \in newsCalls \/ c = call) /\ (d \in newsCalls \/ d = call)
        BY <1>5
      <4> QED
        BY <1>3, <1>6, <1>8, <2>3, <4>1, <4>2
    <3> QED
      BY <3>1, <3>2
  <2>4. ASSUME NEW c \in newsCalls' PROVE AskFollows(asks'[c.by], c)
    <3>1. c.by \in Readers /\ asks'[c.by] = IF c.by = t THEN ask ELSE asks[c.by]
      BY <1>5, <1>6, <2>4 DEF FeedsInv, CallsInv, AsksInv, Turns
    <3>2. CASE c.by = t
      BY <1>4, <3>1, <3>2 DEF AskFollows, Ungated
    <3>3. CASE c.by # t
      BY <1>5, <1>6, <2>4, <3>1, <3>3 DEF FeedsInv, CallsInv
    <3> QED
      BY <3>2, <3>3
  <2> QED
    BY <2>1, <2>2, <2>3, <2>4 DEF CallsInv
<1> QED
  BY <1>1, <1>7, <1>9 DEF FeedsInv

LEMMA NewsFetchedStep ==
  ASSUME FeedsInv, NEW t \in Readers, NewsFetched(t)
  PROVE  FeedsInv'
<1>1. PricesInv' /\ MacroInv' /\ UNCHANGED <<lastCall, newsCalls, reopened>> /\ Turns(t, Idle)
  BY PricesKept DEF NewsFetched, FeedsInv, MacroInv, macro
<1>2. asks[t] \in [op : {"reading"}, key : NewsKeys, age : 0..MaxFetch]
  BY DEF NewsFetched, FeedsInv, AsksInv, AskSound, Idle
<1>3. AskSound(Idle) /\ Idle.op \in Ungated
  BY DEF AskSound, Idle, Ungated
<1>4. HeadlinesInv'
  <2>1. CASE UNCHANGED headlines
    BY <2>1, HeadlinesKept DEF FeedsInv
  <2>2. ASSUME NEW age \in 0 .. asks[t].age,
               headlines' = Update(headlines,
                              [k \in {asks[t].key} |-> [stamp |-> StampAge(asks[t]), data |-> age]])
        PROVE  HeadlinesInv'
    <3>1. asks[t].age \in Ages /\ asks[t].age \in Nat /\ age \in Ages /\ age <= asks[t].age
      BY <1>2, <2>2, Bounds DEF Ages
    <3> DEFINE entry == [stamp |-> asks[t].age, data |-> age]
    <3>2. entry \in Entry /\ entry.data <= entry.stamp
      BY <3>1 DEF Entry
    <3>3. headlines' = [k \in DOMAIN headlines \union {asks[t].key} |->
                          IF k = asks[t].key THEN entry ELSE headlines[k]]
      BY <2>2 DEF Update, StampAge
    <3> HIDE DEF entry
    <3> QED
      BY <3>2, <3>3 DEF FeedsInv, HeadlinesInv
  <2> QED
    BY <2>1, <2>2 DEF NewsFetched
<1> QED
  BY <1>1, <1>3, <1>4, TurnsSound, CallsKept DEF FeedsInv

-----------------------------------------------------------------------------
(* Macro and the clock. *)

LEMMA MacroStep ==
  ASSUME FeedsInv, MacroNext
  PROVE  FeedsInv'
<1>1. PricesInv' /\ HeadlinesInv' /\ UNCHANGED <<lastCall, newsCalls, reopened>>
  BY PricesKept, HeadlinesKept DEF MacroNext, SourcesChange, AskMacro, MacroAssembled, FeedsInv, news
<1>2. CASE SourcesChange
  <2>1. MacroInv' /\ asks' = [t \in Readers |-> IF asks[t].op = "assembling" THEN [asks[t] EXCEPT !.gaps = TRUE]
                                                                        ELSE asks[t]]
    BY <1>2 DEF SourcesChange, FeedsInv, MacroInv
  <2>2. ASSUME NEW t \in Readers, asks[t].op = "assembling"
        PROVE  AskSound(asks'[t]) /\ asks'[t].op = "assembling"
    <3>1. asks[t] \in [op : {"assembling"}, age : 0..MaxFetch, gaps : BOOLEAN]
      BY <2>2 DEF FeedsInv, AsksInv, AskSound, Idle
    <3> QED
      BY <2>1, <2>2, <3>1 DEF AskSound
  <2>3. \A t \in Readers : asks[t].op # "assembling" => asks'[t] = asks[t]
    BY <2>1
  <2>4. AsksInv'
    BY <2>1, <2>2, <2>3 DEF FeedsInv, AsksInv
  <2>5. CallsInv'
    <3>1. ASSUME NEW c \in newsCalls PROVE AskFollows(asks'[c.by], c)
      <4>1. c.by \in Readers
        BY <3>1 DEF FeedsInv, CallsInv
      <4> QED
        BY <2>2, <2>3, <3>1, <4>1 DEF FeedsInv, CallsInv, AskFollows
    <3> QED
      BY <1>1, <3>1 DEF FeedsInv, CallsInv
  <2> QED
    BY <1>1, <2>1, <2>4, <2>5 DEF FeedsInv
<1>3. ASSUME NEW t \in Readers, AskMacro(t) PROVE FeedsInv'
  <2>1. CASE Expired(tile.stamp)
    <3> DEFINE ask == [op |-> "assembling", age |-> 0, gaps |-> sources = "down"]
    <3>1. AskSound(ask) /\ ask.op \in Ungated
      BY FeedsAssumption DEF AskSound, Ungated
    <3>2. Turns(t, ask) /\ tile' = tile
      BY <1>3, <2>1 DEF AskMacro
    <3> HIDE DEF ask
    <3> QED
      BY <1>1, <3>1, <3>2, TurnsSound, CallsKept DEF FeedsInv, MacroInv
  <2>2. CASE ~Expired(tile.stamp)
    BY <1>1, <1>3, <2>2 DEF AskMacro, Cached, FeedsInv, AsksInv, CallsInv, AskFollows, MacroInv
  <2> QED
    BY <2>1, <2>2
<1>4. ASSUME NEW t \in Readers, MacroAssembled(t) PROVE FeedsInv'
  <2>1. AskSound(Idle) /\ Idle.op \in Ungated
    BY DEF AskSound, Idle, Ungated
  <2>2. PICK complete \in BOOLEAN : tile' = [stamp |-> 0, complete |-> complete]
    BY <1>4 DEF MacroAssembled
  <2>3. MacroInv'
    BY <2>2, Bounds DEF MacroInv
  <2> QED
    BY <1>1, <1>4, <2>1, <2>3, TurnsSound, CallsKept DEF MacroAssembled, FeedsInv
<1> QED
  BY <1>2, <1>3, <1>4 DEF MacroNext

LEMMA TickStep ==
  ASSUME FeedsInv, Tick
  PROVE  FeedsInv'
<1>1. AsksInv'
  <2>1. ASSUME NEW t \in Readers PROVE AskSound(asks'[t])
    <3>1. asks'[t] = IF "age" \in DOMAIN asks[t] THEN [asks[t] EXCEPT !.age = @ + 1] ELSE asks[t]
      BY DEF Tick
    <3>2. CASE "age" \notin DOMAIN asks[t]
      BY <3>1, <3>2 DEF FeedsInv, AsksInv
    <3>3. CASE "age" \in DOMAIN asks[t]
      <4>1. asks[t].age < MaxFetch
        BY <3>3 DEF Tick
      <4>2. \/ asks[t] \in [op : {"asking", "pricing"}, wanted : Books, age : 0..MaxFetch]
            \/ asks[t] \in [op : {"timed", "reading"}, key : NewsKeys, age : 0..MaxFetch]
            \/ asks[t] \in [op : {"calling"}, key : NewsKeys, age : 0..MaxFetch, again : BOOLEAN]
            \/ asks[t] \in [op : {"assembling"}, age : 0..MaxFetch, gaps : BOOLEAN]
        <5>1. asks[t] # Idle
          BY <3>3 DEF Idle
        <5>2. asks[t] # [op |-> "priced", lag |-> asks[t].lag, own |-> asks[t].own,
                         quotes |-> asks[t].quotes]
          <6> SUFFICES ASSUME asks[t] = [op |-> "priced", lag |-> asks[t].lag, own |-> asks[t].own,
                                         quotes |-> asks[t].quotes]
                       PROVE  FALSE
            OBVIOUS
          <6>1. DOMAIN asks[t] = {"op", "lag", "own", "quotes"}
            OBVIOUS
          <6> QED
            BY <3>3, <6>1
        <5>3. asks[t] \notin [op : {"read"}, entry : Entry, lag : 0..MaxFetch]
          BY <3>3
        <5> QED
          BY <5>1, <5>2, <5>3 DEF FeedsInv, AsksInv, AskSound
      <4>3. asks[t].age + 1 \in 0..MaxFetch
        BY <4>1, <4>2, FeedsAssumption
      <4>4. \/ asks'[t] \in [op : {"asking", "pricing"}, wanted : Books, age : 0..MaxFetch]
            \/ asks'[t] \in [op : {"timed", "reading"}, key : NewsKeys, age : 0..MaxFetch]
            \/ asks'[t] \in [op : {"calling"}, key : NewsKeys, age : 0..MaxFetch, again : BOOLEAN]
            \/ asks'[t] \in [op : {"assembling"}, age : 0..MaxFetch, gaps : BOOLEAN]
        BY <3>1, <3>3, <4>2, <4>3
      <4> QED
        BY <4>4 DEF AskSound
    <3> QED
      BY <3>2, <3>3
  <2>2. asks' = [t \in Readers |-> asks'[t]]
    BY DEF Tick
  <2> QED
    BY <2>1, <2>2 DEF AsksInv
<1>2. PricesInv'
  <2>1. quotes' = [s \in DOMAIN quotes |-> Older(quotes[s])] /\ fetchedAt' = Older(fetchedAt)
        /\ covered' = covered
    BY DEF Tick
  <2>2. \A s \in DOMAIN quotes' : quotes'[s] \in Ages
    BY <2>1, OlderAges DEF FeedsInv, PricesInv
  <2>3. fetchedAt' \in Ages \union {Never} /\ (fetchedAt' = Never => covered' = {})
    BY <2>1, OlderAges, Bounds DEF FeedsInv, PricesInv
  <2>4. \A s \in covered' : quotes'[s] <= fetchedAt'
    BY <2>1, OlderAges DEF FeedsInv, PricesInv
  <2> QED
    BY <2>1, <2>2, <2>3, <2>4 DEF FeedsInv, PricesInv
<1>3. HeadlinesInv'
  <2>1. headlines' = [k \in DOMAIN headlines |-> [stamp |-> Older(headlines[k].stamp),
                                                  data |-> Older(headlines[k].data)]]
    BY DEF Tick
  <2>2. ASSUME NEW k \in DOMAIN headlines'
        PROVE  headlines'[k] \in Entry /\ headlines'[k].data <= headlines'[k].stamp
    <3>1. /\ headlines[k].stamp \in Ages /\ headlines[k].data \in Ages
          /\ headlines[k].data <= headlines[k].stamp
      BY <2>1, <2>2 DEF FeedsInv, HeadlinesInv, Entry
    <3> QED
      BY <2>1, <2>2, <3>1, OlderAges DEF Entry
  <2> QED
    BY <2>1, <2>2 DEF HeadlinesInv
<1>4. CallsInv'
  <2>1. /\ lastCall' = Older(lastCall) /\ reopened' = reopened
        /\ newsCalls' = {[c EXCEPT !.age = @ + 1] :
                            c \in {d \in newsCalls : d.age + 1 < MinInterval + MaxFetch}}
    BY DEF Tick
  <2>2. lastCall' \in Ages \union {Never}
    BY <2>1, OlderAges DEF FeedsInv, CallsInv
  <2>3. \A c \in newsCalls' : \E d \in newsCalls :
          c = [d EXCEPT !.age = @ + 1] /\ d.age + 1 < MinInterval + MaxFetch
    BY <2>1
  <2>4. ASSUME NEW c, NEW d \in newsCalls, c = [d EXCEPT !.age = @ + 1], d.age + 1 < MinInterval + MaxFetch
        PROVE  /\ c \in [by : Readers, age : CallAges] /\ c.by = d.by /\ c.age = d.age + 1 /\ d.age \in Nat
               /\ c.by \in reopened' \/ (lastCall' # Never /\ lastCall' <= c.age)
               /\ AskFollows(asks'[c.by], c)
    <3>1. d \in [by : Readers, age : CallAges] /\ d.age \in Nat /\ d.by \in Readers
      BY FeedsAssumption DEF FeedsInv, CallsInv, CallAges
    <3>2. c.by = d.by /\ c.age = d.age + 1 /\ c \in [by : Readers, age : CallAges]
      BY <2>4, <3>1, FeedsAssumption DEF CallAges
    <3>3. c.by \in reopened' \/ (lastCall' # Never /\ lastCall' <= c.age)
      <4> SUFFICES ASSUME c.by \notin reopened PROVE lastCall' # Never /\ lastCall' <= c.age
        BY <2>1
      <4>1. lastCall \in Ages /\ lastCall <= d.age
        BY <3>2 DEF FeedsInv, CallsInv
      <4> QED
        BY <2>1, <3>1, <3>2, <4>1, Bounds, FeedsAssumption DEF Older, Ages
    <3>4. AskFollows(asks'[c.by], c)
      <4> DEFINE u == d.by
      <4>1. asks'[u] = IF "age" \in DOMAIN asks[u] THEN [asks[u] EXCEPT !.age = @ + 1] ELSE asks[u]
        BY <3>1 DEF Tick
      <4>2. AskFollows(asks[u], d)
        BY DEF FeedsInv, CallsInv
      <4>3. CASE asks[u].op \in {"timed", "calling"}
        <5>1. /\ "age" \in DOMAIN asks[u] /\ "op" \in DOMAIN asks[u] /\ asks[u].age \in Nat
              /\ asks[u].op = "calling" => "again" \in DOMAIN asks[u]
          BY <3>1, <4>3, FeedsAssumption DEF FeedsInv, AsksInv, AskSound, Idle
        <5>2. /\ asks'[u].op = asks[u].op /\ asks'[u].age = asks[u].age + 1
              /\ asks[u].op = "calling" => asks'[u].again = asks[u].again
          BY <4>1, <5>1
        <5>3. c.age - (asks[u].age + 1) = d.age - asks[u].age
          BY <3>1, <3>2, <5>1
        <5> QED
          BY <3>1, <3>2, <4>2, <5>1, <5>2, <5>3, FeedsAssumption DEF AskFollows
      <4>4. CASE asks[u].op \notin {"timed", "calling"}
        <5>1. asks'[u].op = asks[u].op
          <6>1. CASE "age" \in DOMAIN asks[u]
            <7>1. "op" \in DOMAIN asks[u]
              BY <3>1 DEF FeedsInv, AsksInv, AskSound, Idle
            <7> QED
              BY <4>1, <6>1, <7>1
          <6>2. CASE "age" \notin DOMAIN asks[u]
            BY <4>1, <6>2
          <6> QED
            BY <6>1, <6>2
        <5> QED
          BY <3>2, <4>4, <5>1 DEF AskFollows
      <4> QED
        BY <4>3, <4>4
    <3> QED
      BY <3>1, <3>2, <3>3, <3>4
  <2>5. ASSUME NEW c \in newsCalls', NEW e \in newsCalls', c.by = e.by
        PROVE  c = e \/ MinInterval <= c.age - e.age \/ MinInterval <= e.age - c.age
    <3>1. PICK d \in newsCalls : c = [d EXCEPT !.age = @ + 1] /\ d.age + 1 < MinInterval + MaxFetch
      BY <2>3
    <3>2. PICK f \in newsCalls : e = [f EXCEPT !.age = @ + 1] /\ f.age + 1 < MinInterval + MaxFetch
      BY <2>3
    <3>3. /\ c.by = d.by /\ c.age = d.age + 1 /\ d.age \in Nat
          /\ e.by = f.by /\ e.age = f.age + 1 /\ f.age \in Nat
      BY <2>4, <3>1, <3>2
    <3>4. d = f \/ MinInterval <= d.age - f.age \/ MinInterval <= f.age - d.age
      BY <2>5, <3>3 DEF FeedsInv, CallsInv
    <3> QED
      BY <3>1, <3>2, <3>3, <3>4, FeedsAssumption
  <2>6. /\ newsCalls' \subseteq [by : Readers, age : CallAges]
        /\ \A c \in newsCalls' : c.by \in reopened' \/ (lastCall' # Never /\ lastCall' <= c.age)
        /\ \A c \in newsCalls' : AskFollows(asks'[c.by], c)
    BY <2>3, <2>4
  <2> QED
    BY <2>2, <2>5, <2>6 DEF CallsInv
<1>5. MacroInv'
  BY OlderAges, Bounds DEF Tick, FeedsInv, MacroInv
<1> QED
  BY <1>1, <1>2, <1>3, <1>4, <1>5 DEF FeedsInv

LEMMA FeedsStep == FeedsInv /\ [FeedsNext]_feedVars => FeedsInv'
<1> SUFFICES ASSUME FeedsInv, [FeedsNext]_feedVars PROVE FeedsInv'
  OBVIOUS
<1>1. CASE UNCHANGED feedVars
  <2>1. UNCHANGED <<prices, headlines, lastCall, newsCalls, reopened, tile, asks>>
    BY <1>1 DEF feedVars, news, macro
  <2>2. PricesInv' /\ HeadlinesInv'
    BY <2>1, PricesKept, HeadlinesKept DEF FeedsInv
  <2> QED
    BY <2>1, <2>2 DEF FeedsInv, AsksInv, CallsInv, AskFollows, MacroInv
<1>2. CASE PricesNext
  BY <1>2, ReadPriceClockStep, AskQuotesStep, QuotesFetchedStep, AnswerStep DEF PricesNext, PricesAnswered
<1>3. CASE NewsNext
  BY <1>3, ReadNewsClockStep, AskNewsStep, CallNewsStep, NewsFetchedStep, AnswerStep DEF NewsNext, NewsRead
<1> QED
  BY <1>1, <1>2, <1>3, MacroStep, TickStep DEF FeedsNext

\* Stamps, entries and calls stay in step however fetches overlap.
THEOREM FeedsInvariant == FeedsSpec => []FeedsInv
BY FeedsStart, FeedsStep, PTL DEF FeedsSpec

-----------------------------------------------------------------------------

LEMMA RowsPartition == BenchmarkAgreesWithSummary
<1> DEFINE priced == DOMAIN quotes \intersect DOMAIN Holdings
           table == SectorRows(priced, DOMAIN quotes)
           summary == Summarize(priced)
<1>1. \A x \in Range(Holdings) :
        \E r \in table : r.sector = x /\ r.holdings = HeldIn(x) /\ r.averaged = HeldIn(x) \intersect priced
  <2> SUFFICES ASSUME NEW x \in Range(Holdings)
               PROVE  \E r \in table : /\ r.sector = x /\ r.holdings = HeldIn(x)
                                       /\ r.averaged = HeldIn(x) \intersect priced
    OBVIOUS
  <2> DEFINE row == [sector |-> x, holdings |-> HeldIn(x), averaged |-> HeldIn(x) \intersect priced,
                     compared |-> /\ HeldIn(x) \intersect priced # {}
                                  /\ x \in DOMAIN SectorEtf /\ SectorEtf[x] \in DOMAIN quotes]
  <2>1. row \in table
    BY DEF SectorRows
  <2> QED
    BY <2>1
<1>2. \A r \in table : /\ r.sector \in Range(Holdings) /\ r.holdings = HeldIn(r.sector)
                       /\ r.averaged = HeldIn(r.sector) \intersect priced
  BY DEF SectorRows
<1>3. \A r, other \in table : r.sector = other.sector => r = other
  BY DEF SectorRows
<1>4. /\ summary.connected = (priced # {}) /\ summary.averaged = priced
      /\ summary.gainers = {s \in priced : Moves[s] > 0}
      /\ summary.losers = {s \in priced : Moves[s] < 0}
  BY DEF Summarize
<1>5. \A s \in DOMAIN Holdings : Holdings[s] \in Range(Holdings) /\ s \in HeldIn(Holdings[s])
  BY DEF Range, HeldIn
<1>6. \A x : HeldIn(x) \subseteq DOMAIN Holdings /\ \A s \in HeldIn(x) : Holdings[s] = x
  BY DEF HeldIn
<1> HIDE DEF table, summary
<1>7. UNION {r.holdings : r \in table} = DOMAIN Holdings
  BY <1>1, <1>2, <1>5, <1>6
<1>8. UNION {r.averaged : r \in table} = summary.averaged
  BY <1>1, <1>2, <1>4, <1>5, <1>6
<1>9. \A r, other \in table : r.holdings \intersect other.holdings # {} => r = other
  BY <1>2, <1>3, <1>6
<1>10. Cardinality(summary.gainers) + Cardinality(summary.losers) <= Cardinality(summary.averaged)
  <2>1. IsFiniteSet(priced)
    BY FeedsAssumption, FS_Subset
  <2>2. /\ summary.gainers \subseteq priced /\ summary.losers \subseteq priced
        /\ summary.gainers \intersect summary.losers = {}
    BY <1>4, FeedsAssumption
  <2> HIDE DEF priced
  <2>3. PICK up, down : up = summary.gainers /\ down = summary.losers
    OBVIOUS
  <2>4. IsFiniteSet(up) /\ IsFiniteSet(down) /\ up \intersect down = {} /\ up \union down \subseteq priced
    BY <2>1, <2>2, <2>3, FS_Subset
  <2>5. Cardinality(up \union down) <= Cardinality(priced)
    BY <2>1, <2>4, FS_Subset
  <2>6. Cardinality(up \union down) = Cardinality(up) + Cardinality(down)
    <3>1. Cardinality(up \intersect down) = 0
      BY <2>4, FS_EmptySet
    <3>2. Cardinality(up) \in Nat /\ Cardinality(down) \in Nat
      BY <2>4, FS_CardinalityType
    <3>3. Cardinality(up \union down)
            = Cardinality(up) + Cardinality(down) - Cardinality(up \intersect down)
      <4> HIDE DEF table, summary
      <4>1. IsFiniteSet(up) /\ IsFiniteSet(down)
        BY <2>4
      <4> QED
        BY <4>1, FS_Union
    <3> QED
      BY <3>1, <3>2, <3>3
  <2> QED
    BY <1>4, <2>3, <2>5, <2>6
<1>11. summary.connected = \E r \in table : r.averaged # {}
  <2>1. priced # {} <=> \E r \in table : r.averaged # {}
    BY <1>1, <1>2, <1>5, <1>6
  <2> QED
    BY <1>4, <2>1
<1> QED
  BY <1>7, <1>8, <1>9, <1>10, <1>11 DEF BenchmarkAgreesWithSummary, table, summary

\* What overlapping and delayed requests leave in the caches and what is served
\* from them: quotes and headlines within their lifetime when the clock was
\* read, the source called once by each thread in an interval but for the calls
\* a late stamp lets through again, one and the same book averaged by the
\* benchmark and the summary.
THEOREM Caches == FeedsSpec => []CachesSound
<1>1. FeedsInv => CachesSound
  <2> SUFFICES ASSUME FeedsInv PROVE CachesSound
    OBVIOUS
  <2>1. FeedsTypeOK
    BY Bounds DEF FeedsInv, PricesInv, CallsInv, MacroInv, FeedsTypeOK, Ages, Never
  <2>2. OwnFetchKeepsFresh
    BY DEF FeedsInv, AsksInv, AskSound, OwnFetchKeepsFresh, Idle
  <2>3. FreshNewsIsFresh
    BY DEF FeedsInv, AsksInv, AskSound, FreshNewsIsFresh, Idle
  <2>4. CallsBounded
    BY CallsFinite DEF FeedsInv, CallsBounded
  <2> QED
    BY <2>1, <2>2, <2>3, <2>4, RowsPartition DEF CachesSound
<1> QED
  BY <1>1, FeedsInvariant, PTL
=============================================================================
