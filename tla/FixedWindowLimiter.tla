------------------------- MODULE FixedWindowLimiter -------------------------
(***************************************************************************)
(* InProcessFixedWindowRateLimiter.allow as the threads of the API server  *)
(* execute it: the minute is read first, then the bucket of the key is     *)
(* read, reset or counted up, and written, under the lock.  A rejected     *)
(* call counts like an admitted one.                                       *)
(***************************************************************************)
EXTENDS Naturals

CONSTANTS
  Threads,     \* threads of the server's pool
  NoThread,    \* the holder of a free lock
  Keys,        \* client addresses
  Limit,       \* limit_per_minute; a limit <= 0 never reaches the buckets
  MaxMinute,   \* bound: minutes of a behaviour
  MaxCalls     \* bound: calls of a behaviour

ASSUME LimitAssumption ==
  /\ NoThread \notin Threads
  /\ Limit \in Nat \ {0} /\ MaxMinute \in Nat /\ MaxCalls \in Nat

Minute == 0..MaxMinute
Bucket == [window : Minute, count : Nat]

VARIABLES
  minute,      \* time.time() // 60
  buckets,     \* _buckets, by key; count 0 stands for no entry
  lock,        \* the thread in the critical section, or NoThread
  pc, key, seen, read,  \* each call: stage, key, now_minute, the bucket it read
  calls,       \* calls started
  admitted,    \* admitted[k][m]: calls admitted that took m for the time
  late,        \* late[k]: calls that met a bucket of a later minute than theirs
  sinceReset   \* sinceReset[k]: calls admitted since k's bucket was last reset

vars == <<minute, buckets, lock, pc, key, seen, read, calls, admitted, late, sinceReset>>

Init ==
  /\ minute = 0
  /\ buckets = [k \in Keys |-> [window |-> 0, count |-> 0]]
  /\ lock = NoThread
  /\ pc = [t \in Threads |-> "idle"]
  /\ key \in [Threads -> Keys]
  /\ seen = [t \in Threads |-> 0]
  /\ read = [t \in Threads |-> [window |-> 0, count |-> 0]]
  /\ calls = 0
  /\ admitted = [k \in Keys |-> [m \in Minute |-> 0]]
  /\ late = [k \in Keys |-> 0]
  /\ sinceReset = [k \in Keys |-> 0]

NextMinute ==
  /\ minute < MaxMinute
  /\ minute' = minute + 1
  /\ UNCHANGED <<buckets, lock, pc, key, seen, read, calls, admitted, late, sinceReset>>

NowMinute == minute

\* allow(k) is called and reads the clock, before the lock.
ReadClock(t, k) ==
  /\ pc[t] = "idle" /\ calls < MaxCalls
  /\ pc' = [pc EXCEPT ![t] = "timed"]
  /\ key' = [key EXCEPT ![t] = k]
  /\ seen' = [seen EXCEPT ![t] = NowMinute]
  /\ calls' = calls + 1
  /\ UNCHANGED <<minute, buckets, lock, read, admitted, late, sinceReset>>

\* Mutant: the lock is not waited for.
LockUnguarded == TRUE

LockFree == lock = NoThread

\* `with self._lock`, and the bucket is read.
ReadBucket(t) ==
  /\ pc[t] = "timed" /\ LockFree
  /\ lock' = t
  /\ read' = [read EXCEPT ![t] = buckets[key[t]]]
  /\ pc' = [pc EXCEPT ![t] = "counting"]
  /\ UNCHANGED <<minute, buckets, key, seen, calls, admitted, late, sinceReset>>

\* The bucket has no entry, or one of another minute.
Resets(t) == read[t].count = 0 \/ read[t].window # seen[t]

Counted(t) == IF Resets(t) THEN 1 ELSE read[t].count + 1

\* Mutant: the comparison is one too generous.
WithinOneMore(n) == n <= Limit + 1

Within(n) == n <= Limit

\* Mutant: the lock is kept.
StillHeld == lock

Released == NoThread

\* The bucket is written, the lock released and the verdict returned.
WriteBucket(t) ==
  LET k == key[t]
      n == Counted(t)
      admits == IF Within(n) THEN 1 ELSE 0
  IN
  /\ pc[t] = "counting"
  /\ buckets' = [buckets EXCEPT ![k] = [window |-> seen[t], count |-> n]]
  /\ admitted' = [admitted EXCEPT ![k][seen[t]] = @ + admits]
  /\ late' = [late EXCEPT ![k] = @ + IF read[t].window > seen[t] THEN 1 ELSE 0]
  /\ sinceReset' = [sinceReset EXCEPT ![k] = admits + IF Resets(t) THEN 0 ELSE @]
  /\ lock' = Released
  /\ pc' = [pc EXCEPT ![t] = "idle"]
  /\ UNCHANGED <<minute, key, seen, read, calls>>

Next ==
  \/ NextMinute
  \/ \E t \in Threads :
       (\E k \in Keys : ReadClock(t, k)) \/ ReadBucket(t) \/ WriteBucket(t)

Spec == Init /\ [][Next]_vars

\* Threads are scheduled; locks of CPython are not starved by one thread.
FairSpec ==
  Spec /\ \A t \in Threads : SF_vars(ReadBucket(t)) /\ WF_vars(WriteBucket(t))
-----------------------------------------------------------------------------
(* Properties *)

\* Types of the variables.
TypeOK ==
  /\ minute \in Minute
  /\ buckets \in [Keys -> Bucket]
  /\ lock \in Threads \cup {NoThread}
  /\ pc \in [Threads -> {"idle", "timed", "counting"}]
  /\ key \in [Threads -> Keys]
  /\ seen \in [Threads -> Minute]
  /\ read \in [Threads -> Bucket]
  /\ calls \in Nat
  /\ admitted \in [Keys -> [Minute -> Nat]]
  /\ late \in [Keys -> Nat]
  /\ sinceReset \in [Keys -> Nat]

\* Between two resets of a key's bucket at most Limit calls are admitted: the
\* lock makes the counting of concurrent threads one after the other.
BudgetPerWindow == \A k \in Keys : sinceReset[k] <= Limit

\* What a call that comes late costs: it takes the bucket back to its own
\* minute, and the next call of the present minute opens a fresh budget.  So a
\* minute admits no more than one budget, and one more for every late call.
OvershootIsBounded ==
  \A k \in Keys : \A m \in Minute : admitted[k][m] <= Limit * (1 + late[k])

\* A call that has been made is answered.
CallsReturn == \A t \in Threads : pc[t] # "idle" ~> pc[t] = "idle"
=============================================================================
