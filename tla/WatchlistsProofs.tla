-------------------------- MODULE WatchlistsProofs --------------------------
(***************************************************************************)
(* Watchlists, for any number of users, requests and lists: what requests  *)
(* and the worker can do to one another's lists and notifications.         *)
(***************************************************************************)
EXTENDS Watchlists, FiniteSetTheorems, TLAPS

\* The fields of a row and of a process; what a process has read of the
\* intelligence may be anything.
Columns == {"state", "owner", "items"}
Fields == {"at", "user", "items", "new", "todo", "list", "seen", "batch"}

Shapes ==
  /\ lists = [l \in Ids |-> lists[l]] /\ \A l \in Ids : DOMAIN lists[l] = Columns
  /\ proc = [p \in Processes |-> proc[p]] /\ \A p \in Processes : DOMAIN proc[p] = Fields

\* A list that is held or has notifications is live, or was deleted while held.
Sound(l) == l \in Ids /\ (Live(l) \/ (l \in raced /\ lists[l].state = "deleted"))

\* What an evaluation has in its hands; a list is new only to a request that
\* has inserted it and is evaluating it.
HoldsSound(h) ==
  /\ \A l \in h.todo : Sound(l)
  /\ h.at = "commit" => Sound(h.list) /\ \A k \in h.batch : k.list = h.list
  /\ h.at \in {"idle", "list", "insert"} => h.new = {}

OwnershipInv ==
  /\ Shapes
  /\ \A p \in Processes : HoldsSound(proc[p])
  /\ \A n \in DOMAIN notes : Sound(n.list)
  /\ CreationsAudited

LEMMA IdleHolds ==
  DOMAIN Idle = Fields /\ HoldsSound(Idle) /\ Idle.new = {} /\ Idle.at = "idle"
BY DEF Idle, Fields, HoldsSound

LEMMA OwnershipInit == Init => OwnershipInv
<1> SUFFICES ASSUME Init PROVE OwnershipInv
  OBVIOUS
<1>1. \A l \in Ids : DOMAIN lists[l] = Columns /\ lists[l].state = "unused"
  BY DEF Init, Unused, Columns
<1>2. \A p \in Processes : DOMAIN proc[p] = Fields /\ HoldsSound(proc[p])
  BY IdleHolds DEF Init
<1>3. DOMAIN notes = {}
  BY DEF Init
<1> QED
  BY <1>1, <1>2, <1>3 DEF Init, OwnershipInv, Shapes, CreationsAudited

\* A process moves on, with what it may have inserted and recorded.
LEMMA ProcessMoves ==
  ASSUME OwnershipInv, NEW p \in Processes,
         proc' = [q \in Processes |-> proc'[q]],
         \A q \in Processes \ {p} : proc'[q] = proc[q],
         DOMAIN proc'[p] = Fields, HoldsSound(proc'[p]),
         UNCHANGED <<lists, raced>>,
         \A n \in DOMAIN notes' \ DOMAIN notes : Sound(n.list),
         audited \subseteq audited', collided \subseteq collided',
         proc[p].new \ proc'[p].new \subseteq audited' \cup collided'
  PROVE  OwnershipInv'
<1>1. \A l : Sound(l)' <=> Sound(l)
  BY DEF Sound, Live
<1>2. Shapes'
  BY DEF OwnershipInv, Shapes
<1>3. \A q \in Processes : HoldsSound(proc[q])'
  BY <1>1 DEF OwnershipInv, HoldsSound
<1>4. \A n \in DOMAIN notes' : Sound(n.list)'
  BY <1>1 DEF OwnershipInv
<1>5. CreationsAudited'
  BY DEF OwnershipInv, CreationsAudited, Processes
<1> QED
  BY <1>2, <1>3, <1>4, <1>5 DEF OwnershipInv

LEMMA StartTickStep == OwnershipInv /\ StartTick => OwnershipInv'
<1> SUFFICES ASSUME OwnershipInv, StartTick PROVE OwnershipInv'
  OBVIOUS
<1>1. Worker \in Processes
  BY DEF Processes
<1>2. /\ proc'[Worker] = [Idle EXCEPT !.at = "list", !.seen = Looked]
      /\ proc' = [q \in Processes |-> proc'[q]]
      /\ \A q \in Processes \ {Worker} : proc'[q] = proc[q]
  BY <1>1 DEF StartTick, OwnershipInv, Shapes
<1>3. DOMAIN proc'[Worker] = Fields /\ HoldsSound(proc'[Worker])
  BY <1>2 DEF Idle, Fields, HoldsSound
<1>4. proc[Worker].new = {}
  BY <1>1 DEF OwnershipInv, HoldsSound, StartTick
<1> QED
  BY <1>1, <1>2, <1>3, <1>4, ProcessMoves DEF StartTick

LEMMA ListAllStep == OwnershipInv /\ ListAll => OwnershipInv'
<1> SUFFICES ASSUME OwnershipInv, ListAll PROVE OwnershipInv'
  OBVIOUS
<1>1. Worker \in Processes
  BY DEF Processes
<1>2. /\ DOMAIN proc'[Worker] = Fields
      /\ proc'[Worker].at = "next" /\ proc'[Worker].todo = LiveIds
      /\ proc'[Worker].new = proc[Worker].new
      /\ proc' = [q \in Processes |-> proc'[q]]
      /\ \A q \in Processes \ {Worker} : proc'[q] = proc[q]
  BY <1>1 DEF ListAll, OwnershipInv, Shapes, Fields
<1>3. HoldsSound(proc'[Worker])
  BY <1>2 DEF HoldsSound, Sound, LiveIds
<1> QED
  BY <1>1, <1>2, <1>3, ProcessMoves DEF ListAll

\* An evaluation takes a list it holds, and what is missing of it.
LEMMA TakeStep ==
  ASSUME OwnershipInv, NEW p \in Processes, NEW l \in proc[p].todo, NEW seen,
         proc' = [proc EXCEPT ![p].at = "commit", ![p].list = l, ![p].todo = @ \ {l},
                              ![p].batch = Missing(l, seen)],
         UNCHANGED <<lists, notes, audited, collided, raced>>
  PROVE  OwnershipInv'
<1>1. /\ DOMAIN proc'[p] = Fields
      /\ proc'[p].at = "commit" /\ proc'[p].list = l /\ proc'[p].todo = proc[p].todo \ {l}
      /\ proc'[p].batch = Missing(l, seen) /\ proc'[p].new = proc[p].new
      /\ proc' = [q \in Processes |-> proc'[q]]
      /\ \A q \in Processes \ {p} : proc'[q] = proc[q]
  BY DEF OwnershipInv, Shapes, Fields
<1>2. \A k \in Missing(l, seen) : k.list = l
  BY DEF Missing, Keys
<1>3. \A m \in proc[p].todo : Sound(m)
  BY DEF OwnershipInv, HoldsSound
<1>4. HoldsSound(proc'[p])
  <2>1. ASSUME NEW m \in proc'[p].todo
        PROVE  Sound(m)
    <3>1. m \in proc[p].todo
      BY <1>1
    <3>2. QED
      BY <1>3, <3>1
  <2>2. Sound(l)
    BY <1>3
  <2>3. proc'[p].at \notin {"idle", "list", "insert"}
    BY <1>1
  <2>4. Sound(proc'[p].list) /\ \A k \in proc'[p].batch : k.list = proc'[p].list
    <3>1. proc'[p].list = l /\ proc'[p].batch = Missing(l, seen)
      BY <1>1
    <3>2. QED
      BY <1>2, <2>2, <3>1
  <2>5. QED
    BY <2>1, <2>3, <2>4 DEF HoldsSound
<1> QED
  BY <1>1, <1>4, ProcessMoves

\* A request that was idle starts, with lists that are live.
LEMMA RequestStarts ==
  ASSUME OwnershipInv, NEW r \in Requests, proc[r].at = "idle",
         NEW h, proc' = [proc EXCEPT ![r] = h], DOMAIN h = Fields,
         h.at \in {"insert", "next"}, h.todo \subseteq LiveIds, h.new = {},
         UNCHANGED <<lists, notes, audited, collided, raced>>
  PROVE  OwnershipInv'
<1>1. r \in Processes
  BY DEF Processes
<1>2. /\ proc'[r] = h
      /\ proc' = [q \in Processes |-> proc'[q]]
      /\ \A q \in Processes \ {r} : proc'[q] = proc[q]
  BY <1>1 DEF OwnershipInv, Shapes
<1>3. HoldsSound(h)
  BY DEF HoldsSound, Sound, LiveIds
<1>4. proc[r].new = {}
  BY <1>1 DEF OwnershipInv, HoldsSound
<1> QED
  BY <1>1, <1>2, <1>3, <1>4, ProcessMoves

\* The row and its process, in one step.
LEMMA InsertStep ==
  ASSUME OwnershipInv, NEW r \in Requests, Insert(r)
  PROVE  OwnershipInv'
<1>1. r \in Processes /\ proc[r].new = {}
  BY DEF Insert, OwnershipInv, HoldsSound, Processes
<1>2. PICK l \in Ids :
        /\ FreshId(l)
        /\ lists' = [lists EXCEPT ![l] = [state |-> "live", owner |-> proc[r].user,
                                           items |-> proc[r].items]]
        /\ proc' = [proc EXCEPT ![r] = [Idle EXCEPT !.at = "next", !.todo = {l}, !.new = {l}]]
  BY DEF Insert
<1>3. /\ lists[l].state = "unused" /\ lists'[l].state = "live"
      /\ \A k \in Ids \ {l} : lists'[k] = lists[k]
      /\ lists' = [k \in Ids |-> lists'[k]] /\ \A k \in Ids : DOMAIN lists'[k] = Columns
  BY <1>2 DEF FreshId, UnusedIds, OwnershipInv, Shapes, Columns
<1>4. /\ proc'[r] = [Idle EXCEPT !.at = "next", !.todo = {l}, !.new = {l}]
      /\ proc' = [q \in Processes |-> proc'[q]]
      /\ \A q \in Processes \ {r} : proc'[q] = proc[q]
  BY <1>1, <1>2 DEF OwnershipInv, Shapes
<1>5. /\ DOMAIN proc'[r] = Fields
      /\ proc'[r].at = "next" /\ proc'[r].todo = {l} /\ proc'[r].new = {l}
  <2>1. DOMAIN proc'[r] = DOMAIN Idle /\ DOMAIN Idle = Fields
    BY <1>4, IdleHolds
  <2> QED
    BY <1>4, <2>1 DEF Fields
<1>6. UNCHANGED <<notes, audited, collided, raced>>
  BY DEF Insert
<1>7. (\A k : Sound(k) => Sound(k)') /\ Sound(l)'
  BY <1>3, <1>6 DEF Sound, Live
<1>8. Shapes'
  BY <1>3, <1>4, <1>5 DEF OwnershipInv, Shapes
<1>9. \A q \in Processes : HoldsSound(proc[q])'
  <2>1. HoldsSound(proc[r])'
    BY <1>5, <1>7 DEF HoldsSound
  <2>2. ASSUME NEW q \in Processes \ {r} PROVE HoldsSound(proc[q])'
    <3>1. HoldsSound(proc[q]) /\ proc'[q] = proc[q]
      BY <1>4 DEF OwnershipInv
    <3> QED
      BY <1>7, <3>1 DEF HoldsSound
  <2> QED
    BY <2>1, <2>2
<1>10. CreationsAudited'
  <2> SUFFICES ASSUME NEW k \in Ids, lists'[k].state # "unused"
               PROVE  k \in audited \cup collided \/ \E q \in Requests : k \in proc'[q].new
    BY <1>6 DEF CreationsAudited
  <2>1. CASE k = l
    BY <1>5, <2>1
  <2>2. CASE k # l
    <3>1. lists[k].state # "unused"
      BY <1>3, <2>2
    <3>2. k \in audited \cup collided \/ \E q \in Requests : k \in proc[q].new
      BY <3>1 DEF OwnershipInv, CreationsAudited
    <3> QED
      BY <1>1, <1>4, <3>2 DEF Processes
  <2> QED
    BY <2>1, <2>2
<1> QED
  BY <1>6, <1>7, <1>8, <1>9, <1>10 DEF OwnershipInv

LEMMA CommitStep ==
  ASSUME OwnershipInv, NEW p \in Processes, Commit(p)
  PROVE  OwnershipInv'
<1>1. /\ DOMAIN proc'[p] = Fields
      /\ proc'[p].at = "next" /\ proc'[p].todo = proc[p].todo /\ proc'[p].new = proc[p].new
      /\ proc' = [q \in Processes |-> proc'[q]]
      /\ \A q \in Processes \ {p} : proc'[q] = proc[q]
  BY DEF Commit, OwnershipInv, Shapes, Fields
<1>2. HoldsSound(proc'[p])
  BY <1>1 DEF OwnershipInv, HoldsSound
<1>3. \A n \in DOMAIN notes' \ DOMAIN notes : Sound(n.list)
  BY DEF Commit, OwnershipInv, HoldsSound
<1> QED
  BY <1>1, <1>2, <1>3, ProcessMoves DEF Commit

\* The end of an evaluation: what was new is audited or has failed.
LEMMA EndStep ==
  ASSUME OwnershipInv, NEW p \in Processes, CommitFails(p) \/ Done(p)
  PROVE  OwnershipInv'
<1>1. /\ proc'[p] = Idle
      /\ proc' = [q \in Processes |-> proc'[q]]
      /\ \A q \in Processes \ {p} : proc'[q] = proc[q]
  BY DEF CommitFails, Done, OwnershipInv, Shapes
<1>2. DOMAIN proc'[p] = Fields /\ HoldsSound(proc'[p])
  BY <1>1, IdleHolds
<1>3. /\ audited \subseteq audited' /\ collided \subseteq collided'
      /\ proc[p].new \subseteq audited' \cup collided'
      /\ UNCHANGED <<lists, raced, notes>>
  BY DEF CommitFails, Done
<1> QED
  BY <1>1, <1>2, <1>3, ProcessMoves

LEMMA DeleteStep ==
  ASSUME OwnershipInv, NEW l \in Ids, DeleteWatchlist(l)
  PROVE  OwnershipInv'
<1>1. /\ lists'[l].state = "deleted" /\ \A k \in Ids \ {l} : lists'[k] = lists[k]
      /\ lists' = [k \in Ids |-> lists'[k]] /\ \A k \in Ids : DOMAIN lists'[k] = Columns
  BY DEF DeleteWatchlist, OwnershipInv, Shapes, Columns
<1>2. raced \subseteq raced' /\ (Holders(l) # {} => l \in raced')
      /\ UNCHANGED <<proc, audited, collided>>
  BY DEF DeleteWatchlist
<1>3. \A k : Sound(k) /\ (k = l => l \in raced') => Sound(k)'
  BY <1>1, <1>2 DEF Sound, Live
<1>4. \A p \in Processes : HoldsSound(proc[p])'
  <2>1. \A p \in Processes : l \in proc[p].todo \cup {proc[p].list} => l \in raced'
    BY <1>2 DEF Holders
  <2> QED
    BY <1>2, <1>3, <2>1 DEF OwnershipInv, HoldsSound
<1>5. \A n \in DOMAIN notes' : n \in DOMAIN notes /\ n.list # l
  BY DEF DeleteWatchlist
<1>6. Live(l) /\ CreationsAudited'
  BY <1>1, <1>2 DEF DeleteWatchlist, OwnershipInv, CreationsAudited, Live
<1> QED
  BY <1>1, <1>2, <1>3, <1>4, <1>5, <1>6 DEF OwnershipInv, Shapes

LEMMA OwnershipStep == OwnershipInv /\ [Next]_vars => OwnershipInv'
<1> SUFFICES ASSUME OwnershipInv, [Next]_vars PROVE OwnershipInv'
  OBVIOUS
\* Reading notifications and saving change sets concern nobody here.
<1>1. CASE UNCHANGED <<lists, proc, audited, collided, raced>> /\ DOMAIN notes' = DOMAIN notes
  BY <1>1 DEF OwnershipInv, Shapes, HoldsSound, Sound, Live, CreationsAudited
<1>2. CASE UNCHANGED vars
  BY <1>1, <1>2 DEF vars
<1>3. ASSUME NEW i, NEW c, SaveChangeSet(i, c) PROVE OwnershipInv'
  BY <1>1, <1>3 DEF SaveChangeSet
<1>4. ASSUME NEW n \in DOMAIN notes, MarkRead(n) PROVE OwnershipInv'
  BY <1>1, <1>4 DEF MarkRead
<1>5. ASSUME NEW u \in Users, MarkAllRead(u) PROVE OwnershipInv'
  BY <1>1, <1>5 DEF MarkAllRead
<1>6. ASSUME NEW l \in Ids, DeleteWatchlist(l) PROVE OwnershipInv'
  BY <1>6, DeleteStep
<1>7. ASSUME NEW p \in Processes, Run(p) PROVE OwnershipInv'
  BY <1>7, CommitStep, EndStep DEF Run
<1>8. CASE WorkerStep
  <2>1. Worker \in Processes
    BY DEF Processes
  <2>2. CASE WorkerNext
    <3>1. PICK l \in proc[Worker].todo :
            proc' = [proc EXCEPT ![Worker].at = "commit", ![Worker].list = l,
                                 ![Worker].todo = @ \ {l},
                                 ![Worker].batch = Missing(l, proc[Worker].seen)]
      BY <2>2 DEF WorkerNext
    <3> QED
      BY <2>1, <2>2, <3>1, TakeStep DEF WorkerNext
  <2> QED
    BY <1>7, <1>8, <2>1, <2>2, StartTickStep, ListAllStep DEF WorkerStep
<1>9. ASSUME NEW r \in Requests, RequestNext(r) PROVE OwnershipInv'
  <2>1. PICK l \in proc[r].todo :
          proc' = [proc EXCEPT ![r].at = "commit", ![r].list = l, ![r].todo = @ \ {l},
                               ![r].batch = Missing(l, Looked)]
    BY <1>9 DEF RequestNext
  <2> QED
    BY <1>9, <2>1, TakeStep DEF RequestNext, Processes
<1>10. ASSUME NEW r \in Requests, NEW u \in Users, EvaluateAll(r, u) PROVE OwnershipInv'
  <2> DEFINE h == [Idle EXCEPT !.at = "next", !.todo = Owned(u)]
  <2>1. DOMAIN h = Fields /\ h.at = "next" /\ h.todo = Owned(u) /\ h.new = {}
    BY DEF Idle, Fields
  <2>2. Owned(u) \subseteq LiveIds
    BY DEF Owned
  <2> QED
    BY <1>10, <2>1, <2>2, RequestStarts DEF EvaluateAll, Start
<1>11. ASSUME NEW r \in Requests, NEW l \in Ids, EvaluateWatchlist(r, l) PROVE OwnershipInv'
  <2> DEFINE h == [Idle EXCEPT !.at = "next", !.todo = {l}]
  <2>1. DOMAIN h = Fields /\ h.at = "next" /\ h.todo = {l} /\ h.new = {}
    BY DEF Idle, Fields
  <2>2. l \in LiveIds
    BY <1>11 DEF EvaluateWatchlist, LiveIds
  <2> QED
    BY <1>11, <2>1, <2>2, RequestStarts DEF EvaluateWatchlist, Start
<1>12. ASSUME NEW r \in Requests, NEW u \in Users, NEW items \in ItemSets,
              CreateWatchlist(r, u, items)
       PROVE  OwnershipInv'
  <2> DEFINE h == [Idle EXCEPT !.at = "insert", !.user = u, !.items = items]
  <2>1. DOMAIN h = Fields /\ h.at = "insert" /\ h.todo = {} /\ h.new = {}
    BY DEF Idle, Fields
  <2> QED
    BY <1>12, <2>1, RequestStarts DEF CreateWatchlist, Start
<1>13. Requests \subseteq Processes
  BY DEF Processes
<1> QED
  BY <1>2, <1>3, <1>4, <1>5, <1>6, <1>7, <1>8, <1>9, <1>10, <1>11, <1>12, <1>13, InsertStep
     DEF Next

\* Who owns what and what it has notifications of, for any number of everything.
THEOREM OwnershipInvariant == Spec => []OwnershipInv
BY OwnershipInit, OwnershipStep, PTL DEF Spec

\* A deleted watchlist has notifications only if an evaluation held it when it
\* was deleted.
THEOREM Orphans == Spec => []OrphansAreRaced
<1>1. OwnershipInv => OrphansAreRaced
  BY DEF OwnershipInv, OrphansAreRaced, Sound
<1> QED
  BY <1>1, OwnershipInvariant, PTL

\* A creation is in the audit log, failed on a notification, or is still being
\* evaluated.
THEOREM Creations == Spec => []CreationsAudited
<1>1. OwnershipInv => CreationsAudited
  BY DEF OwnershipInv
<1> QED
  BY <1>1, OwnershipInvariant, PTL

\* No interleaving of evaluations, deletions and readings turns a notification
\* that was read into an unread one.
THEOREM ReadNotifications == Spec => ReadStaysRead
<1>1. ASSUME [Next]_vars, NEW n \in DOMAIN notes \cap DOMAIN notes', notes[n]
      PROVE  notes'[n]
  <2>1. CASE notes' = notes
    BY <1>1, <2>1
  <2>2. ASSUME NEW p \in Processes, Commit(p) PROVE notes'[n]
    BY <1>1, <2>2 DEF Commit
  <2>3. ASSUME NEW l \in Ids, DeleteWatchlist(l) PROVE notes'[n]
    BY <1>1, <2>3 DEF DeleteWatchlist
  <2>4. ASSUME NEW m \in DOMAIN notes, MarkRead(m) PROVE notes'[n]
    BY <1>1, <2>4 DEF MarkRead
  <2>5. ASSUME NEW u \in Users, MarkAllRead(u) PROVE notes'[n]
    BY <1>1, <2>5 DEF MarkAllRead
  <2>6. Worker \in Processes /\ Requests \subseteq Processes
    BY DEF Processes
  <2> QED
    BY <1>1, <2>1, <2>2, <2>3, <2>4, <2>5, <2>6
       DEF Next, vars, WorkerStep, Run, SaveChangeSet, StartTick, ListAll, WorkerNext, EvaluateAll,
           CreateWatchlist, EvaluateWatchlist, Start, Insert, RequestNext, CommitFails, Done
<1>2. [Next]_vars => [\A n \in DOMAIN notes \cap DOMAIN notes' : notes[n] => notes'[n]]_vars
  BY <1>1
<1> QED
  BY <1>2, PTL DEF Spec, ReadStaysRead

\* Every request that has passed the quota and not inserted yet is billed like a
\* list of its user.
Inserting(u) == {r \in Requests : proc[r].at = "insert" /\ proc[r].user = u}
Bill(u) == Cardinality(Owned(u)) + Cardinality(Inserting(u))
BillInv == \A u \in Users : Bill(u) <= MaxWatchlists - 1 + Cardinality(Requests)

LEMMA BillTypes ==
  ASSUME NEW u \in Users
  PROVE  /\ IsFiniteSet(Owned(u)) /\ Cardinality(Owned(u)) \in Nat
         /\ IsFiniteSet(Inserting(u)) /\ Cardinality(Inserting(u)) \in Nat
         /\ Cardinality(Inserting(u)) <= Cardinality(Requests) /\ Cardinality(Requests) \in Nat
<1>1. Owned(u) \subseteq Ids /\ Inserting(u) \subseteq Requests
  BY DEF Owned, LiveIds, Inserting
<1> QED
  BY <1>1, WatchlistsAssumption, FS_Subset, FS_CardinalityType

LEMMA BillInit == Init => BillInv
<1> SUFFICES ASSUME Init, NEW u \in Users PROVE Bill(u) <= MaxWatchlists - 1 + Cardinality(Requests)
  BY DEF BillInv
<1>1. Owned(u) = {}
  BY DEF Init, Owned, LiveIds, Live, Unused
<1>2. Inserting(u) = {}
  BY DEF Init, Inserting, Idle, Processes
<1> QED
  BY <1>1, <1>2, BillTypes, WatchlistsAssumption, FS_EmptySet DEF Bill

\* Steps that insert and bill nothing.
LEMMA BillShrinks ==
  ASSUME BillInv, \A u \in Users : Owned(u)' \subseteq Owned(u) /\ Inserting(u)' \subseteq Inserting(u)
  PROVE  BillInv'
<1> SUFFICES ASSUME NEW u \in Users PROVE Bill(u)' <= MaxWatchlists - 1 + Cardinality(Requests)
  BY DEF BillInv
<1>1. /\ Cardinality(Owned(u)') <= Cardinality(Owned(u)) /\ Cardinality(Owned(u)') \in Nat
      /\ Cardinality(Inserting(u)') <= Cardinality(Inserting(u)) /\ Cardinality(Inserting(u)') \in Nat
  BY BillTypes, FS_Subset, FS_CardinalityType
<1> QED
  BY <1>1, BillTypes, WatchlistsAssumption DEF BillInv, Bill

LEMMA CreateBill ==
  ASSUME OwnershipInv, BillInv, NEW r \in Requests, NEW v \in Users, NEW items,
         CreateWatchlist(r, v, items)
  PROVE  BillInv'
<1> SUFFICES ASSUME NEW u \in Users PROVE Bill(u)' <= MaxWatchlists - 1 + Cardinality(Requests)
  BY DEF BillInv
<1>1. \A w \in Users : Owned(w)' = Owned(w)
  BY DEF CreateWatchlist, Start, Owned, LiveIds, Live
<1>2. Cardinality(Inserting(u)') <= Cardinality(Requests) /\ Cardinality(Inserting(u)') \in Nat
  <2>1. Inserting(u)' \subseteq Requests
    BY DEF Inserting
  <2> QED
    BY <2>1, WatchlistsAssumption, FS_Subset, FS_CardinalityType
<1>3. CASE u = v
  <2>1. Cardinality(Owned(u)) < MaxWatchlists
    BY <1>3 DEF CreateWatchlist
  <2> QED
    BY <1>1, <1>2, <2>1, BillTypes, WatchlistsAssumption DEF Bill
<1>4. CASE u # v
  <2>1. Inserting(u)' \subseteq Inserting(u)
    BY <1>4 DEF CreateWatchlist, Inserting, OwnershipInv, Shapes, Processes, Idle
  <2>2. Cardinality(Inserting(u)') <= Cardinality(Inserting(u))
    BY <2>1, BillTypes, FS_Subset
  <2> QED
    BY <1>1, <1>2, <2>2, BillTypes, WatchlistsAssumption DEF BillInv, Bill
<1> QED
  BY <1>3, <1>4

LEMMA InsertBill ==
  ASSUME OwnershipInv, BillInv, NEW r \in Requests, Insert(r)
  PROVE  BillInv'
<1> SUFFICES ASSUME NEW u \in Users PROVE Bill(u)' <= MaxWatchlists - 1 + Cardinality(Requests)
  BY DEF BillInv
<1>1. PICK l \in Ids :
        /\ FreshId(l)
        /\ lists' = [lists EXCEPT ![l] = [state |-> "live", owner |-> proc[r].user,
                                           items |-> proc[r].items]]
        /\ proc' = [proc EXCEPT ![r] = [Idle EXCEPT !.at = "next", !.todo = {l}, !.new = {l}]]
  BY DEF Insert
<1>2. proc'[r].at = "next" /\ \A q \in Requests \ {r} : proc'[q] = proc[q]
  BY <1>1 DEF OwnershipInv, Shapes, Processes, Idle
<1>3. CASE u = proc[r].user
  <2>1. Owned(u)' = Owned(u) \cup {l} /\ l \notin Owned(u)
    <3>1. /\ lists'[l].state = "live" /\ lists'[l].owner = u /\ lists[l].state = "unused"
          /\ \A k \in Ids \ {l} : lists'[k] = lists[k]
      BY <1>1, <1>3 DEF FreshId, UnusedIds, OwnershipInv, Shapes
    <3> QED
      BY <3>1 DEF Owned, LiveIds, Live
  <2>2. Inserting(u)' = Inserting(u) \ {r} /\ r \in Inserting(u)
    <3>1. proc[r].at = "insert"
      BY DEF Insert
    <3> QED
      BY <1>2, <1>3, <3>1 DEF Inserting
  <2>3. Cardinality(Owned(u)') = Cardinality(Owned(u)) + 1
        /\ Cardinality(Inserting(u)') = Cardinality(Inserting(u)) - 1
    <3>1. Cardinality(Owned(u)') = Cardinality(Owned(u)) + 1
      BY <2>1, BillTypes, FS_AddElement
    <3>2. Cardinality(Inserting(u)') = Cardinality(Inserting(u)) - 1
      BY <2>2, BillTypes, FS_RemoveElement
    <3> QED
      BY <3>1, <3>2
  <2> QED
    BY <2>3, BillTypes, WatchlistsAssumption DEF BillInv, Bill
<1>4. CASE u # proc[r].user
  <2>1. Owned(u)' \subseteq Owned(u)
    BY <1>1, <1>4 DEF OwnershipInv, Shapes, Owned, LiveIds, Live
  <2>2. Inserting(u)' \subseteq Inserting(u)
    BY <1>2 DEF Inserting
  <2>3. /\ Cardinality(Owned(u)') <= Cardinality(Owned(u)) /\ Cardinality(Owned(u)') \in Nat
        /\ Cardinality(Inserting(u)') <= Cardinality(Inserting(u)) /\ Cardinality(Inserting(u)') \in Nat
    BY <2>1, <2>2, BillTypes, FS_Subset, FS_CardinalityType
  <2> QED
    BY <2>3, BillTypes, WatchlistsAssumption DEF BillInv, Bill
<1> QED
  BY <1>3, <1>4

LEMMA BillStep == OwnershipInv /\ BillInv /\ [Next]_vars => BillInv'
<1> SUFFICES ASSUME OwnershipInv, BillInv, [Next]_vars PROVE BillInv'
  OBVIOUS
<1>1. CASE UNCHANGED <<lists, proc>>
  <2>1. \A u \in Users : Owned(u)' \subseteq Owned(u) /\ Inserting(u)' \subseteq Inserting(u)
    BY <1>1 DEF Owned, LiveIds, Live, Inserting
  <2> QED
    BY <2>1, BillShrinks
<1>2. CASE lists' = lists /\ \A q \in Requests : proc'[q] = proc[q] \/ proc'[q].at # "insert"
  <2>1. \A u \in Users : Owned(u)' \subseteq Owned(u) /\ Inserting(u)' \subseteq Inserting(u)
    BY <1>2 DEF Owned, LiveIds, Live, Inserting
  <2> QED
    BY <2>1, BillShrinks
<1>3. ASSUME NEW l \in Ids, DeleteWatchlist(l) PROVE BillInv'
  <2>1. \A u \in Users : Owned(u)' \subseteq Owned(u) /\ Inserting(u)' \subseteq Inserting(u)
    BY <1>3 DEF DeleteWatchlist, OwnershipInv, Shapes, Owned, LiveIds, Live, Inserting
  <2> QED
    BY <2>1, BillShrinks
<1>4. ASSUME NEW p \in Processes, Run(p) PROVE BillInv'
  <2>1. proc'[p].at # "insert"
    <3>1. CASE Commit(p)
      BY <3>1 DEF Commit, OwnershipInv, Shapes, Fields
    <3>2. CASE CommitFails(p) \/ Done(p)
      BY <3>2, IdleHolds DEF CommitFails, Done, OwnershipInv, Shapes
    <3> QED
      BY <1>4, <3>1, <3>2 DEF Run
  <2>2. lists' = lists /\ \A q \in Processes \ {p} : proc'[q] = proc[q]
    BY <1>4 DEF Run, Commit, CommitFails, Done, OwnershipInv, Shapes
  <2> QED
    BY <1>2, <2>1, <2>2 DEF Processes
<1>5. CASE WorkerStep
  <2>1. CASE StartTick \/ ListAll \/ WorkerNext
    BY <1>2, <2>1, WatchlistsAssumption
       DEF StartTick, ListAll, WorkerNext, OwnershipInv, Shapes, Processes
  <2> QED
    BY <1>4, <1>5, <2>1 DEF WorkerStep, Processes
<1>6. ASSUME NEW r \in Requests, RequestNext(r) PROVE BillInv'
  <2>1. r \in Processes
    BY DEF Processes
  <2>2. proc'[r].at # "insert" /\ \A q \in Processes \ {r} : proc'[q] = proc[q]
    BY <1>6, <2>1 DEF RequestNext, OwnershipInv, Shapes, Fields
  <2> QED
    BY <1>2, <1>6, <2>2 DEF RequestNext, Processes
<1>7. ASSUME NEW r \in Requests, NEW u \in Users, EvaluateAll(r, u) PROVE BillInv'
  BY <1>2, <1>7 DEF EvaluateAll, Start, OwnershipInv, Shapes, Processes, Idle
<1>8. ASSUME NEW r \in Requests, NEW l \in Ids, EvaluateWatchlist(r, l) PROVE BillInv'
  BY <1>2, <1>8 DEF EvaluateWatchlist, Start, OwnershipInv, Shapes, Processes, Idle
<1>9. ASSUME NEW r \in Requests, NEW u \in Users, NEW items \in ItemSets,
             CreateWatchlist(r, u, items)
      PROVE  BillInv'
  BY <1>9, CreateBill
<1>10. Requests \subseteq Processes
  BY DEF Processes
<1> QED
  BY <1>1, <1>3, <1>4, <1>5, <1>6, <1>7, <1>8, <1>9, <1>10, InsertBill
     DEF Next, vars, SaveChangeSet, MarkRead, MarkAllRead

\* Concurrent creations exceed the plan's number of watchlists by no more than
\* the requests in flight less one, whatever is deleted meanwhile.
THEOREM Overshoot == Spec => []OvershootBounded
<1>1. BillInv => OvershootBounded
  <2> SUFFICES ASSUME BillInv, NEW u \in Users
               PROVE  Cardinality(Owned(u)) <= MaxWatchlists + Cardinality(Requests) - 1
    BY DEF OvershootBounded
  <2> QED
    BY BillTypes, WatchlistsAssumption DEF BillInv, Bill
<1>2. Spec => []BillInv
  BY BillInit, BillStep, OwnershipInvariant, PTL DEF Spec
<1> QED
  BY <1>1, <1>2, PTL

\* What the type invariant rests on: every document is one that was saved, in
\* what is stored and in what a process has read of it.
Documents == 2..(MaxSaves + 1)
ChangeSet == [doc : Documents, evidence : {"current", "previous"}, added : Nat, material : BOOLEAN]
Intelligence == [changes : Seq(ChangeSet), events : SUBSET Documents]
Row == [state : {"unused", "live", "deleted"}, owner : Users, items : SUBSET Types]
Held == [at : {"idle", "list", "insert", "next", "commit"}, user : Users, items : SUBSET Types,
         new : SUBSET Ids, todo : SUBSET Ids, list : Ids \cup {0}, seen : Intelligence,
         batch : SUBSET Key]

TypeInv ==
  /\ Looked \in Intelligence
  /\ lists \in [Ids -> Row]
  /\ notes \in [DOMAIN notes -> BOOLEAN] /\ DOMAIN notes \subseteq Key
  /\ audited \subseteq Ids /\ collided \subseteq Ids /\ raced \subseteq Ids
  /\ proc \in [Processes -> Held]

LEMMA IdleTypes == Idle \in Held /\ Unused \in Row
<1>1. (CHOOSE u \in Users : TRUE) \in Users
  BY WatchlistsAssumption
<1>2. Seen \in Intelligence
  BY DEF Seen, Intelligence
<1> QED
  BY <1>1, <1>2 DEF Idle, Unused, Held, Row

\* A notification is about a document that was saved or the one before it.
LEMMA KeysTypes ==
  ASSUME NEW l \in Ids, lists[l] \in Row, NEW seen \in Intelligence
  PROVE  Keys(l, seen) \subseteq Key
<1> DEFINE Nids == [type : Types, kind : {"change", "event"}, doc : 1..(MaxSaves + 1), title : Nat]
<1>1. ASSUME NEW type \in Types, NEW cs \in ChangeSet PROVE ChangeNid(type, cs) \in Nids
  <2>1. cs.doc \in Documents /\ cs.added \in Nat
    BY DEF ChangeSet
  <2>2. Canonical(cs) \in 1..(MaxSaves + 1)
    BY <2>1, WatchlistsAssumption DEF Canonical, Documents
  <2>3. ChangeTitle(type, cs) \in Nat
    BY <2>1 DEF ChangeTitle
  <2> QED
    BY <2>2, <2>3 DEF ChangeNid, Nid
<1>2. ASSUME NEW type \in Types, NEW doc \in Documents PROVE Nid(type, "event", doc, 0) \in Nids
  BY <1>2, WatchlistsAssumption DEF Nid, Documents
<1>3. \A type \in Types : Candidates(type, seen) \subseteq Nids
  <2>1. Range(seen.changes) \subseteq ChangeSet /\ seen.events \subseteq Documents
    BY DEF Intelligence, Range
  <2> QED
    BY <1>1, <1>2, <2>1 DEF Candidates
<1>4. Matched(lists[l].items, seen) \subseteq Nids
  <2>1. lists[l].items \subseteq Types
    BY DEF Row
  <2> QED
    BY <1>3, <2>1 DEF Matched, Capped
<1> QED
  BY <1>4 DEF Keys, Key

LEMMA TypeInit == Init => TypeInv
<1> SUFFICES ASSUME Init PROVE TypeInv
  OBVIOUS
<1>1. Looked \in Intelligence
  BY DEF Init, Looked, Intelligence
<1>2. lists \in [Ids -> Row] /\ proc \in [Processes -> Held]
  BY IdleTypes DEF Init
<1>3. notes \in [DOMAIN notes -> BOOLEAN] /\ DOMAIN notes = {}
  BY DEF Init
<1> QED
  BY <1>1, <1>2, <1>3 DEF Init, TypeInv

\* The process that has moved, and what its step leaves alone.
LEMMA TypeMoves ==
  ASSUME TypeInv, NEW p \in Processes, NEW h \in Held, proc' = [proc EXCEPT ![p] = h],
         UNCHANGED <<changeSets, events, lists, notes, raced>>,
         audited' \subseteq Ids, collided' \subseteq Ids
  PROVE  TypeInv'
BY DEF TypeInv, Looked

LEMMA TakeTypes ==
  ASSUME TypeInv, NEW p \in Processes, NEW l \in proc[p].todo, NEW seen \in Intelligence,
         proc' = [proc EXCEPT ![p].at = "commit", ![p].list = l, ![p].todo = @ \ {l},
                              ![p].batch = Missing(l, seen)],
         UNCHANGED <<changeSets, events, lists, notes, audited, collided, raced>>
  PROVE  TypeInv'
<1>1. proc[p] \in Held /\ l \in Ids /\ lists[l] \in Row
  BY DEF TypeInv, Held
<1>2. Missing(l, seen) \subseteq Key
  BY <1>1, KeysTypes DEF Missing
<1> DEFINE h == [proc[p] EXCEPT !.at = "commit", !.list = l, !.todo = @ \ {l},
                               !.batch = Missing(l, seen)]
<1>3. h \in Held
  BY <1>1, <1>2 DEF Held
<1>4. proc' = [proc EXCEPT ![p] = h]
  BY DEF TypeInv
<1> HIDE DEF h
<1> QED
  BY <1>3, <1>4, TypeMoves DEF TypeInv

LEMMA SaveTypes ==
  ASSUME TypeInv, NEW i \in 1..MaxSaves, NEW content \in Contents, SaveChangeSet(i, content)
  PROVE  TypeInv'
<1> DEFINE cs == [doc |-> i + 1, evidence |-> content.evidence, added |-> content.added,
                  material |-> content.material]
<1>1. cs \in ChangeSet /\ i + 1 \in Documents
  BY WatchlistsAssumption DEF ChangeSet, Documents
<1>2. changeSets \in Seq(ChangeSet) /\ events \subseteq Documents
  BY DEF TypeInv, Looked, Intelligence
<1>3. changeSets' = [j \in 1..Len(changeSets) \cup {i} |-> IF j = i THEN cs ELSE changeSets[j]]
  BY DEF SaveChangeSet
<1>4. \E n \in Nat : 1..Len(changeSets) \cup {i} = 1..n
  <2>1. Len(changeSets) \in Nat /\ i \in 1..(Len(changeSets) + 1)
    BY <1>2 DEF SaveChangeSet
  <2>2. CASE i = Len(changeSets) + 1
    <3>1. 1..Len(changeSets) \cup {i} = 1..(Len(changeSets) + 1)
      BY <2>1, <2>2
    <3> QED
      BY <2>1, <3>1
  <2>3. CASE i # Len(changeSets) + 1
    <3>1. 1..Len(changeSets) \cup {i} = 1..Len(changeSets)
      BY <2>1, <2>3
    <3> QED
      BY <2>1, <3>1
  <2> QED
    BY <2>2, <2>3
<1>5. changeSets' \in Seq(ChangeSet)
  <2> HIDE DEF cs
  <2>1. PICK n \in Nat : 1..Len(changeSets) \cup {i} = 1..n
    BY <1>4
  <2>2. \A j \in 1..Len(changeSets) : changeSets[j] \in ChangeSet
    BY <1>2
  <2>3. changeSets' \in [1..n -> ChangeSet]
    BY <1>1, <1>3, <2>1, <2>2
  <2> QED
    BY <2>1, <2>3
<1>6. events' \subseteq Documents
  BY <1>1, <1>2 DEF SaveChangeSet
<1> QED
  BY <1>5, <1>6 DEF SaveChangeSet, TypeInv, Looked, Intelligence

LEMMA RunTypes ==
  ASSUME TypeInv, NEW p \in Processes, Run(p)
  PROVE  TypeInv'
<1>1. proc[p] \in Held /\ proc[p].new \subseteq Ids
  BY DEF TypeInv, Held
<1>2. CASE Commit(p)
  <2> DEFINE h == [proc[p] EXCEPT !.at = "next", !.batch = {}, !.list = 0]
  <2>1. h \in Held
    BY <1>1 DEF Held
  <2>2. proc' = [proc EXCEPT ![p] = h]
    BY <1>2 DEF Commit, TypeInv
  <2> HIDE DEF h
  <2>3. proc' \in [Processes -> Held]
    BY <2>1, <2>2 DEF TypeInv
  <2>4. notes' = [n \in DOMAIN notes \cup proc[p].batch |-> n \in DOMAIN notes /\ notes[n]]
    BY <1>2 DEF Commit
  <2>5. DOMAIN notes' \subseteq Key
    BY <1>1, <2>4 DEF TypeInv, Held
  <2>6. notes' \in [DOMAIN notes' -> BOOLEAN]
    BY <2>4
  <2> QED
    BY <1>2, <2>3, <2>5, <2>6 DEF Commit, TypeInv, Looked
<1>3. CASE CommitFails(p)
  <2>1. collided' \subseteq Ids
    BY <1>1, <1>3 DEF CommitFails, TypeInv
  <2> QED
    BY <1>3, <2>1, IdleTypes, TypeMoves DEF CommitFails, TypeInv
<1>4. CASE Done(p)
  <2>1. audited' \subseteq Ids
    BY <1>1, <1>4 DEF Done, TypeInv
  <2> QED
    BY <1>4, <2>1, IdleTypes, TypeMoves DEF Done, TypeInv
<1> QED
  BY <1>2, <1>3, <1>4 DEF Run

LEMMA WorkerTypes ==
  ASSUME TypeInv, WorkerStep
  PROVE  TypeInv'
<1>1. Worker \in Processes /\ proc[Worker] \in Held /\ Looked \in Intelligence
  BY DEF Processes, TypeInv
<1>2. CASE StartTick
  <2> DEFINE h == [Idle EXCEPT !.at = "list", !.seen = Looked]
  <2>1. h \in Held
    BY <1>1, IdleTypes DEF Held
  <2> HIDE DEF h
  <2>2. proc' = [proc EXCEPT ![Worker] = h]
    BY <1>2 DEF StartTick, h
  <2> QED
    BY <1>1, <1>2, <2>1, <2>2, TypeMoves DEF StartTick, TypeInv
<1>3. CASE ListAll
  <2> DEFINE h == [proc[Worker] EXCEPT !.at = "next", !.todo = LiveIds]
  <2>1. h \in Held
    BY <1>1 DEF Held, LiveIds
  <2>2. proc' = [proc EXCEPT ![Worker] = h]
    BY <1>1, <1>3 DEF ListAll, TypeInv
  <2> HIDE DEF h
  <2> QED
    BY <1>1, <1>3, <2>1, <2>2, TypeMoves DEF ListAll, TypeInv
<1>4. CASE WorkerNext
  <2>1. proc[Worker].seen \in Intelligence
    BY <1>1 DEF Held
  <2>2. PICK l \in proc[Worker].todo :
          proc' = [proc EXCEPT ![Worker].at = "commit", ![Worker].list = l,
                               ![Worker].todo = @ \ {l},
                               ![Worker].batch = Missing(l, proc[Worker].seen)]
    BY <1>4 DEF WorkerNext
  <2> QED
    BY <1>1, <1>4, <2>1, <2>2, TakeTypes DEF WorkerNext
<1> QED
  BY <1>1, <1>2, <1>3, <1>4, RunTypes DEF WorkerStep

LEMMA RequestTypes ==
  ASSUME TypeInv, NEW r \in Requests,
         \/ \E u \in Users : EvaluateAll(r, u) \/ \E items \in ItemSets : CreateWatchlist(r, u, items)
         \/ \E l \in Ids : EvaluateWatchlist(r, l)
         \/ Insert(r) \/ RequestNext(r) \/ Run(r)
  PROVE  TypeInv'
<1>1. r \in Processes /\ proc[r] \in Held /\ Looked \in Intelligence
  BY DEF Processes, TypeInv
<1>2. ASSUME NEW u \in Users, EvaluateAll(r, u) PROVE TypeInv'
  <2> DEFINE h == [Idle EXCEPT !.at = "next", !.todo = Owned(u)]
  <2>1. h \in Held
    BY IdleTypes DEF Held, Owned, LiveIds
  <2> HIDE DEF h
  <2>2. proc' = [proc EXCEPT ![r] = h]
    BY <1>2 DEF EvaluateAll, h
  <2> QED
    BY <1>1, <1>2, <2>1, <2>2, TypeMoves DEF EvaluateAll, Start, TypeInv
<1>3. ASSUME NEW u \in Users, NEW items \in ItemSets, CreateWatchlist(r, u, items) PROVE TypeInv'
  <2> DEFINE h == [Idle EXCEPT !.at = "insert", !.user = u, !.items = items]
  <2>1. h \in Held
    BY IdleTypes, WatchlistsAssumption DEF Held
  <2> HIDE DEF h
  <2>2. proc' = [proc EXCEPT ![r] = h]
    BY <1>3 DEF CreateWatchlist, h
  <2> QED
    BY <1>1, <1>3, <2>1, <2>2, TypeMoves DEF CreateWatchlist, Start, TypeInv
<1>4. ASSUME NEW l \in Ids, EvaluateWatchlist(r, l) PROVE TypeInv'
  <2> DEFINE h == [Idle EXCEPT !.at = "next", !.todo = {l}]
  <2>1. h \in Held
    BY IdleTypes DEF Held
  <2> HIDE DEF h
  <2>2. proc' = [proc EXCEPT ![r] = h]
    BY <1>4 DEF EvaluateWatchlist, h
  <2> QED
    BY <1>1, <1>4, <2>1, <2>2, TypeMoves DEF EvaluateWatchlist, Start, TypeInv
<1>5. CASE Insert(r)
  <2>1. PICK l \in Ids :
          /\ lists' = [lists EXCEPT ![l] = [state |-> "live", owner |-> proc[r].user,
                                             items |-> proc[r].items]]
          /\ proc' = [proc EXCEPT ![r] = [Idle EXCEPT !.at = "next", !.todo = {l}, !.new = {l}]]
    BY <1>5 DEF Insert
  <2>2. [state |-> "live", owner |-> proc[r].user, items |-> proc[r].items] \in Row
    BY <1>1 DEF Held, Row
  <2>3. [Idle EXCEPT !.at = "next", !.todo = {l}, !.new = {l}] \in Held
    BY IdleTypes DEF Held
  <2>4. lists' \in [Ids -> Row] /\ proc' \in [Processes -> Held]
    BY <2>1, <2>2, <2>3 DEF TypeInv
  <2> QED
    BY <1>5, <2>4 DEF Insert, TypeInv, Looked
<1>6. CASE RequestNext(r)
  <2>1. PICK l \in proc[r].todo :
          proc' = [proc EXCEPT ![r].at = "commit", ![r].list = l, ![r].todo = @ \ {l},
                               ![r].batch = Missing(l, Looked)]
    BY <1>6 DEF RequestNext
  <2>2. PICK seen \in Intelligence : seen = Looked
    BY <1>1
  <2> QED
    BY <1>1, <1>6, <2>1, <2>2, TakeTypes DEF RequestNext
<1> QED
  BY <1>1, <1>2, <1>3, <1>4, <1>5, <1>6, RunTypes

LEMMA TypeStep == TypeInv /\ [Next]_vars => TypeInv'
<1> SUFFICES ASSUME TypeInv, [Next]_vars PROVE TypeInv'
  OBVIOUS
<1>1. CASE UNCHANGED vars
  BY <1>1 DEF vars, TypeInv, Looked
<1>2. ASSUME NEW l \in Ids, DeleteWatchlist(l) PROVE TypeInv'
  <2>1. lists' = [lists EXCEPT ![l].state = "deleted"]
    BY <1>2 DEF DeleteWatchlist
  <2>2. lists' \in [Ids -> Row]
    BY <2>1 DEF TypeInv, Row
  <2>3. notes' = [n \in {k \in DOMAIN notes : k.list # l} |-> notes[n]]
    BY <1>2 DEF DeleteWatchlist
  <2>4. notes' \in [DOMAIN notes' -> BOOLEAN] /\ DOMAIN notes' \subseteq Key
    BY <2>3 DEF TypeInv
  <2>5. raced' \subseteq Ids
    BY <1>2 DEF DeleteWatchlist, TypeInv
  <2> QED
    BY <1>2, <2>2, <2>4, <2>5 DEF DeleteWatchlist, TypeInv, Looked
<1>3. ASSUME NEW n \in DOMAIN notes, MarkRead(n) PROVE TypeInv'
  <2>1. notes' = [notes EXCEPT ![n] = TRUE]
    BY <1>3 DEF MarkRead
  <2>2. notes' \in [DOMAIN notes' -> BOOLEAN] /\ DOMAIN notes' \subseteq Key
    BY <2>1 DEF TypeInv
  <2> QED
    BY <1>3, <2>2 DEF MarkRead, TypeInv, Looked
<1>4. ASSUME NEW u \in Users, MarkAllRead(u) PROVE TypeInv'
  <2>1. notes' = [n \in DOMAIN notes |-> notes[n] \/ lists[n.list].owner = u]
    BY <1>4 DEF MarkAllRead
  <2>2. notes' \in [DOMAIN notes' -> BOOLEAN] /\ DOMAIN notes' \subseteq Key
    BY <2>1 DEF TypeInv
  <2> QED
    BY <1>4, <2>2 DEF MarkAllRead, TypeInv, Looked
<1> QED
  BY <1>1, <1>2, <1>3, <1>4, SaveTypes, WorkerTypes, RequestTypes DEF Next

\* Stored rows, notifications and what a process holds stay well formed, and no
\* notification is about a document that was never there.
THEOREM WellFormed == Spec => []TypeOK
<1>1. TypeInv => TypeOK
  <2> SUFFICES ASSUME TypeInv PROVE TypeOK
    OBVIOUS
  <2>1. events \subseteq 2..(MaxSaves + 1)
    BY DEF TypeInv, Looked, Intelligence, Documents
  <2>2. \A n \in DOMAIN notes : notes[n] \in BOOLEAN
    BY DEF TypeInv
  <2> QED
    BY <2>1, <2>2 DEF TypeInv, TypeOK, Row, Held
<1> QED
  BY <1>1, TypeInit, TypeStep, PTL DEF Spec

\* All of it at once, for any users, requests, lists, documents and limits.
THEOREM Lists == Spec => []ListsSound
BY WellFormed, Overshoot, Orphans, Creations, PTL DEF ListsSound
=============================================================================
