----------------------------- MODULE Watchlists -----------------------------
(***************************************************************************)
(* Watchlists and the notifications made from them.  The worker evaluates  *)
(* every watchlist after each ingestion; requests create, evaluate and     *)
(* delete them, side by side, over one SQLite database.  Adding            *)
(* notifications is check-then-insert under a primary key: a batch that    *)
(* meets a row inserted meanwhile fails as a whole.                        *)
(*                                                                         *)
(* The change sets and events are those of one company, one per document;  *)
(* document 1 has none before it, and so no changes.                       *)
(* A change set's evidence is the document its first change was found in:  *)
(* its own, or for a removed statement the one before it.                  *)
(***************************************************************************)
EXTENDS Naturals, Sequences, FiniteSets, Functions

CONSTANTS
  Users, Requests,
  Ids,           \* bound: watchlists ever created, in this order
  ItemSets,      \* the sets of item types a new watchlist may have
  Contents,      \* what a document may bring: evidence, added, material, event
  PerItemLimit,  \* match_watch_items: notifications of an item per evaluation
  MaxWatchlists, \* the plan's limit
  MaxSaves,      \* bound: change sets saved
  MaxStarts      \* bound: requests that evaluate or create

Worker == "worker"
Processes == Requests \cup {Worker}
Types == {"company", "country", "topic"}

ASSUME WatchlistsAssumption ==
  /\ Users # {} /\ Ids \subseteq Nat /\ Worker \notin Requests
  /\ IsFiniteSet(Ids) /\ IsFiniteSet(Requests)
  /\ ItemSets \subseteq SUBSET Types
  /\ Contents \subseteq [evidence : {"current", "previous"}, added : Nat,
                         material : BOOLEAN, event : BOOLEAN]
  /\ PerItemLimit \in Nat \ {0} /\ MaxWatchlists \in Nat \ {0}
  /\ MaxSaves \in Nat /\ MaxStarts \in Nat

VARIABLES
  changeSets,  \* intelligence: change sets in the order they were first saved
  events,      \* intelligence: documents with an event
  lists,       \* per id: unused, live or deleted, with its owner and items
  notes,       \* the stored notifications: key |-> read
  audited,     \* watchlists whose creation is in the audit log
  proc,        \* per process: where it is and what it has read
  starts, saves,
  collided,    \* watchlists whose creation failed on a notification
  raced        \* watchlists deleted while an evaluation held them

vars == <<changeSets, events, lists, notes, audited, proc,
          starts, saves, collided, raced>>

Unused == [state |-> "unused", owner |-> CHOOSE u \in Users : TRUE, items |-> {}]
Seen == [changes |-> <<>>, events |-> {}]
Idle == [at |-> "idle", user |-> CHOOSE u \in Users : TRUE, items |-> {},
         new |-> {}, todo |-> {}, list |-> 0, seen |-> Seen, batch |-> {}]

Live(l) == lists[l].state = "live"
LiveIds == {l \in Ids : Live(l)}
Owned(u) == {l \in LiveIds : lists[l].owner = u}

-----------------------------------------------------------------------------
(* What an evaluation emits. *)

Canonical(cs) == IF cs.evidence = "current" THEN cs.doc ELSE cs.doc - 1

\* The identity of a notification: sha256 of type, value, kind, document, title.
Nid(type, kind, doc, title) == [type |-> type, kind |-> kind, doc |-> doc, title |-> title]

\* Only a company item has the number of added statements in its title.
ChangeTitle(type, cs) == IF type = "company" THEN cs.added ELSE 0

ChangeNid(type, cs) == Nid(type, "change", Canonical(cs), ChangeTitle(type, cs))

\* Every item here is one the company's change sets match when they are
\* material: the company itself, a country or industry it is exposed to, a topic
\* of its text.  A text item matches the events too.
Candidates(type, seen) ==
  {ChangeNid(type, cs) : cs \in {c \in Range(seen.changes) : c.material}}
    \cup {Nid(type, "event", doc, 0) : doc \in {d \in seen.events : type = "topic"}}

\* The order they are emitted in: the change sets as they are stored, one that
\* comes again where it came first, then the events, newest first.
EmittedBefore(n, m, type, seen) ==
  \/ n.kind = "change" /\ m.kind = "event"
  \/ n.kind = "event" /\ m.kind = "event" /\ n.doc > m.doc
  \/ /\ n.kind = "change" /\ m.kind = "change"
     /\ \E i \in DOMAIN seen.changes :
          /\ seen.changes[i].material /\ ChangeNid(type, seen.changes[i]) = n
          /\ \A j \in 1..i : seen.changes[j].material => ChangeNid(type, seen.changes[j]) # m

\* The first PerItemLimit different ones.
Capped(type, seen) ==
  {n \in Candidates(type, seen) :
     Cardinality({m \in Candidates(type, seen) : EmittedBefore(m, n, type, seen)}) < PerItemLimit}

Matched(items, seen) == UNION {Capped(type, seen) : type \in items}

\* The stored id has the watchlist's in front.
Keys(l, seen) == {[list |-> l, nid |-> n] : n \in Matched(lists[l].items, seen)}

Looked == [changes |-> changeSets, events |-> events]

-----------------------------------------------------------------------------
(* The intelligence changes. *)

\* save_change_set merges: the change set of a new document comes last, that of
\* a document computed again replaces the first one where it stands.
SaveChangeSet(i, content) ==
  /\ saves < MaxSaves /\ i \in 1..(Len(changeSets) + 1)
  /\ LET doc == i + 1
         cs  == [doc |-> doc, evidence |-> content.evidence, added |-> content.added,
                 material |-> content.material]
     IN /\ changeSets' = [j \in 1..Len(changeSets) \cup {i} |-> IF j = i THEN cs ELSE changeSets[j]]
        /\ events' = IF content.event THEN events \cup {doc} ELSE events \ {doc}
  /\ saves' = saves + 1
  /\ UNCHANGED <<lists, notes, audited, proc, starts, collided, raced>>

-----------------------------------------------------------------------------
(* The worker: everything is read once, then every watchlist is evaluated. *)

StartTick ==
  /\ proc[Worker].at = "idle"
  /\ proc' = [proc EXCEPT ![Worker] = [Idle EXCEPT !.at = "list", !.seen = Looked]]
  /\ UNCHANGED <<changeSets, events, lists, notes, audited, starts, saves, collided, raced>>

ListAll ==
  /\ proc[Worker].at = "list"
  /\ proc' = [proc EXCEPT ![Worker].at = "next", ![Worker].todo = LiveIds]
  /\ UNCHANGED <<changeSets, events, lists, notes, audited, starts, saves, collided, raced>>

\* Mutant: the stored id lacks the watchlist in front.
MissingAnywhere(l, seen) == {k \in Keys(l, seen) : \A n \in DOMAIN notes : n.nid # k.nid}

\* add_notifications looks for each notification and inserts the missing ones
\* in one commit, Commit below.  The watchlists go by owner and age; the order
\* is left open.
Missing(l, seen) == Keys(l, seen) \ DOMAIN notes

WorkerNext ==
  /\ proc[Worker].at = "next"
  /\ \E l \in proc[Worker].todo :
       proc' = [proc EXCEPT ![Worker].at = "commit", ![Worker].list = l, ![Worker].todo = @ \ {l},
                            ![Worker].batch = Missing(l, proc[Worker].seen)]
  /\ UNCHANGED <<changeSets, events, lists, notes, audited, starts, saves, collided, raced>>

-----------------------------------------------------------------------------
(* Requests. *)

Start(r) ==
  /\ proc[r].at = "idle" /\ starts < MaxStarts
  /\ starts' = starts + 1
  /\ UNCHANGED <<changeSets, events, lists, notes, audited, saves, collided, raced>>

UnusedIds == {l \in Ids : lists[l].state = "unused"}

\* The quota is counted here, against what is stored at this moment.
CreateWatchlist(r, u, items) ==
  /\ Start(r)
  /\ Cardinality(Owned(u)) < MaxWatchlists
  /\ proc' = [proc EXCEPT ![r] = [Idle EXCEPT !.at = "insert", !.user = u, !.items = items]]

EvaluateWatchlist(r, l) ==
  /\ Start(r) /\ Live(l)
  /\ proc' = [proc EXCEPT ![r] = [Idle EXCEPT !.at = "next", !.todo = {l}]]

EvaluateAll(r, u) ==
  /\ Start(r) /\ Owned(u) # {}
  /\ proc' = [proc EXCEPT ![r] = [Idle EXCEPT !.at = "next", !.todo = Owned(u)]]

FreshId(l) == l \in UnusedIds /\ \A k \in UnusedIds : l <= k

Insert(r) ==
  /\ proc[r].at = "insert"
  /\ \E l \in Ids :
       /\ FreshId(l)
       /\ lists' = [lists EXCEPT ![l] = [state |-> "live", owner |-> proc[r].user,
                                         items |-> proc[r].items]]
       /\ proc' = [proc EXCEPT ![r] = [Idle EXCEPT !.at = "next", !.todo = {l}, !.new = {l}]]
  /\ UNCHANGED <<changeSets, events, notes, audited, starts, saves, collided, raced>>

\* _evaluate_watchlist reads the intelligence anew for each watchlist.
RequestNext(r) ==
  /\ proc[r].at = "next"
  /\ \E l \in proc[r].todo :
       proc' = [proc EXCEPT ![r].at = "commit", ![r].list = l, ![r].todo = @ \ {l},
                            ![r].batch = Missing(l, Looked)]
  /\ UNCHANGED <<changeSets, events, lists, notes, audited, starts, saves, collided, raced>>

-----------------------------------------------------------------------------
(* The commit of add_notifications. *)

\* Mutant: session.merge in place of session.add.
CommitMerge(p) ==
  /\ proc[p].at = "commit"
  /\ notes' = [n \in DOMAIN notes \cup proc[p].batch |-> n \notin proc[p].batch /\ notes[n]]
  /\ proc' = [proc EXCEPT ![p].at = "next", ![p].batch = {}, ![p].list = 0]
  /\ UNCHANGED <<changeSets, events, lists, audited, starts, saves, collided, raced>>

Commit(p) ==
  /\ proc[p].at = "commit" /\ proc[p].batch \cap DOMAIN notes = {}
  /\ notes' = [n \in DOMAIN notes \cup proc[p].batch |-> n \in DOMAIN notes /\ notes[n]]
  /\ proc' = [proc EXCEPT ![p].at = "next", ![p].batch = {}, ![p].list = 0]
  /\ UNCHANGED <<changeSets, events, lists, audited, starts, saves, collided, raced>>

\* IntegrityError: the whole tick, or the whole request, ends here.
CommitFails(p) ==
  /\ proc[p].at = "commit" /\ proc[p].batch \cap DOMAIN notes # {}
  /\ collided' = collided \cup proc[p].new
  /\ proc' = [proc EXCEPT ![p] = Idle]
  /\ UNCHANGED <<changeSets, events, lists, notes, audited, starts, saves, raced>>

\* A creation is written to the audit log after its evaluation.
Done(p) ==
  /\ proc[p].at = "next" /\ proc[p].todo = {}
  /\ audited' = audited \cup proc[p].new
  /\ proc' = [proc EXCEPT ![p] = Idle]
  /\ UNCHANGED <<changeSets, events, lists, notes, starts, saves, collided, raced>>

-----------------------------------------------------------------------------
(* Requests that are one transaction. *)

Holders(l) == {p \in Processes : l \in proc[p].todo \cup {proc[p].list}}

\* Mutant: the notifications stay.
DeleteListOnly(l) ==
  /\ Live(l)
  /\ lists' = [lists EXCEPT ![l].state = "deleted"]
  /\ raced' = IF Holders(l) = {} THEN raced ELSE raced \cup {l}
  /\ UNCHANGED <<changeSets, events, notes, audited, proc, starts, saves, collided>>

DeleteWatchlist(l) ==
  /\ Live(l)
  /\ lists' = [lists EXCEPT ![l].state = "deleted"]
  /\ notes' = [n \in {k \in DOMAIN notes : k.list # l} |-> notes[n]]
  /\ raced' = IF Holders(l) = {} THEN raced ELSE raced \cup {l}
  /\ UNCHANGED <<changeSets, events, audited, proc, starts, saves, collided>>

MarkRead(n) ==
  /\ ~notes[n]
  /\ notes' = [notes EXCEPT ![n] = TRUE]
  /\ UNCHANGED <<changeSets, events, lists, audited, proc, starts, saves, collided, raced>>

MarkAllRead(u) ==
  /\ \E n \in DOMAIN notes : lists[n.list].owner = u /\ ~notes[n]
  /\ notes' = [n \in DOMAIN notes |-> notes[n] \/ lists[n.list].owner = u]
  /\ UNCHANGED <<changeSets, events, lists, audited, proc, starts, saves, collided, raced>>

-----------------------------------------------------------------------------
Init ==
  /\ changeSets = <<>> /\ events = {}
  /\ lists = [l \in Ids |-> Unused]
  /\ notes = <<>>
  /\ audited = {} /\ collided = {} /\ raced = {}
  /\ proc = [p \in Processes |-> Idle]
  /\ starts = 0 /\ saves = 0

Run(p) == Commit(p) \/ CommitFails(p) \/ Done(p)

WorkerStep == StartTick \/ ListAll \/ WorkerNext \/ Run(Worker)

Next ==
  \/ \E i \in 1..MaxSaves, c \in Contents : SaveChangeSet(i, c)
  \/ WorkerStep
  \/ \E r \in Requests :
       \/ \E u \in Users : EvaluateAll(r, u) \/ \E items \in ItemSets : CreateWatchlist(r, u, items)
       \/ \E l \in Ids : EvaluateWatchlist(r, l)
       \/ Insert(r) \/ RequestNext(r) \/ Run(r)
  \/ \E l \in Ids : DeleteWatchlist(l)
  \/ \E n \in DOMAIN notes : MarkRead(n)
  \/ \E u \in Users : MarkAllRead(u)

\* The worker is scheduled again and again and each tick runs to its end or to
\* an error; requests come when users send them.
Fairness == WF_vars(WorkerStep)

Spec == Init /\ [][Next]_vars /\ Fairness

-----------------------------------------------------------------------------
(* Properties. *)

Key == [list : Ids, nid : [type : Types, kind : {"change", "event"},
                           doc : 1..(MaxSaves + 1), title : Nat]]

\* Type invariant: the stored rows and what each process holds are well formed.
TypeOK ==
  /\ \A l \in Ids : lists[l] \in [state : {"unused", "live", "deleted"}, owner : Users,
                                  items : SUBSET Types]
  /\ DOMAIN notes \subseteq Key /\ \A n \in DOMAIN notes : notes[n] \in BOOLEAN
  /\ audited \subseteq Ids /\ collided \subseteq Ids /\ raced \subseteq Ids
  /\ events \subseteq 2..(MaxSaves + 1)
  /\ \A p \in Processes :
       /\ proc[p].at \in {"idle", "list", "insert", "next", "commit"}
       /\ proc[p].todo \cup proc[p].new \subseteq Ids /\ proc[p].batch \subseteq Key

\* _enforce_watchlist_quota counts before the insert of another session: each
\* request in flight may have counted the same lists, so a user can exceed the
\* plan by the number of concurrent requests less one, and never by more.
OvershootBounded ==
  \A u \in Users : Cardinality(Owned(u)) <= MaxWatchlists + Cardinality(Requests) - 1

\* delete_watchlist takes the notifications along: a deleted watchlist has some
\* only if an evaluation held it when it was deleted and inserted afterwards.
OrphansAreRaced == \A n \in DOMAIN notes : Live(n.list) \/ n.list \in raced

\* The audit log has every watchlist.create (ADR-0005), unless its request is
\* still running or its evaluation collided with another one's and failed.
CreationsAudited ==
  \A l \in Ids : lists[l].state # "unused" =>
    \/ l \in audited \cup collided
    \/ \E r \in Requests : l \in proc[r].new

\* What requests and the worker can do to one another's lists is bounded.
ListsSound == TypeOK /\ OvershootBounded /\ OrphansAreRaced /\ CreationsAudited

\* add_notifications preserves what is stored: no evaluation, however stale,
\* turns a notification its user has read into an unread one.
ReadStaysRead ==
  [][\A n \in DOMAIN notes \cap DOMAIN notes' : notes[n] => notes'[n]]_vars

\* However evaluations collide and fail, the worker catches up: again and again
\* a live watchlist has every notification an evaluation would make then.
WorkerCatchesUp ==
  \A l \in Ids : []<>(Live(l) => Keys(l, Looked) \subseteq DOMAIN notes)

\* workspace_runtime.py:529: "new material changes and events become
\* source-linked notifications with no user action": a material change of a
\* watched company is notified, however many there were before it.
Notified(l, cs) ==
  \E n \in DOMAIN notes : /\ n.list = l /\ n.nid.type = "company"
                          /\ n.nid.doc = Canonical(cs)

Awaited(l) == IF Live(l) /\ "company" \in lists[l].items THEN {cs \in Range(changeSets) : cs.material}
              ELSE {}

NewChangesNotify == \A l \in Ids : []<>(\A cs \in Awaited(l) : Notified(l, cs))

=============================================================================
