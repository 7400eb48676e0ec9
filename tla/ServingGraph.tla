---------------------------- MODULE ServingGraph ----------------------------
(***************************************************************************)
(* The graph as it is served: a Kuzu database made from graph.json.  Each  *)
(* process that wants the graph - the API when it starts, the worker for   *)
(* the watchlists, the command line - calls open_synced: it compares two   *)
(* modification times, rebuilds the database in place when the snapshot is *)
(* newer, and opens it read-only.  The jobs go on writing graph.json.      *)
(*                                                                         *)
(* Kuzu locks the file of a database that is open for writing; a database  *)
(* whose file was unlinked is written on, out of anybody's sight.          *)
(***************************************************************************)
EXTENDS Naturals

CONSTANTS
  Openers,
  MaxSaves,   \* bound: snapshots saved
  MaxTime,    \* bound: ticks of the file system's clock
  MaxCrashes, \* bound: openers killed in the middle of a rebuild
  MaxOpens    \* bound: calls of open_synced by an opener that is up

Nobody == "nobody"

ASSUME ServingAssumption ==
  /\ Nobody \notin Openers
  /\ MaxSaves \in Nat /\ MaxTime \in Nat /\ MaxCrashes \in Nat /\ MaxOpens \in Nat

VARIABLES
  now,
  json,      \* graph.json: whether it is there and whole, version, mtime
  db,        \* the database at the path: content, version, mtime, who has it open
  opener,    \* each opener: where it is, the version it has read, whether it has
             \* found the snapshot newer, and at which version it looked
  excuse,    \* a rebuild was killed, overtaken by a save or by another rebuild,
             \* or shares its clock tick with a save
  crashes, opens

vars == <<now, json, db, opener, excuse, crashes, opens>>

NoFile == [content |-> "absent", version |-> 0, mtime |-> 0, by |-> Nobody]

\* A rebuild in progress, from the look at the times to the close.
HasRead(p) == opener[p].at \in {"create", "schema", "load", "close"}
Rebuilding(p) == HasRead(p) \/ opener[p].at \in {"unlink", "read"}
Others(p) == Openers \ {p}

Step(p, at) == opener' = [opener EXCEPT ![p].at = at]
Fail(p) == Step(p, "failed")

-----------------------------------------------------------------------------
(* The snapshot: path.write_text truncates the file, then writes it. *)

Tick ==
  /\ now < MaxTime /\ now' = now + 1
  /\ UNCHANGED <<json, db, opener, excuse, crashes, opens>>

Truncate ==
  /\ json.state # "torn" /\ json.version < MaxSaves
  /\ json' = [json EXCEPT !.state = "torn", !.mtime = now]
  /\ UNCHANGED <<now, db, opener, excuse, crashes, opens>>

Save ==
  /\ json.state = "torn"
  /\ json' = [state |-> "whole", version |-> json.version + 1, mtime |-> now]
  /\ excuse' = (excuse \/ db.mtime = now \/ \E p \in Openers : HasRead(p))
  /\ UNCHANGED <<now, db, opener, crashes, opens>>

-----------------------------------------------------------------------------
(* open_synced and _rebuild. *)

Newer == json.state # "absent" /\ json.mtime > db.mtime
Stale == db.content = "absent" \/ Newer

Check(p) ==
  /\ opener[p].at = "check"
  /\ opener' = [opener EXCEPT ![p].at = IF Stale THEN "unlink" ELSE "open",
                              ![p].looked = json.version, ![p].data = 0]
  /\ excuse' = (excuse \/ \E q \in Others(p) : Rebuilding(q))
  /\ UNCHANGED <<now, json, db, crashes, opens>>

\* Mutant: the old file stays.
KeepFile(p) ==
  /\ opener[p].at = "unlink"
  /\ Step(p, "read")
  /\ UNCHANGED <<now, json, db, excuse, crashes, opens>>

Unlink(p) ==
  /\ opener[p].at = "unlink"
  /\ db' = NoFile
  /\ Step(p, "read")
  /\ UNCHANGED <<now, json, excuse, crashes, opens>>

\* Mutant: the snapshot was read when the times were compared.
ReadLooked(p) ==
  /\ opener[p].at = "read"
  /\ opener' = [opener EXCEPT ![p].at = "create", ![p].data = opener[p].looked]
  /\ UNCHANGED <<now, json, db, excuse, crashes, opens>>

\* Half a snapshot is not JSON: the rebuild fails with the database gone.
ReadSnapshot(p) ==
  /\ opener[p].at = "read"
  /\ IF json.state = "torn" THEN Fail(p)
     ELSE opener' = [opener EXCEPT ![p].at = "create", ![p].data = json.version]
  /\ UNCHANGED <<now, json, db, excuse, crashes, opens>>

\* Opens what another put there meanwhile, unless that one has it open.
Create(p) ==
  /\ opener[p].at = "create"
  /\ IF db.by # Nobody
     THEN Fail(p) /\ UNCHANGED db
     ELSE /\ Step(p, "schema")
          /\ db' = IF db.content = "absent"
                   THEN [content |-> "bare", version |-> 0, mtime |-> now, by |-> p]
                   ELSE [db EXCEPT !.by = p]
  /\ UNCHANGED <<now, json, excuse, crashes, opens>>

\* What p writes is seen only while its file is the one at the path.
Written(p, change) == IF db.by = p THEN change ELSE db

CreateSchema(p) ==
  /\ opener[p].at = "schema"
  /\ db' = Written(p, IF db.content = "bare"
                      THEN [db EXCEPT !.content = "empty", !.mtime = now] ELSE db)
  /\ Step(p, "load")
  /\ UNCHANGED <<now, json, excuse, crashes, opens>>

\* One transaction: rows that are there already violate the primary key, and
\* everything is rolled back.
BulkLoad(p) ==
  /\ opener[p].at = "load"
  /\ IF db.by = p /\ db.version > 0
     THEN Fail(p) /\ db' = [db EXCEPT !.by = Nobody]
     ELSE /\ Step(p, "close")
          /\ db' = Written(p, [db EXCEPT !.content = "full", !.version = opener[p].data,
                                         !.mtime = now])
  /\ UNCHANGED <<now, json, excuse, crashes, opens>>

\* The checkpoint into the main file.
Close(p) ==
  /\ opener[p].at = "close"
  /\ db' = Written(p, [db EXCEPT !.mtime = now, !.by = Nobody])
  /\ excuse' = (excuse \/ (db.by = p /\ json.mtime = now))
  /\ Step(p, "open")
  /\ UNCHANGED <<now, json, crashes, opens>>

\* A read-only open needs the file, its tables, and no writer.
Openable == db.by = Nobody /\ db.content \in {"empty", "full"}

Open(p) ==
  /\ opener[p].at = "open"
  /\ IF Openable
     THEN opener' = [opener EXCEPT ![p].at = "serving", ![p].data = db.version]
     ELSE Fail(p)
  /\ UNCHANGED <<now, json, db, excuse, crashes, opens>>

-----------------------------------------------------------------------------
(* Processes end and are started again. *)

\* Of a killed rebuild the next opener may see any part that was flushed.
Crash(p) ==
  /\ crashes < MaxCrashes /\ Rebuilding(p)
  /\ crashes' = crashes + 1 /\ excuse' = TRUE
  /\ Fail(p)
  /\ IF db.by = p
     THEN \E c \in {"bare", "empty", db.content} :
            db' = [db EXCEPT !.by = Nobody, !.content = c,
                             !.version = IF c = db.content THEN @ ELSE 0]
     ELSE UNCHANGED db
  /\ UNCHANGED <<now, json, opens>>

Restart(p) ==
  /\ opener[p].at = "failed"
  /\ Step(p, "check")
  /\ UNCHANGED <<now, json, db, excuse, crashes, opens>>

\* A new deployment of the API, the next tick of the worker.
OpenAgain(p) ==
  /\ opener[p].at = "serving" /\ opens < MaxOpens
  /\ opens' = opens + 1
  /\ Step(p, "check")
  /\ UNCHANGED <<now, json, db, excuse, crashes>>

Init ==
  /\ now = 1
  /\ json = [state |-> "absent", version |-> 0, mtime |-> 0]
  /\ db = NoFile
  /\ opener = [p \in Openers |-> [at |-> "check", data |-> 0, looked |-> 0]]
  /\ excuse = FALSE /\ crashes = 0 /\ opens = 0

OpenSynced(p) ==
  \/ Check(p) \/ Unlink(p) \/ ReadSnapshot(p) \/ Create(p) \/ CreateSchema(p)
  \/ BulkLoad(p) \/ Close(p) \/ Open(p) \/ Restart(p)

Next ==
  \/ Tick \/ Truncate \/ Save
  \/ \E p \in Openers : OpenSynced(p) \/ Crash(p) \/ OpenAgain(p)

\* A started open runs on, a failed process is restarted (docker-compose.yml:
\* unless-stopped), and a save that has begun is completed.
Fairness == WF_vars(Save) /\ \A p \in Openers : WF_vars(OpenSynced(p))

Spec == Init /\ [][Next]_vars /\ Fairness

-----------------------------------------------------------------------------
(* Properties. *)

Snapshot == [state : {"absent", "torn", "whole"}, version : 0..MaxSaves, mtime : Nat]
Database == [content : {"absent", "bare", "empty", "full"}, version : 0..MaxSaves,
             mtime : Nat, by : Openers \cup {Nobody}]
Progress == [at : {"check", "unlink", "read", "create", "schema", "load", "close", "open",
                   "serving", "failed"},
             data : 0..MaxSaves, looked : 0..MaxSaves]

\* Type invariant: files and processes are in a known state.
TypeOK ==
  /\ now \in 1..MaxTime + 1 /\ crashes \in Nat /\ opens \in Nat /\ excuse \in BOOLEAN
  /\ json \in Snapshot /\ db \in Database /\ opener \in [Openers -> Progress]

\* A database that passes for fresh is the snapshot, whole, unless a rebuild was
\* killed, overtaken by a save or by another rebuild, or shares its clock tick
\* with a save: the comparison of modification times has no other gap.
FreshIsSnapshot ==
  (~excuse /\ db.content # "absent" /\ db.by = Nobody /\ ~Newer) =>
    db.content = "full" /\ db.version = json.version

\* But for those gaps, what is served is no older than the snapshot the opener
\* compared with.
ServedIsCurrent ==
  ~excuse => \A p \in Openers : opener[p].at = "serving" => opener[p].data >= opener[p].looked

\* A rebuild never removes a finished database of the current snapshot, unless
\* two rebuilds overlap: each start of the API would pay for it.
RebuildOnlyStale ==
  [][(db'.content = "absent" /\ db.content = "full" /\ db.by = Nobody) =>
       excuse \/ db.version # json.version \/ json.state = "torn"]_vars

\* Without crashes and overlaps every opener gets to serve, whatever the saves.
EveryOpenerServes ==
  \A p \in Openers : [](~excuse) => []<>(opener[p].at = "serving")

\* What is on disk and what is served are the snapshot, but for the gaps named
\* above.
ServedFaithfully == TypeOK /\ FreshIsSnapshot /\ ServedIsCurrent

\* Opening costs a rebuild only if there is something to rebuild, and ends in
\* serving.
OpensSound == RebuildOnlyStale /\ EveryOpenerServes
=============================================================================
