------------------------- MODULE ServingGraphProofs -------------------------
(***************************************************************************)
(* The serving database, for any number of openers, saves, crashes and     *)
(* ticks: a database that passes for fresh is the snapshot, what is served *)
(* is no older than what its opener compared with, and nobody removes a    *)
(* finished database of the current snapshot, but for the named gaps.      *)
(***************************************************************************)
EXTENDS ServingGraph, TLAPS

\* What holds whether or not there is an excuse: clocks and versions only grow,
\* and a file is held for writing by a process between its create and its close.
Orders ==
  /\ now \in Nat /\ crashes \in Nat /\ opens \in Nat
  /\ json.mtime <= now /\ db.mtime <= now
  /\ db.version <= json.version
  /\ json.state = "absent" => json.version = 0
  /\ json.state = "torn" => json.version < MaxSaves
  /\ json.state = "whole" => json.version # 0
  /\ \A p \in Openers : opener[p].looked <= json.version /\ opener[p].data <= json.version
  /\ db.by # Nobody => opener[db.by].at \in {"schema", "load", "close"}
  /\ db.content = "absent" => db = NoFile

\* One rebuild at a time, and the snapshot it has read is still the snapshot.
Alone ==
  /\ \A p, q \in Openers : Rebuilding(p) /\ Rebuilding(q) => p = q
  /\ \A p \in Openers : HasRead(p) => opener[p].data = json.version

\* The stages of a rebuild nobody interferes with.
Stages ==
  \A p \in Openers :
    /\ opener[p].at \in {"read", "create"} => db = NoFile
    /\ opener[p].at = "unlink" => db.content = "absent" \/ Newer
    /\ opener[p].at \in {"schema", "load", "close"} => db.by = p
    /\ opener[p].at = "schema" => db.content = "bare" /\ db.version = 0
    /\ opener[p].at = "load" => db.content = "empty" /\ db.version = 0
    /\ opener[p].at = "close" => db.content = "full" /\ db.version = opener[p].data

\* A finished database is whole, and its time tells whether it is the snapshot.
Finished == db.content # "absent" /\ db.by = Nobody
TimesTell ==
  Finished =>
    /\ db.content = "full"
    /\ ~Newer => db.version = json.version
    /\ Newer => db.version # json.version \/ json.state = "torn"
    /\ \A p \in Openers : opener[p].at = "open" => db.version >= opener[p].looked

ServedInv ==
  /\ TypeOK /\ Orders
  /\ ~excuse => Alone /\ Stages /\ TimesTell /\ ServedIsCurrent

LEMMA ServingInit == Init => ServedInv
<1> SUFFICES ASSUME Init PROVE ServedInv
  OBVIOUS
<1> USE DEF Init
<1>1. TypeOK
  <2>1. now \in 1..MaxTime + 1
    BY ServingAssumption
  <2>2. json \in Snapshot /\ db \in Database
    BY ServingAssumption DEF Snapshot, Database, NoFile
  <2>3. opener \in [Openers -> Progress]
    BY ServingAssumption DEF Progress
  <2> QED
    BY <2>1, <2>2, <2>3 DEF TypeOK
<1>2. Orders
  BY DEF Orders, NoFile
<1>3. Alone /\ Stages
  BY DEF Alone, Stages, Rebuilding, HasRead
<1>4. TimesTell /\ ServedIsCurrent
  BY DEF TimesTell, Finished, NoFile, ServedIsCurrent
<1> QED
  BY <1>1, <1>2, <1>3, <1>4 DEF ServedInv

LEMMA TickStep ==
  ASSUME ServedInv, Tick
  PROVE  ServedInv'
<1> USE DEF Tick, ServedInv
<1>1. TypeOK'
  <2>1. now' \in 1..MaxTime + 1 /\ crashes' \in Nat /\ opens' \in Nat /\ excuse' \in BOOLEAN
    BY ServingAssumption DEF TypeOK, Snapshot, Step, Fail
  <2>2. json' \in Snapshot
    BY ServingAssumption DEF TypeOK, Orders, Snapshot
  <2>3. db' \in Database
    BY ServingAssumption DEF TypeOK, Orders, Database, Progress, NoFile, Written
  <2>4. opener' \in [Openers -> Progress]
    BY ServingAssumption DEF TypeOK, Snapshot, Database, Progress, Step, Fail
  <2> QED
    BY <2>1, <2>2, <2>3, <2>4 DEF TypeOK
<1>2. Orders'
  BY ServingAssumption DEF TypeOK, Snapshot, Database, Progress, Orders, NoFile
<1>3. ASSUME ~excuse' PROVE Alone'
  BY <1>3, ServingAssumption DEF TypeOK, Snapshot, Database, Progress, Orders, Alone,
     Rebuilding, HasRead, NoFile
<1>4. ASSUME ~excuse' PROVE Stages'
  BY <1>4, ServingAssumption DEF TypeOK, Snapshot, Database, Progress, Orders, Alone,
     Stages, Rebuilding, HasRead, NoFile, Newer
<1>5. ASSUME ~excuse' PROVE TimesTell'
  BY <1>5, ServingAssumption DEF TypeOK, Snapshot, Database, Progress, Orders, Alone,
     Stages, TimesTell, Finished, Rebuilding, HasRead, NoFile, Newer
<1>6. ASSUME ~excuse' PROVE ServedIsCurrent'
  BY <1>6, ServingAssumption DEF TypeOK, Snapshot, Database, Progress, Orders, Alone,
     Stages, TimesTell, Finished, ServedIsCurrent, Rebuilding, HasRead, NoFile, Newer
<1> QED
  BY <1>1, <1>2, <1>3, <1>4, <1>5, <1>6

LEMMA TruncateStep ==
  ASSUME ServedInv, Truncate
  PROVE  ServedInv'
<1> USE DEF Truncate, ServedInv
<1>1. TypeOK'
  <2>1. now' \in 1..MaxTime + 1 /\ crashes' \in Nat /\ opens' \in Nat /\ excuse' \in BOOLEAN
    BY ServingAssumption DEF TypeOK, Snapshot, Step, Fail
  <2>2. json' \in Snapshot
    BY ServingAssumption DEF TypeOK, Orders, Snapshot
  <2>3. db' \in Database
    BY ServingAssumption DEF TypeOK, Orders, Database, Progress, NoFile, Written
  <2>4. opener' \in [Openers -> Progress]
    BY ServingAssumption DEF TypeOK, Snapshot, Database, Progress, Step, Fail
  <2> QED
    BY <2>1, <2>2, <2>3, <2>4 DEF TypeOK
<1>2. Orders'
  BY ServingAssumption DEF TypeOK, Snapshot, Database, Progress, Orders, NoFile
<1>3. ASSUME ~excuse' PROVE Alone'
  BY <1>3, ServingAssumption DEF TypeOK, Snapshot, Database, Progress, Orders, Alone,
     Rebuilding, HasRead, NoFile
<1>4. ASSUME ~excuse' PROVE Stages'
  BY <1>4, ServingAssumption DEF TypeOK, Snapshot, Database, Progress, Orders, Alone,
     Stages, Rebuilding, HasRead, NoFile, Newer
<1>5. ASSUME ~excuse' PROVE TimesTell'
  BY <1>5, ServingAssumption DEF TypeOK, Snapshot, Database, Progress, Orders, Alone,
     Stages, TimesTell, Finished, Rebuilding, HasRead, NoFile, Newer
<1>6. ASSUME ~excuse' PROVE ServedIsCurrent'
  BY <1>6, ServingAssumption DEF TypeOK, Snapshot, Database, Progress, Orders, Alone,
     Stages, TimesTell, Finished, ServedIsCurrent, Rebuilding, HasRead, NoFile, Newer
<1> QED
  BY <1>1, <1>2, <1>3, <1>4, <1>5, <1>6

LEMMA SaveStep ==
  ASSUME ServedInv, Save
  PROVE  ServedInv'
<1> USE DEF Save, ServedInv
<1>1. TypeOK'
  <2>1. now' \in 1..MaxTime + 1 /\ crashes' \in Nat /\ opens' \in Nat /\ excuse' \in BOOLEAN
    BY ServingAssumption DEF TypeOK, Snapshot, Step, Fail
  <2>2. json' \in Snapshot
    BY ServingAssumption DEF TypeOK, Orders, Snapshot
  <2>3. db' \in Database
    BY ServingAssumption DEF TypeOK, Orders, Database, Progress, NoFile, Written
  <2>4. opener' \in [Openers -> Progress]
    BY ServingAssumption DEF TypeOK, Snapshot, Database, Progress, Step, Fail
  <2> QED
    BY <2>1, <2>2, <2>3, <2>4 DEF TypeOK
<1>2. Orders'
  BY ServingAssumption DEF TypeOK, Snapshot, Database, Progress, Orders, HasRead, NoFile
<1>3. ASSUME ~excuse' PROVE Alone'
  BY <1>3, ServingAssumption DEF TypeOK, Snapshot, Database, Progress, Orders, Alone,
     Rebuilding, HasRead, NoFile
<1>4. ASSUME ~excuse' PROVE Stages'
  BY <1>4, ServingAssumption DEF TypeOK, Snapshot, Database, Progress, Orders, Alone,
     Stages, Rebuilding, HasRead, NoFile, Newer
<1>5. ASSUME ~excuse' PROVE TimesTell'
  <2>1. ~excuse /\ db.mtime # now
    BY <1>5
  <2>2. db' = db /\ opener' = opener /\ json'.mtime = now /\ json'.state = "whole"
        /\ json'.version = json.version + 1
    OBVIOUS
  <2>3. Newer' /\ db.version # json'.version
    BY <2>1, <2>2 DEF Newer, TypeOK, Snapshot, Database, Orders
  <2> QED
    BY <2>1, <2>2, <2>3 DEF TimesTell, Finished
<1>6. ASSUME ~excuse' PROVE ServedIsCurrent'
  BY <1>6, ServingAssumption DEF TypeOK, Snapshot, Database, Progress, Orders, Alone,
     Stages, TimesTell, Finished, ServedIsCurrent, Rebuilding, HasRead, NoFile, Newer
<1> QED
  BY <1>1, <1>2, <1>3, <1>4, <1>5, <1>6

LEMMA CheckStep ==
  ASSUME ServedInv, NEW p \in Openers, Check(p)
  PROVE  ServedInv'
<1> USE DEF Check, ServedInv
<1>1. TypeOK'
  <2>1. now' \in 1..MaxTime + 1 /\ crashes' \in Nat /\ opens' \in Nat /\ excuse' \in BOOLEAN
    BY ServingAssumption DEF TypeOK, Snapshot, Step, Fail
  <2>2. json' \in Snapshot
    BY ServingAssumption DEF TypeOK, Orders, Snapshot
  <2>3. db' \in Database
    BY ServingAssumption DEF TypeOK, Orders, Database, Progress, NoFile, Written
  <2>4. opener' \in [Openers -> Progress]
    <3>1. json.version \in 0..MaxSaves /\ 0 \in 0..MaxSaves
      BY ServingAssumption DEF TypeOK, Snapshot
    <3>2. \A at \in {"unlink", "open"} :
             [opener[p] EXCEPT !.at = at, !.looked = json.version, !.data = 0] \in Progress
      BY <3>1 DEF TypeOK, Progress
    <3> QED
      BY <3>2 DEF TypeOK
  <2> QED
    BY <2>1, <2>2, <2>3, <2>4 DEF TypeOK
<1>2. Orders'
  BY ServingAssumption DEF TypeOK, Snapshot, Database, Progress, Orders, Others,
     Rebuilding, HasRead, NoFile, Newer, Stale
<1>3. ASSUME ~excuse' PROVE Alone'
  <2>1. ~excuse /\ \A q \in Others(p) : ~Rebuilding(q)
    BY <1>3
  <2>2. \A q \in Openers \ {p} : Rebuilding(q)' <=> Rebuilding(q)
    BY DEF TypeOK, Progress, Rebuilding, HasRead
  <2>3. ~HasRead(p)' /\ \A q \in Openers : Rebuilding(q)' => q = p
    BY <2>1, <2>2 DEF TypeOK, Progress, HasRead, Others
  <2> QED
    BY <2>3 DEF Alone, Rebuilding
<1>4. ASSUME ~excuse' PROVE Stages'
  BY <1>4, ServingAssumption DEF TypeOK, Snapshot, Database, Progress, Orders, Alone,
     Stages, Others, Rebuilding, HasRead, NoFile, Newer, Stale
<1>5. ASSUME ~excuse' PROVE TimesTell'
  BY <1>5, ServingAssumption DEF TypeOK, Snapshot, Database, Progress, Orders, Alone,
     Stages, TimesTell, Finished, Others, Rebuilding, HasRead, NoFile, Newer, Stale
<1>6. ASSUME ~excuse' PROVE ServedIsCurrent'
  BY <1>6, ServingAssumption DEF TypeOK, Snapshot, Database, Progress, Orders, Alone,
     Stages, TimesTell, Finished, ServedIsCurrent, Others, Rebuilding, HasRead, NoFile,
     Newer, Stale
<1> QED
  BY <1>1, <1>2, <1>3, <1>4, <1>5, <1>6

LEMMA UnlinkStep ==
  ASSUME ServedInv, NEW p \in Openers, Unlink(p)
  PROVE  ServedInv'
<1> USE DEF Unlink, ServedInv
<1>1. TypeOK'
  <2>1. now' \in 1..MaxTime + 1 /\ crashes' \in Nat /\ opens' \in Nat /\ excuse' \in BOOLEAN
    BY ServingAssumption DEF TypeOK, Snapshot, Step, Fail
  <2>2. json' \in Snapshot
    BY ServingAssumption DEF TypeOK, Orders, Snapshot
  <2>3. db' \in Database
    BY ServingAssumption DEF TypeOK, Orders, Database, Progress, NoFile, Written
  <2>4. opener' \in [Openers -> Progress]
    BY ServingAssumption DEF TypeOK, Snapshot, Database, Progress, Step, Fail
  <2> QED
    BY <2>1, <2>2, <2>3, <2>4 DEF TypeOK
<1>2. Orders'
  BY ServingAssumption DEF TypeOK, Snapshot, Database, Progress, Orders, Step, NoFile
<1>3. ASSUME ~excuse' PROVE Alone'
  BY <1>3, ServingAssumption DEF TypeOK, Snapshot, Database, Progress, Orders, Alone,
     Step, Rebuilding, HasRead, NoFile
<1>4. ASSUME ~excuse' PROVE Stages'
  BY <1>4, ServingAssumption DEF TypeOK, Snapshot, Database, Progress, Orders, Alone,
     Stages, Step, Rebuilding, HasRead, NoFile, Newer
<1>5. ASSUME ~excuse' PROVE TimesTell'
  BY <1>5, ServingAssumption DEF TypeOK, Snapshot, Database, Progress, Orders, Alone,
     Stages, TimesTell, Finished, Step, Rebuilding, HasRead, NoFile, Newer
<1>6. ASSUME ~excuse' PROVE ServedIsCurrent'
  BY <1>6, ServingAssumption DEF TypeOK, Snapshot, Database, Progress, Orders, Alone,
     Stages, TimesTell, Finished, ServedIsCurrent, Step, Rebuilding, HasRead, NoFile,
     Newer
<1> QED
  BY <1>1, <1>2, <1>3, <1>4, <1>5, <1>6

LEMMA ReadSnapshotStep ==
  ASSUME ServedInv, NEW p \in Openers, ReadSnapshot(p)
  PROVE  ServedInv'
<1> USE DEF ReadSnapshot, ServedInv
<1>1. TypeOK'
  <2>1. now' \in 1..MaxTime + 1 /\ crashes' \in Nat /\ opens' \in Nat /\ excuse' \in BOOLEAN
    BY ServingAssumption DEF TypeOK, Snapshot, Step, Fail
  <2>2. json' \in Snapshot
    BY ServingAssumption DEF TypeOK, Orders, Snapshot
  <2>3. db' \in Database
    BY ServingAssumption DEF TypeOK, Orders, Database, Progress, NoFile, Written
  <2>4. opener' \in [Openers -> Progress]
    BY ServingAssumption DEF TypeOK, Snapshot, Database, Progress, Step, Fail
  <2> QED
    BY <2>1, <2>2, <2>3, <2>4 DEF TypeOK
<1>2. Orders'
  BY ServingAssumption DEF TypeOK, Snapshot, Database, Progress, Orders, Step, Fail,
     NoFile
<1>3. ASSUME ~excuse' PROVE Alone'
  BY <1>3, ServingAssumption DEF TypeOK, Snapshot, Database, Progress, Orders, Alone,
     Step, Fail, Rebuilding, HasRead, NoFile
<1>4. ASSUME ~excuse' PROVE Stages'
  BY <1>4, ServingAssumption DEF TypeOK, Snapshot, Database, Progress, Orders, Alone,
     Stages, Step, Fail, Rebuilding, HasRead, NoFile, Newer
<1>5. ASSUME ~excuse' PROVE TimesTell'
  BY <1>5, ServingAssumption DEF TypeOK, Snapshot, Database, Progress, Orders, Alone,
     Stages, TimesTell, Finished, Step, Fail, Rebuilding, HasRead, NoFile, Newer
<1>6. ASSUME ~excuse' PROVE ServedIsCurrent'
  BY <1>6, ServingAssumption DEF TypeOK, Snapshot, Database, Progress, Orders, Alone,
     Stages, TimesTell, Finished, ServedIsCurrent, Step, Fail, Rebuilding, HasRead,
     NoFile, Newer
<1> QED
  BY <1>1, <1>2, <1>3, <1>4, <1>5, <1>6

LEMMA CreateStep ==
  ASSUME ServedInv, NEW p \in Openers, Create(p)
  PROVE  ServedInv'
<1> USE DEF Create, ServedInv
<1>1. TypeOK'
  <2>1. now' \in 1..MaxTime + 1 /\ crashes' \in Nat /\ opens' \in Nat /\ excuse' \in BOOLEAN
    BY ServingAssumption DEF TypeOK, Snapshot, Step, Fail
  <2>2. json' \in Snapshot
    BY ServingAssumption DEF TypeOK, Orders, Snapshot
  <2>3. db' \in Database
    BY ServingAssumption DEF TypeOK, Orders, Database, Progress, NoFile, Written
  <2>4. opener' \in [Openers -> Progress]
    BY ServingAssumption DEF TypeOK, Snapshot, Database, Progress, Step, Fail
  <2> QED
    BY <2>1, <2>2, <2>3, <2>4 DEF TypeOK
<1>2. Orders'
  BY ServingAssumption DEF TypeOK, Snapshot, Database, Progress, Orders, Step, Fail,
     NoFile
<1>3. ASSUME ~excuse' PROVE Alone'
  BY <1>3, ServingAssumption DEF TypeOK, Snapshot, Database, Progress, Orders, Alone,
     Step, Fail, Rebuilding, HasRead, NoFile
<1>4. ASSUME ~excuse' PROVE Stages'
  BY <1>4, ServingAssumption DEF TypeOK, Snapshot, Database, Progress, Orders, Alone,
     Stages, Step, Fail, Rebuilding, HasRead, NoFile, Newer
<1>5. ASSUME ~excuse' PROVE TimesTell'
  BY <1>5, ServingAssumption DEF TypeOK, Snapshot, Database, Progress, Orders, Alone,
     Stages, TimesTell, Finished, Step, Fail, Rebuilding, HasRead, NoFile, Newer
<1>6. ASSUME ~excuse' PROVE ServedIsCurrent'
  BY <1>6, ServingAssumption DEF TypeOK, Snapshot, Database, Progress, Orders, Alone,
     Stages, TimesTell, Finished, ServedIsCurrent, Step, Fail, Rebuilding, HasRead,
     NoFile, Newer
<1> QED
  BY <1>1, <1>2, <1>3, <1>4, <1>5, <1>6

LEMMA CreateSchemaStep ==
  ASSUME ServedInv, NEW p \in Openers, CreateSchema(p)
  PROVE  ServedInv'
<1> USE DEF CreateSchema, ServedInv
<1>1. TypeOK'
  <2>1. now' \in 1..MaxTime + 1 /\ crashes' \in Nat /\ opens' \in Nat /\ excuse' \in BOOLEAN
    BY ServingAssumption DEF TypeOK, Snapshot, Step, Fail
  <2>2. json' \in Snapshot
    BY ServingAssumption DEF TypeOK, Orders, Snapshot
  <2>3. db' \in Database
    BY ServingAssumption DEF TypeOK, Orders, Database, Progress, NoFile, Written
  <2>4. opener' \in [Openers -> Progress]
    BY ServingAssumption DEF TypeOK, Snapshot, Database, Progress, Step, Fail
  <2> QED
    BY <2>1, <2>2, <2>3, <2>4 DEF TypeOK
<1>2. Orders'
  BY ServingAssumption DEF TypeOK, Snapshot, Database, Progress, Orders, Step, NoFile,
     Written
<1>3. ASSUME ~excuse' PROVE Alone'
  BY <1>3, ServingAssumption DEF TypeOK, Snapshot, Database, Progress, Orders, Alone,
     Step, Rebuilding, HasRead, NoFile, Written
<1>4. ASSUME ~excuse' PROVE Stages'
  <2>1. db.by = p /\ db.content = "bare" /\ db.version = 0
    BY <1>4 DEF Stages
  <2>2. \A q \in Openers \ {p} : ~Rebuilding(q)
    BY <1>4 DEF Alone, Rebuilding, HasRead
  <2>3. db'.by = p /\ db'.content = "empty" /\ db'.version = 0
    BY <2>1 DEF Written, TypeOK, Database
  <2>4. opener'[p].at = "load" /\ \A q \in Openers \ {p} : opener'[q] = opener[q]
    BY DEF Step, TypeOK, Progress
  <2> QED
    BY <2>2, <2>3, <2>4 DEF Stages, Rebuilding, HasRead
<1>5. ASSUME ~excuse' PROVE TimesTell'
  BY <1>5, ServingAssumption DEF TypeOK, Snapshot, Database, Progress, Orders, Alone,
     Stages, TimesTell, Finished, Step, Rebuilding, HasRead, NoFile, Newer, Written
<1>6. ASSUME ~excuse' PROVE ServedIsCurrent'
  BY <1>6, ServingAssumption DEF TypeOK, Snapshot, Database, Progress, Orders, Alone,
     Stages, TimesTell, Finished, ServedIsCurrent, Step, Rebuilding, HasRead, NoFile,
     Newer, Written
<1> QED
  BY <1>1, <1>2, <1>3, <1>4, <1>5, <1>6

LEMMA BulkLoadStep ==
  ASSUME ServedInv, NEW p \in Openers, BulkLoad(p)
  PROVE  ServedInv'
<1> USE DEF BulkLoad, ServedInv
<1>1. TypeOK'
  <2>1. now' \in 1..MaxTime + 1 /\ crashes' \in Nat /\ opens' \in Nat /\ excuse' \in BOOLEAN
    BY ServingAssumption DEF TypeOK, Snapshot, Step, Fail
  <2>2. json' \in Snapshot
    BY ServingAssumption DEF TypeOK, Orders, Snapshot
  <2>3. db' \in Database
    BY ServingAssumption DEF TypeOK, Orders, Database, Progress, NoFile, Written
  <2>4. opener' \in [Openers -> Progress]
    BY ServingAssumption DEF TypeOK, Snapshot, Database, Progress, Step, Fail
  <2> QED
    BY <2>1, <2>2, <2>3, <2>4 DEF TypeOK
<1>2. Orders'
  <2>1. CASE db.by = p /\ db.version > 0
    BY <2>1, ServingAssumption DEF TypeOK, Database, Progress, Orders, NoFile, Fail, Step
  <2>2. CASE ~(db.by = p /\ db.version > 0)
    <3>1. db.by = p => db' = [db EXCEPT !.content = "full", !.version = opener[p].data, !.mtime = now]
      BY <2>2 DEF Written
    <3>2. db.by # p => db' = db
      BY <2>2 DEF Written
    <3>3. opener' = [opener EXCEPT ![p].at = "close"]
      BY <2>2 DEF Step
    <3>4. /\ db'.by = db.by /\ db'.mtime <= now /\ db'.version <= json.version
          /\ db'.content = "absent" => db' = NoFile
      <4>1. CASE db.by = p
        <5>1. opener[p].data <= json.version /\ now <= now
          BY DEF TypeOK, Orders
        <5>2. /\ db'.by = db.by /\ db'.mtime = now /\ db'.version = opener[p].data
              /\ db'.content = "full"
          BY <3>1, <4>1 DEF TypeOK, Database
        <5> QED
          BY <5>1, <5>2
      <4>2. CASE db.by # p
        BY <3>2, <4>2 DEF TypeOK, Database, Orders
      <4> QED
        BY <4>1, <4>2
    <3>5. /\ \A q \in Openers : opener'[q].looked <= json.version /\ opener'[q].data <= json.version
          /\ db.by # Nobody => opener'[db.by].at \in {"schema", "load", "close"}
      BY <3>3 DEF TypeOK, Database, Progress, Orders
    <3> QED
      BY <3>4, <3>5 DEF Orders
  <2> QED
    BY <2>1, <2>2
<1>3. ASSUME ~excuse' PROVE Alone'
  BY <1>3, ServingAssumption DEF TypeOK, Snapshot, Database, Progress, Orders, Alone,
     Step, Fail, Rebuilding, HasRead, NoFile, Written
<1>4. ASSUME ~excuse' PROVE Stages'
  <2>0. db.by = p /\ db.version = 0
    BY <1>4 DEF Stages
  <2>1. \A q \in Openers \ {p} : ~Rebuilding(q)
    BY <1>4 DEF Alone, Rebuilding, HasRead
  <2>2. db'.by = p /\ db'.content = "full" /\ db'.version = opener[p].data
    <3>1. db' = [db EXCEPT !.content = "full", !.version = opener[p].data, !.mtime = now]
      BY <2>0 DEF Written
    <3> QED
      BY <2>0, <3>1 DEF TypeOK, Database
  <2>3. opener'[p] = [opener[p] EXCEPT !.at = "close"]
        /\ \A q \in Openers \ {p} : opener'[q] = opener[q]
    BY <1>4, <2>0 DEF Step, TypeOK, Progress
  <2> QED
    BY <2>1, <2>2, <2>3 DEF Stages, Rebuilding, HasRead, TypeOK, Progress
<1>5. ASSUME ~excuse' PROVE TimesTell'
  <2>1. db.by = p /\ db.version = 0
    BY <1>5 DEF Stages
  <2>2. db'.by = p
    <3>1. db' = [db EXCEPT !.content = "full", !.version = opener[p].data, !.mtime = now]
      BY <2>1 DEF Written
    <3> QED
      BY <2>1, <3>1 DEF TypeOK, Database
  <2> QED
    BY <2>2, ServingAssumption DEF TimesTell, Finished
<1>6. ASSUME ~excuse' PROVE ServedIsCurrent'
  BY <1>6, ServingAssumption DEF TypeOK, Snapshot, Database, Progress, Orders, Alone,
     Stages, TimesTell, Finished, ServedIsCurrent, Step, Fail, Rebuilding, HasRead,
     NoFile, Newer, Written
<1> QED
  BY <1>1, <1>2, <1>3, <1>4, <1>5, <1>6

LEMMA CloseStep ==
  ASSUME ServedInv, NEW p \in Openers, Close(p)
  PROVE  ServedInv'
<1> USE DEF Close, ServedInv
<1>1. TypeOK'
  <2>1. now' \in 1..MaxTime + 1 /\ crashes' \in Nat /\ opens' \in Nat /\ excuse' \in BOOLEAN
    BY ServingAssumption DEF TypeOK, Snapshot, Step, Fail
  <2>2. json' \in Snapshot
    BY ServingAssumption DEF TypeOK, Orders, Snapshot
  <2>3. db' \in Database
    BY ServingAssumption DEF TypeOK, Orders, Database, Progress, NoFile, Written
  <2>4. opener' \in [Openers -> Progress]
    BY ServingAssumption DEF TypeOK, Snapshot, Database, Progress, Step, Fail
  <2> QED
    BY <2>1, <2>2, <2>3, <2>4 DEF TypeOK
<1>2. Orders'
  BY ServingAssumption DEF TypeOK, Snapshot, Database, Progress, Orders, Step, NoFile,
     Written
<1>3. ASSUME ~excuse' PROVE Alone'
  BY <1>3, ServingAssumption DEF TypeOK, Snapshot, Database, Progress, Orders, Alone,
     Step, Rebuilding, HasRead, NoFile, Written
<1>4. ASSUME ~excuse' PROVE Stages'
  BY <1>4, ServingAssumption DEF TypeOK, Snapshot, Database, Progress, Orders, Alone,
     Stages, Step, Rebuilding, HasRead, NoFile, Newer, Written
<1>5. ASSUME ~excuse' PROVE TimesTell'
  BY <1>5, ServingAssumption DEF TypeOK, Snapshot, Database, Progress, Orders, Alone,
     Stages, TimesTell, Finished, Step, Rebuilding, HasRead, NoFile, Newer, Written
<1>6. ASSUME ~excuse' PROVE ServedIsCurrent'
  BY <1>6, ServingAssumption DEF TypeOK, Snapshot, Database, Progress, Orders, Alone,
     Stages, TimesTell, Finished, ServedIsCurrent, Step, Rebuilding, HasRead, NoFile,
     Newer, Written
<1> QED
  BY <1>1, <1>2, <1>3, <1>4, <1>5, <1>6

LEMMA OpenStep ==
  ASSUME ServedInv, NEW p \in Openers, Open(p)
  PROVE  ServedInv'
<1> USE DEF Open, ServedInv
<1>1. TypeOK'
  <2>1. now' \in 1..MaxTime + 1 /\ crashes' \in Nat /\ opens' \in Nat /\ excuse' \in BOOLEAN
    BY ServingAssumption DEF TypeOK, Snapshot, Step, Fail
  <2>2. json' \in Snapshot
    BY ServingAssumption DEF TypeOK, Orders, Snapshot
  <2>3. db' \in Database
    BY ServingAssumption DEF TypeOK, Orders, Database, Progress, NoFile, Written
  <2>4. opener' \in [Openers -> Progress]
    BY ServingAssumption DEF TypeOK, Snapshot, Database, Progress, Step, Fail
  <2> QED
    BY <2>1, <2>2, <2>3, <2>4 DEF TypeOK
<1>2. Orders'
  BY ServingAssumption DEF TypeOK, Snapshot, Database, Progress, Orders, Step, Fail,
     NoFile, Openable
<1>3. ASSUME ~excuse' PROVE Alone'
  BY <1>3, ServingAssumption DEF TypeOK, Snapshot, Database, Progress, Orders, Alone,
     Step, Fail, Rebuilding, HasRead, NoFile, Openable
<1>4. ASSUME ~excuse' PROVE Stages'
  BY <1>4, ServingAssumption DEF TypeOK, Snapshot, Database, Progress, Orders, Alone,
     Stages, Step, Fail, Rebuilding, HasRead, NoFile, Newer, Openable
<1>5. ASSUME ~excuse' PROVE TimesTell'
  BY <1>5, ServingAssumption DEF TypeOK, Snapshot, Database, Progress, Orders, Alone,
     Stages, TimesTell, Finished, Step, Fail, Rebuilding, HasRead, NoFile, Newer,
     Openable
<1>6. ASSUME ~excuse' PROVE ServedIsCurrent'
  BY <1>6, ServingAssumption DEF TypeOK, Snapshot, Database, Progress, Orders, Alone,
     Stages, TimesTell, Finished, ServedIsCurrent, Step, Fail, Rebuilding, HasRead,
     NoFile, Newer, Openable
<1> QED
  BY <1>1, <1>2, <1>3, <1>4, <1>5, <1>6

LEMMA CrashStep ==
  ASSUME ServedInv, NEW p \in Openers, Crash(p)
  PROVE  ServedInv'
<1> USE DEF Crash, ServedInv
<1>1. TypeOK'
  <2>1. now' \in 1..MaxTime + 1 /\ crashes' \in Nat /\ opens' \in Nat /\ excuse' \in BOOLEAN
    BY ServingAssumption DEF TypeOK, Snapshot, Step, Fail
  <2>2. json' \in Snapshot
    BY ServingAssumption DEF TypeOK, Orders, Snapshot
  <2>3. db' \in Database
    <3>1. CASE db.by = p
      <4>1. PICK c \in {"bare", "empty", db.content} :
              db' = [db EXCEPT !.by = Nobody, !.content = c,
                               !.version = IF c = db.content THEN @ ELSE 0]
        BY <3>1
      <4>2. c \in {"absent", "bare", "empty", "full"} /\ 0 \in 0..MaxSaves
        BY ServingAssumption DEF TypeOK, Database
      <4> QED
        BY <4>1, <4>2 DEF TypeOK, Database
    <3> QED
      BY <3>1 DEF TypeOK
  <2>4. opener' \in [Openers -> Progress]
    BY ServingAssumption DEF TypeOK, Snapshot, Database, Progress, Step, Fail
  <2> QED
    BY <2>1, <2>2, <2>3, <2>4 DEF TypeOK
<1>2. Orders'
  <2>1. opener' = [opener EXCEPT ![p].at = "failed"]
    BY DEF Fail, Step
  <2>2. \A q \in Openers : opener'[q].looked <= json.version /\ opener'[q].data <= json.version
    BY <2>1 DEF TypeOK, Progress, Orders
  <2>3. CASE db.by = p
    <3>1. PICK c \in {"bare", "empty", db.content} :
            db' = [db EXCEPT !.by = Nobody, !.content = c,
                             !.version = IF c = db.content THEN @ ELSE 0]
      BY <2>3
    <3>2. db.content # "absent"
      BY <2>3, ServingAssumption DEF Orders, NoFile
    <3>3. /\ db'.by = Nobody /\ db'.content # "absent" /\ db'.mtime = db.mtime
          /\ db'.version \in {0, db.version}
      BY <3>1, <3>2 DEF TypeOK, Database
    <3> QED
      BY <2>2, <3>3 DEF TypeOK, Snapshot, Database, Orders
  <2>4. CASE db.by # p
    <3>1. db' = db
      BY <2>4
    <3>2. db.by # Nobody => opener'[db.by].at \in {"schema", "load", "close"}
      BY <2>1, <2>4 DEF TypeOK, Database, Progress, Orders
    <3> QED
      BY <2>2, <3>1, <3>2 DEF TypeOK, Snapshot, Database, Orders
  <2> QED
    BY <2>3, <2>4
<1>3. ASSUME ~excuse' PROVE Alone'
  BY <1>3, ServingAssumption DEF TypeOK, Snapshot, Database, Progress, Orders, Alone,
     Step, Fail, Rebuilding, HasRead, NoFile
<1>4. ASSUME ~excuse' PROVE Stages'
  BY <1>4, ServingAssumption DEF TypeOK, Snapshot, Database, Progress, Orders, Alone,
     Stages, Step, Fail, Rebuilding, HasRead, NoFile, Newer
<1>5. ASSUME ~excuse' PROVE TimesTell'
  BY <1>5, ServingAssumption DEF TypeOK, Snapshot, Database, Progress, Orders, Alone,
     Stages, TimesTell, Finished, Step, Fail, Rebuilding, HasRead, NoFile, Newer
<1>6. ASSUME ~excuse' PROVE ServedIsCurrent'
  BY <1>6, ServingAssumption DEF TypeOK, Snapshot, Database, Progress, Orders, Alone,
     Stages, TimesTell, Finished, ServedIsCurrent, Step, Fail, Rebuilding, HasRead,
     NoFile, Newer
<1> QED
  BY <1>1, <1>2, <1>3, <1>4, <1>5, <1>6

LEMMA RestartStep ==
  ASSUME ServedInv, NEW p \in Openers, Restart(p)
  PROVE  ServedInv'
<1> USE DEF Restart, ServedInv
<1>1. TypeOK'
  <2>1. now' \in 1..MaxTime + 1 /\ crashes' \in Nat /\ opens' \in Nat /\ excuse' \in BOOLEAN
    BY ServingAssumption DEF TypeOK, Snapshot, Step, Fail
  <2>2. json' \in Snapshot
    BY ServingAssumption DEF TypeOK, Orders, Snapshot
  <2>3. db' \in Database
    BY ServingAssumption DEF TypeOK, Orders, Database, Progress, NoFile, Written
  <2>4. opener' \in [Openers -> Progress]
    BY ServingAssumption DEF TypeOK, Snapshot, Database, Progress, Step, Fail
  <2> QED
    BY <2>1, <2>2, <2>3, <2>4 DEF TypeOK
<1>2. Orders'
  BY ServingAssumption DEF TypeOK, Snapshot, Database, Progress, Orders, Step, NoFile
<1>3. ASSUME ~excuse' PROVE Alone'
  BY <1>3, ServingAssumption DEF TypeOK, Snapshot, Database, Progress, Orders, Alone,
     Step, Rebuilding, HasRead, NoFile
<1>4. ASSUME ~excuse' PROVE Stages'
  BY <1>4, ServingAssumption DEF TypeOK, Snapshot, Database, Progress, Orders, Alone,
     Stages, Step, Rebuilding, HasRead, NoFile, Newer
<1>5. ASSUME ~excuse' PROVE TimesTell'
  BY <1>5, ServingAssumption DEF TypeOK, Snapshot, Database, Progress, Orders, Alone,
     Stages, TimesTell, Finished, Step, Rebuilding, HasRead, NoFile, Newer
<1>6. ASSUME ~excuse' PROVE ServedIsCurrent'
  BY <1>6, ServingAssumption DEF TypeOK, Snapshot, Database, Progress, Orders, Alone,
     Stages, TimesTell, Finished, ServedIsCurrent, Step, Rebuilding, HasRead, NoFile,
     Newer
<1> QED
  BY <1>1, <1>2, <1>3, <1>4, <1>5, <1>6

LEMMA OpenAgainStep ==
  ASSUME ServedInv, NEW p \in Openers, OpenAgain(p)
  PROVE  ServedInv'
<1> USE DEF OpenAgain, ServedInv
<1>1. TypeOK'
  <2>1. now' \in 1..MaxTime + 1 /\ crashes' \in Nat /\ opens' \in Nat /\ excuse' \in BOOLEAN
    BY ServingAssumption DEF TypeOK, Snapshot, Step, Fail
  <2>2. json' \in Snapshot
    BY ServingAssumption DEF TypeOK, Orders, Snapshot
  <2>3. db' \in Database
    BY ServingAssumption DEF TypeOK, Orders, Database, Progress, NoFile, Written
  <2>4. opener' \in [Openers -> Progress]
    BY ServingAssumption DEF TypeOK, Snapshot, Database, Progress, Step, Fail
  <2> QED
    BY <2>1, <2>2, <2>3, <2>4 DEF TypeOK
<1>2. Orders'
  BY ServingAssumption DEF TypeOK, Snapshot, Database, Progress, Orders, Step, NoFile
<1>3. ASSUME ~excuse' PROVE Alone'
  BY <1>3, ServingAssumption DEF TypeOK, Snapshot, Database, Progress, Orders, Alone,
     Step, Rebuilding, HasRead, NoFile
<1>4. ASSUME ~excuse' PROVE Stages'
  BY <1>4, ServingAssumption DEF TypeOK, Snapshot, Database, Progress, Orders, Alone,
     Stages, Step, Rebuilding, HasRead, NoFile, Newer
<1>5. ASSUME ~excuse' PROVE TimesTell'
  BY <1>5, ServingAssumption DEF TypeOK, Snapshot, Database, Progress, Orders, Alone,
     Stages, TimesTell, Finished, Step, Rebuilding, HasRead, NoFile, Newer
<1>6. ASSUME ~excuse' PROVE ServedIsCurrent'
  BY <1>6, ServingAssumption DEF TypeOK, Snapshot, Database, Progress, Orders, Alone,
     Stages, TimesTell, Finished, ServedIsCurrent, Step, Rebuilding, HasRead, NoFile,
     Newer
<1> QED
  BY <1>1, <1>2, <1>3, <1>4, <1>5, <1>6

LEMMA ServingStep == ServedInv /\ [Next]_vars => ServedInv'
<1> SUFFICES ASSUME ServedInv, [Next]_vars PROVE ServedInv'
  OBVIOUS
<1>1. CASE Tick \/ Truncate \/ Save
  BY <1>1, TickStep, TruncateStep, SaveStep
<1>2. ASSUME NEW p \in Openers, OpenSynced(p) PROVE ServedInv'
  BY <1>2, CheckStep, UnlinkStep, ReadSnapshotStep, CreateStep, CreateSchemaStep,
     BulkLoadStep, CloseStep, OpenStep, RestartStep DEF OpenSynced
<1>3. ASSUME NEW p \in Openers, Crash(p) \/ OpenAgain(p) PROVE ServedInv'
  BY <1>3, CrashStep, OpenAgainStep
<1>4. CASE UNCHANGED vars
  BY <1>4 DEF vars, ServedInv, TypeOK, Orders, Alone, Stages, TimesTell, Finished,
     ServedIsCurrent, Rebuilding, HasRead, Newer
<1> QED
  BY <1>1, <1>2, <1>3, <1>4 DEF Next

\* The invariant of the serving database.
THEOREM ServingInvariant == Spec => []ServedInv
BY ServingInit, ServingStep, PTL DEF Spec

\* For any number of processes, saves and crashes: a database that passes for
\* fresh is the snapshot, and what is served is no older than the snapshot its
\* opener compared with, unless one of the named gaps was hit.
THEOREM Served == Spec => []ServedFaithfully
<1>1. ServedInv => FreshIsSnapshot
  BY DEF ServedInv, TimesTell, Finished, FreshIsSnapshot
<1>2. ServedInv /\ ~excuse => ServedIsCurrent
  BY DEF ServedInv
<1>3. excuse => ServedIsCurrent
  BY DEF ServedIsCurrent
<1>4. ServedInv => ServedFaithfully
  BY <1>1, <1>2, <1>3 DEF ServedInv, ServedFaithfully
<1> QED
  BY <1>4, ServingInvariant, PTL

LEMMA NeedlessRemoval ==
  ASSUME ServedInv, [Next]_vars, ~excuse,
         db'.content = "absent", db.content = "full", db.by = Nobody
  PROVE  db.version # json.version \/ json.state = "torn"
<1>1. CASE \E p \in Openers : Unlink(p)
  <2>1. PICK p \in Openers : Unlink(p)
    BY <1>1
  <2>2. Newer
    BY <2>1 DEF Unlink, ServedInv, Stages
  <2> QED
    BY <2>2 DEF ServedInv, TimesTell, Finished
<1>2. ASSUME NEW p \in Openers, Create(p) \/ CreateSchema(p) \/ BulkLoad(p) \/ Close(p) \/ Crash(p)
      PROVE  FALSE
  BY <1>2, ServingAssumption
     DEF Create, CreateSchema, BulkLoad, Close, Crash, Written, ServedInv, TypeOK, Database
<1>3. CASE db' = db
  BY <1>3
<1> QED
  BY <1>1, <1>2, <1>3 DEF Next, OpenSynced, vars, Tick, Truncate, Save, Check, ReadSnapshot,
     Open, Restart, OpenAgain

\* Nobody removes a finished database of the current snapshot, unless two
\* rebuilds overlap: a start of the API pays for a rebuild only when it must.
THEOREM NoNeedlessRebuild == Spec => RebuildOnlyStale
<1>1. ServedInv /\ [Next]_vars =>
        [(db'.content = "absent" /\ db.content = "full" /\ db.by = Nobody) =>
           excuse \/ db.version # json.version \/ json.state = "torn"]_vars
  BY NeedlessRemoval
<1> QED
  BY <1>1, ServingInvariant, PTL DEF Spec, RebuildOnlyStale
=============================================================================
