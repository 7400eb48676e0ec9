----------------------------- MODULE Ingestion -----------------------------
(***************************************************************************)
(* One ingestion process: `coruscant ingest` (mode "full"), or the worker  *)
(* and `coruscant ingest --due-only` (mode "due"), from run_ingestion      *)
(* through the orchestrator and the pipeline to the stores it leaves       *)
(* behind.                                                                 *)
(*                                                                         *)
(* A step is one call that can fail or be interrupted separately, so a     *)
(* crash can fall between any two writes to disk.  A document is a number  *)
(* of its text's version; a store holds for each target the version it was *)
(* last given, 0 for none.  Time is kept as ages: age[s] is the number of  *)
(* days since the last recorded run of s, counted up to the cadence, which *)
(* is all is_due can tell apart; a source that never ran has the age of    *)
(* its cadence.                                                            *)
(***************************************************************************)
EXTENDS Naturals, Sequences

CONSTANTS
  Sources,      \* the enabled sources of the configuration
  Known,        \* those of them the source registry has a definition for
  Companies,
  MaxFilings,
  Filings,      \* Filings[s, c]: how many targets the resolver finds
  Cadence,      \* Cadence[s]: days between two runs of s
  MaxAttempts,
  Modes,        \* how runs are started here: "due", "full" or both
  MaxVersion,   \* bound: texts a publisher gives one document
  FaultBudget,  \* bound: failures and kills of a behaviour
  MayBeKilled   \* whether the process may be killed

ASSUME ConfigurationAssumption ==
  /\ Known \subseteq Sources
  /\ MaxFilings \in Nat
  /\ Filings \in [Known \X Companies -> 0..MaxFilings]
  /\ Cadence \in [Known -> Nat]
  /\ MaxAttempts \in Nat \ {0}
  /\ Modes \subseteq {"due", "full"}
  /\ MaxVersion \in Nat \ {0}
  /\ FaultBudget \in Nat
  /\ MayBeKilled \in BOOLEAN

Pair == Known \X Companies
Target == {t \in Known \X Companies \X (1..MaxFilings) :
             t[3] <= Filings[<<t[1], t[2]>>]}
Source(t) == t[1]
PairOf(t) == <<t[1], t[2]>>

Version == 1..MaxVersion
Stored == 0..MaxVersion
NoDocuments == [t \in Target |-> 0]

\* The program counter of the run: where the process is between two calls.
Stage == {"idle", "pairs", "fetch", "fetched", "projected", "normalized",
          "summarize", "events", "saving", "writing", "status", "record"}
\* The stages of one attempt at one target.
AttemptStage == {"fetch", "fetched", "projected", "normalized"}
TargetStage == AttemptStage \cup {"summarize", "events"}

VARIABLES
  content,      \* the publishers' current texts
  normalized,   \* files under data/normalized
  catalog,      \* rows of the document catalog
  summaries, events,  \* rows of the intelligence store
  changeSets,   \* change sets by their current document
  deadLetters,  \* pairs (discovery) and targets ever dead-lettered
  snapshot,     \* documents projected in graph.json
  torn,         \* graph.json holds half of a write
  age,          \* days since each source's recorded run
  pc, mode,     \* the process: its stage, and how the run was started
  elapsed,      \* days since the run took its `moment`
  selected,     \* the sources of this run
  todo, pair, idx, attempt, fetched,   \* loop state
  docs,         \* periods of this pair ingested so far, in order
  graph,        \* the in-memory graph store
  items, unknown, unresolved, failed,  \* the run report
  toRecord,     \* sources whose record_run is still to come
  faults

stores == <<normalized, catalog, summaries, events, changeSets, deadLetters,
            snapshot, torn, age>>
report == <<items, unknown, unresolved, failed>>
loop == <<todo, pair, idx, attempt, fetched, docs>>
run == <<mode, elapsed, selected, loop, graph, report, toRecord>>
vars == <<content, stores, pc, run, faults>>

NoPair == <<>>
Current == <<pair[1], pair[2], idx>>

Init ==
  /\ content = [t \in Target |-> 1]
  /\ normalized = NoDocuments /\ catalog = NoDocuments
  /\ summaries = NoDocuments /\ events = NoDocuments
  /\ changeSets = [t \in Target |-> [prev |-> 0, prevVersion |-> 0, version |-> 0]]
  /\ deadLetters = {}
  /\ snapshot = NoDocuments /\ torn = FALSE
  /\ age = [s \in Known |-> Cadence[s]]
  /\ pc = "idle" /\ mode = "due" /\ elapsed = 0
  /\ selected = {} /\ todo = {} /\ pair = NoPair
  /\ idx = 1 /\ attempt = 1 /\ fetched = 0 /\ docs = <<>>
  /\ graph = NoDocuments
  /\ items = {} /\ unknown = {} /\ unresolved = {} /\ failed = {}
  /\ toRecord = {} /\ faults = 0
-----------------------------------------------------------------------------
(* Scheduling *)

\* Mutant: the boundary day does not count.
IsDueLate(s) == age[s] > Cadence[s]

IsDue(s) == age[s] >= Cadence[s]
DueSources == {s \in Known : IsDue(s)}

\* A day passes, for the schedule and for a run in progress.
Day ==
  /\ age' = [s \in Known |-> IF IsDue(s) THEN Cadence[s] ELSE age[s] + 1]
  /\ elapsed' = IF pc # "idle" /\ \E s \in Known : elapsed < Cadence[s]
                  THEN elapsed + 1 ELSE elapsed
  /\ UNCHANGED <<content, normalized, catalog, summaries, events, changeSets,
                 deadLetters, snapshot, torn, pc, mode, selected, loop, graph,
                 report, toRecord, faults>>

\* A publisher amends the text behind a target's URI.
Publish(t) ==
  /\ content[t] < MaxVersion
  /\ content' = [content EXCEPT ![t] = @ + 1]
  /\ UNCHANGED <<stores, pc, run, faults>>

\* Mutant: a due run takes every source.
SelectedIgnoringDue(m) == Sources

SelectedSources(m) == IF m = "due" THEN DueSources ELSE Sources

\* Mutant: a due run starts from an empty graph too.
FreshGraph(m) == NoDocuments

\* What the run projects onto.
BaseGraph(m) == IF m = "due" THEN snapshot ELSE NoDocuments

\* run_ingestion up to the orchestrator's first source.  load_graph raises on
\* a torn snapshot, so a due run then ends before it starts.
StartRun(m) ==
  /\ pc = "idle"
  /\ m = "due" => ~torn
  /\ mode' = m /\ elapsed' = 0
  /\ selected' = SelectedSources(m)
  /\ todo' = (SelectedSources(m) \cap Known) \X Companies
  /\ unknown' = SelectedSources(m) \ Known
  /\ graph' = BaseGraph(m)
  /\ items' = {} /\ unresolved' = {} /\ failed' = {} /\ toRecord' = {}
  /\ pc' = "pairs"
  /\ UNCHANGED <<content, stores, pair, idx, attempt, fetched, docs, faults>>
-----------------------------------------------------------------------------
(* The orchestrator's loops *)

Fault == faults < FaultBudget /\ faults' = faults + 1

\* The next (source, company): its targets are resolved.
ResolveTargets(p) ==
  /\ pc = "pairs" /\ p \in todo
  /\ todo' = todo \ {p}
  /\ pair' = p /\ idx' = 1 /\ attempt' = 1 /\ docs' = <<>>
  /\ pc' = IF Filings[p] = 0 THEN "pairs" ELSE "fetch"
  /\ UNCHANGED <<content, stores, mode, elapsed, selected, fetched, graph,
                 report, toRecord, faults>>

\* Discovery fails: dead-lettered with period "resolve", the pair is skipped.
ResolveFails(p) ==
  /\ pc = "pairs" /\ p \in todo /\ Fault
  /\ todo' = todo \ {p}
  /\ unresolved' = unresolved \cup {p}
  /\ deadLetters' = deadLetters \cup {p}
  /\ UNCHANGED <<content, normalized, catalog, summaries, events, changeSets,
                 snapshot, torn, age, pc, mode, elapsed, selected, pair, idx,
                 attempt, fetched, docs, graph, items, unknown, failed, toRecord>>

\* fetch, store_raw and normalize: the text as published now.
Fetch ==
  /\ pc = "fetch"
  /\ fetched' = content[Current]
  /\ pc' = "fetched"
  /\ UNCHANGED <<content, stores, mode, elapsed, selected, todo, pair, idx,
                 attempt, docs, graph, report, toRecord, faults>>

\* project_graph and create_embeddings, both in memory.
ProjectGraph ==
  /\ pc = "fetched"
  /\ graph' = [graph EXCEPT ![Current] = fetched]
  /\ pc' = "projected"
  /\ UNCHANGED <<content, stores, mode, elapsed, selected, loop, report,
                 toRecord, faults>>

\* index_search, first half: the normalized file.
SaveNormalized ==
  /\ pc = "projected"
  /\ normalized' = [normalized EXCEPT ![Current] = fetched]
  /\ pc' = "normalized"
  /\ UNCHANGED <<content, catalog, summaries, events, changeSets, deadLetters,
                 snapshot, torn, age, run, faults>>

\* index_search, second half: the catalog row; the attempt has succeeded and
\* its item is in the report.
UpsertCatalog ==
  /\ pc = "normalized"
  /\ catalog' = [catalog EXCEPT ![Current] = fetched]
  /\ items' = items \cup {Current}
  /\ docs' = Append(docs, idx)
  /\ pc' = "summarize"
  /\ UNCHANGED <<content, normalized, summaries, events, changeSets,
                 deadLetters, snapshot, torn, age, mode, elapsed, selected,
                 todo, pair, idx, attempt, fetched, graph, unknown,
                 unresolved, failed, toRecord, faults>>

\* Mutant: the two sides of the comparison are swapped.
SwappedSides(ds) == <<ds[Len(ds)], ds[Len(ds) - 1]>>

\* The periods compared: documents[-2] and documents[-1].
ComparedPeriods(ds) == <<ds[Len(ds) - 1], ds[Len(ds)]>>

\* diff and save_change_set, keyed by the current document.
Diff(ds) ==
  LET prev == <<pair[1], pair[2], ComparedPeriods(ds)[1]>>
      cur == <<pair[1], pair[2], ComparedPeriods(ds)[2]>>
  IN [changeSets EXCEPT ![cur] = [prev |-> prev[3], prevVersion |-> catalog[prev],
                                  version |-> catalog[cur]]]

\* Mutant: the last target is left out.
HasNextShort == idx + 1 < Filings[pair]

HasNextTarget == idx < Filings[pair]

\* Leave target idx: the next target, or the diff and the end of the pair.
LeaveTarget ==
  IF HasNextTarget
    THEN /\ idx' = idx + 1 /\ attempt' = 1 /\ pc' = "fetch"
         /\ UNCHANGED <<changeSets, pair>>
    ELSE /\ changeSets' = IF Len(docs) >= 2 THEN Diff(docs) ELSE changeSets
         /\ pc' = "pairs" /\ UNCHANGED <<pair, idx, attempt>>

\* A stage of the attempt raises and another attempt is left.
RetryAttempt ==
  /\ pc \in AttemptStage /\ attempt < MaxAttempts /\ Fault
  /\ attempt' = attempt + 1
  /\ pc' = "fetch"
  /\ UNCHANGED <<content, stores, mode, elapsed, selected, todo, pair, idx,
                 fetched, docs, graph, report, toRecord>>

\* The last attempt raises: the target is dead-lettered.  What the attempt
\* wrote stays written.
DeadLetterTarget ==
  /\ pc \in AttemptStage /\ attempt = MaxAttempts /\ Fault
  /\ failed' = failed \cup {Current}
  /\ deadLetters' = deadLetters \cup {Current}
  /\ LeaveTarget
  /\ UNCHANGED <<content, normalized, catalog, summaries, events, snapshot,
                 torn, age, mode, elapsed, selected, todo, fetched, docs,
                 graph, items, unknown, unresolved, toRecord>>

SaveSummary ==
  /\ pc = "summarize"
  /\ summaries' = [summaries EXCEPT ![Current] = fetched]
  /\ pc' = "events"
  /\ UNCHANGED <<content, normalized, catalog, events, changeSets, deadLetters,
                 snapshot, torn, age, run, faults>>

\* replace_events: delete and insert in one transaction.
ReplaceEvents ==
  /\ pc = "events"
  /\ events' = [events EXCEPT ![Current] = fetched]
  /\ LeaveTarget
  /\ UNCHANGED <<content, normalized, catalog, summaries, deadLetters,
                 snapshot, torn, age, mode, elapsed, selected, todo, fetched,
                 docs, graph, report, toRecord, faults>>

\* Mutant: the loop is left with pairs to do.
FinishPairsEarly ==
  /\ pc = "pairs" /\ pc' = "saving"
  /\ UNCHANGED <<content, stores, run, faults>>

\* Mutant: the graph is not saved.
FinishPairsUnsaved ==
  /\ pc = "pairs" /\ todo = {} /\ pc' = "status"
  /\ UNCHANGED <<content, stores, run, faults>>

\* Mutant: a run that ingested nothing is not finished.
FinishPairsWithItems ==
  /\ pc = "pairs" /\ todo = {} /\ items # {} /\ pc' = "saving"
  /\ UNCHANGED <<content, stores, run, faults>>

\* The last pair is done: entities and relationships are projected in memory.
FinishPairs ==
  /\ pc = "pairs" /\ todo = {}
  /\ pc' = "saving"
  /\ UNCHANGED <<content, stores, run, faults>>
-----------------------------------------------------------------------------
(* Persisting the run *)

\* save_graph opens graph.json for writing, which truncates it ...
TruncateSnapshot ==
  /\ pc = "saving"
  /\ torn' = TRUE
  /\ pc' = "writing"
  /\ UNCHANGED <<content, normalized, catalog, summaries, events, changeSets,
                 deadLetters, snapshot, age, run, faults>>

\* ... and then writes it.
WriteSnapshot ==
  /\ pc = "writing"
  /\ snapshot' = graph /\ torn' = FALSE
  /\ pc' = "status"
  /\ UNCHANGED <<content, normalized, catalog, summaries, events, changeSets,
                 deadLetters, age, run, faults>>

\* Mutant: every selected source counts as reported.
EverySelected == selected

\* report.source_types: the sources with at least one item.
ReportedSources == {Source(t) : t \in items}

\* save_status; report.source_types is what is left to record.
SaveStatus ==
  /\ pc = "status"
  /\ toRecord' = ReportedSources
  /\ pc' = "record"
  /\ UNCHANGED <<content, stores, mode, elapsed, selected, loop, graph,
                 report, faults>>

\* record_run(s, moment): the run counts from when it started.
RecordRun(s) ==
  /\ pc = "record" /\ s \in toRecord
  /\ age' = [age EXCEPT ![s] = IF elapsed < Cadence[s] THEN elapsed ELSE Cadence[s]]
  /\ toRecord' = toRecord \ {s}
  /\ UNCHANGED <<content, normalized, catalog, summaries, events, changeSets,
                 deadLetters, snapshot, torn, pc, mode, elapsed, selected,
                 loop, graph, report, faults>>

\* Between two runs nothing of the process is left.
Exit ==
  /\ pc' = "idle" /\ mode' = "due" /\ elapsed' = 0
  /\ selected' = {} /\ todo' = {} /\ pair' = NoPair
  /\ idx' = 1 /\ attempt' = 1 /\ fetched' = 0 /\ docs' = <<>>
  /\ graph' = NoDocuments /\ toRecord' = {}
  /\ items' = {} /\ unknown' = {} /\ unresolved' = {} /\ failed' = {}
  /\ UNCHANGED <<content, stores>>

FinishRun ==
  /\ pc = "record" /\ toRecord = {}
  /\ Exit /\ UNCHANGED faults

\* Only the resolver and _ingest_one_with_retry are called inside a try, and
\* the dead-letter store is written in its handler: what any other call raises
\* leaves run_ingestion, and the run is over.
Abort ==
  /\ pc # "idle" /\ (pc \in AttemptStage => attempt = MaxAttempts)
  /\ Fault /\ Exit

\* The process is killed.
Kill ==
  /\ MayBeKilled /\ pc # "idle" /\ Fault
  /\ Exit
-----------------------------------------------------------------------------
\* What the process does on its own when nothing fails.
Step ==
  \/ \E p \in Pair : ResolveTargets(p)
  \/ Fetch \/ ProjectGraph \/ SaveNormalized \/ UpsertCatalog
  \/ SaveSummary \/ ReplaceEvents \/ FinishPairs
  \/ TruncateSnapshot \/ WriteSnapshot \/ SaveStatus
  \/ \E s \in Known : RecordRun(s)
  \/ FinishRun

Next ==
  \/ Day
  \/ \E t \in Target : Publish(t)
  \/ \E m \in Modes : StartRun(m)
  \/ Step
  \/ \E p \in Pair : ResolveFails(p)
  \/ RetryAttempt \/ DeadLetterTarget \/ Abort \/ Kill

Spec == Init /\ [][Next]_vars

\* The operating system keeps running a started process, and days pass.  The
\* timer that starts the worker is the deployment's: it fires again and again.
FairSpec ==
  /\ Spec
  /\ WF_vars(Step)
  /\ WF_vars(Day)
  /\ WF_vars(StartRun("due"))
-----------------------------------------------------------------------------
(* Properties *)

ChangeSet == [prev : 0..MaxFilings, prevVersion : Stored, version : Stored]

\* Types of the variables.
TypeOK ==
  /\ content \in [Target -> Version]
  /\ normalized \in [Target -> Stored] /\ catalog \in [Target -> Stored]
  /\ summaries \in [Target -> Stored] /\ events \in [Target -> Stored]
  /\ snapshot \in [Target -> Stored] /\ graph \in [Target -> Stored]
  /\ changeSets \in [Target -> ChangeSet]
  /\ deadLetters \subseteq Pair \cup Target
  /\ torn \in BOOLEAN
  /\ \A s \in Known : age[s] \in 0..Cadence[s]
  /\ pc \in Stage /\ mode \in {"due", "full"} /\ elapsed \in Nat
  /\ selected \subseteq Sources /\ todo \subseteq Pair
  /\ pair \in Pair \cup {NoPair}
  /\ idx \in Nat \ {0} /\ attempt \in 1..MaxAttempts /\ fetched \in Stored
  /\ docs \in Seq(1..MaxFilings)
  /\ items \subseteq Target /\ failed \subseteq Target
  /\ unknown \subseteq Sources /\ unresolved \subseteq Pair
  /\ toRecord \subseteq Known
  /\ faults \in 0..FaultBudget

RunTargets == {t \in Target : Source(t) \in selected}

\* Targets of this run whose outcome is still open.
Pending(t) ==
  \/ PairOf(t) \in todo
  \/ PairOf(t) = pair /\ \/ pc \in AttemptStage /\ idx <= t[3]
                         \/ pc \in TargetStage /\ idx < t[3]

GivenUp(t) == t \in failed \/ PairOf(t) \in unresolved

\* Every target of the sources a run selected is at any moment exactly one of
\* pending, ingested (an item of the report) or given up (dead-lettered by
\* name or with its pair's discovery): the loops, the retries and the early
\* returns of the orchestrator lose none and settle none twice.
EveryTargetAccounted ==
  pc # "idle" =>
    \A t \in RunTargets :
      /\ Pending(t) \/ t \in items \/ GivenUp(t)
      /\ ~(Pending(t) /\ t \in items)
      /\ ~(Pending(t) /\ GivenUp(t))
      /\ ~(t \in items /\ GivenUp(t))

\* All stores hold the same text of t.
StoresAgree(t) ==
  {normalized[t], catalog[t], summaries[t], events[t], snapshot[t]} = {catalog[t]}

\* The target, or the discovery of its pair, was dead-lettered.
Dead(t) == t \in deadLetters \/ PairOf(t) \in deadLetters

\* Where only due runs happen: whatever a crash, an abort or a failed attempt
\* leaves half-written, the source is still due, so that the next run repairs
\* it, or the target or its pair is in the dead letters.
HalfWrittenIsDueOrDead ==
  pc = "idle" => \A t \in Target : StoresAgree(t) \/ IsDue(Source(t)) \/ Dead(t)

\* A source counts as run only when everything the run reported for it is in
\* every store, the readable graph snapshot included.
RecordedRunIsStored ==
  [][\A s \in Known :
       pc = "record" /\ s \in toRecord \ toRecord' /\ pc' = "record" =>
         /\ ~torn
         /\ \A t \in items : Source(t) = s => StoresAgree(t)]_vars

\* A due run layers its sources onto the snapshot: no document leaves it and
\* none goes back to an older text.
DueRunKeepsProjections ==
  [][mode = "due" => \A t \in Target : snapshot'[t] >= snapshot[t]]_vars

\* A change set compares texts of two documents of one pair that the catalog
\* held, the earlier period on the previous side.
ChangeSetsGrounded ==
  \A t \in Target :
    LET c == changeSets[t] IN
    c.version # 0 =>
      /\ c.prev \in 1..(t[3] - 1)
      /\ c.version \in 1..catalog[t]
      /\ c.prevVersion \in 1..catalog[<<t[1], t[2], c.prev>>]

\* "Projection persists to a durable snapshot" (ADR-0006): between runs the
\* snapshot can be read.
SnapshotReadable == pc = "idle" => ~torn

\* A run that starts ends.
RunsEnd == pc # "idle" ~> pc = "idle"

\* With finitely many faults and amendments, and the snapshot readable, the
\* worker's ticks in the end bring every published text into every store.
CatchesUp ==
  <>[](torn \/ \A t \in Target :
                 {content[t], catalog[t], summaries[t], events[t], snapshot[t]}
                   = {content[t]})
-----------------------------------------------------------------------------
(* What a run promises *)

RunPhase ==
  IF pc = "idle" THEN "idle"
  ELSE IF pc \in {"status", "record"} THEN "persisted" ELSE "running"
PendingTargets == {t \in RunTargets : Pending(t)}
GivenUpTargets == {t \in RunTargets : GivenUp(t)}

Promise == INSTANCE IngestionRun WITH
  phase <- RunPhase, pending <- PendingTargets,
  ingested <- items, givenUp <- GivenUpTargets

\* A run, seen through its report, is a run of IngestionRun: it settles each
\* target once and persists its result when all are settled.
KeepsPromise == Promise!Spec
=============================================================================
