# Verification of Coruscant

TLA+ models of Coruscant's Python backend (`src/src/coruscant`), the TLC
configurations that check them on small instances, and theorems about them
proved with TLAPS for every value of the constants. All paths below are
relative to `src/src/coruscant/` unless they say otherwise.

## 1. The system

Coruscant ingests corporate disclosures (SEC filings, press releases, ...) of
a configured set of companies, projects them into a knowledge graph, enriches
that graph from registries, and serves it over an HTTP API. Four kinds of
process share one data directory and one SQL database, and **no lock**:

| Process | Started by | Writes |
|---|---|---|
| `coruscant ingest` (full or `--due-only`) | an operator, cron | raw and normalized files, catalog, intelligence rows, dead letters, `graph.json`, status, schedule |
| worker (`apps/worker.py`) | a timer | the same, due sources only, then notifications |
| enrichment jobs (`coruscant screen`, `anchor`, `coverage`, `ownership`, `portfolio`) | an operator, cron | `graph.json`, `judgements.json` |
| API server (`apps/api.py`) | the deployment | users, keys, usage, watchlists, workspaces, portfolios, the model configuration, the Kuzu database |

They interact through the files and the tables only: a job loads `graph.json`,
computes in memory and writes the file back whole; the API rebuilds its serving
database when `graph.json` is newer. Inside the API server requests run on a
thread pool and share the rate limiter and the feed caches; a handler reads and
writes the database in several commits, between which other requests run.

### Components

| Component (source) | State it keeps | What makes it hard | What makes it correct | Where |
|---|---|---|---|---|
| Orchestrator and pipeline (`ingestion/orchestrator.py`, `pipeline.py`) | the run report, the loop position, the in-memory graph | a fault or a kill between any two writes; retries that repeat half of an attempt | no target is lost or settled twice; a half-written document is repaired or known | `Ingestion` |
| Runtime, scheduler, worker (`apps/workspace_runtime.py`, `ingestion/scheduler.py`, `apps/worker.py`) | last run of each source | a source recorded too early or never | every published text reaches every store in the end | `Ingestion`, `GraphJobs`, `Watchlists` |
| Ingestion stores (`infrastructure/*`) | files, catalog rows, summaries, events, change sets, dead letters, schedule | six stores without a common transaction | the stores agree, or the source is still due, or the target is dead-lettered | `Ingestion` |
| Rate limiter (`apps/ratelimit.py`) | a bucket for each client | threads; the clock is read before the lock | a minute admits no more than the limit, but for late calls | `FixedWindowLimiter` |
| Entity resolution (`knowledge_graph/resolution.py`) | judgement log; stamps and `resolves_to` edges | transitive merges against "different" judgements; ids that outlive merges | no cluster joins what was judged different; stamps do not move without a reason | `Resolution` |
| Snapshot writers (`workspace_runtime.py`, `knowledge_graph/persistence.py`, `memory.py`) | `graph.json`, `judgements.json` | no lock; whole-file writes; the order jobs happen to run in | a save loses only what a stale save can lose; no duplicate nodes; each confirmed edge has its judgement | `GraphJobs` |
| Lists and registers (`coverage/`, `ownership/`) | Company nodes with anchors, ownership edges | identifiers that arrive in any order from lists and registers; share classes; clearances | one node for an issuer; an edge is one statement as made | `Universe`, `Registers`, `ExposureJobs` |
| Exposure extraction (`exposure/extraction.py`, `entities.py`, `portfolio/holdings.py`) | the edges the engine reads | upserts of several jobs in any order | evidence is only added | `ExposureJobs` |
| Exposure queries (`exposure/queries.py`, `ownership_graph.py`) | none | cycles, diamonds, depth limits, hidden and dated ties, the same question from two ends | equal to a reference definition; one answer to one question | `GraphStore`, `GraphWalks`, `ExposureQueries` |
| Kuzu serving store (`knowledge_graph/kuzu_store.py`) | a database built from `graph.json` | in-place rebuild beside readers and writers; modification times | what is served is the current snapshot, whole | `ServingGraph` |
| Watchlists (`watchlists/`) | lists, notifications | worker and requests evaluate at once; deletion during evaluation | read stays read, the worker catches up | `Watchlists` |
| Accounts, keys, organisations, quotas (`auth/`, `enterprise/`, `commercial/`) | users, tokens, keys, members, usage | every limit and permission is check-then-act, over several readings | a credential passes on no more than it has, but for a lapse between two readings; overshoot is bounded | `Accounts`, `Organizations`, `Quotas` |
| Workspaces, searches, portfolios (`workspaces/`, `portfolio/store.py`) | shared rows | rows deleted between a handler's read and its commit | only those with access change a record; no half of a portfolio is shown | `Records` |
| Resolution of uploaded holdings (`coverage/resolve.py`) | none | a cascade of indexes | a match is evident | `PositionResolution` |
| Feed caches (`pricing/`, `news/`, `macro/`) | cached answers, time of the last call | overlapping, slow and late requests | an age is no younger than the fetch; calls are spaced but for what a late stamp lets through; a gap heals | `Feeds` |
| Search and documents (`search/`, document routes) | the engine of the process | documents and summaries from two moments; clearance | a public answer is what the public may see | `Corpus` |
| Change detection, summaries, signals (`intelligence/`) | none | pure functions of two documents | what is reported is in the documents | `Intelligence` |
| Model gateway (`llm/`) | its configuration file | a truncated file; replies of any shape | keys are kept; reports are grounded | `Llm` |
| Connectors and parsers (`connectors/`) | none | external I/O | their faults and results are inputs of `Ingestion` | partly |
| CLI, configuration, front ends | none of their own | | | not modelled |

`PROJECT.json` has the same list with sources, and the hazards with their
lines.

## 2. Modules

    IngestionRun  <- refined by -  Ingestion           <- IngestionProofs
    FixedWindowLimiter                                 <- RequestThreadsProofs
    Resolution                                         <- ResolutionProofs
    GraphJobs                                          <- GraphJobsProofs
    ServingGraph                                       <- ServingGraphProofs
    Watchlists                                         <- WatchlistsProofs

    Selections <- GraphStore, Intelligence
    GraphStore <- GraphWalks      <-+
               <- ExposureQueries <-+- ExposureJobs    <- ExposureJobsProofs
               <- Universe <- Registers <-+

    Organizations <- Accounts     <-+
                  <- Quotas       <-+
    PositionResolution <- Records <-+- ServingApi      <- ServingApiProofs
                       Corpus     <-+
    Intelligence <- Llm           <-+

    Feeds                                              <- RequestThreadsProofs

`A <- B` reads "B extends A". For each of the bottom-most modules `MC<module>`
gives the constants their values. `GraphJobs` composes the seven jobs with one
another through the two files they share; of an ingestion it keeps only what it
does to the snapshot, which `Ingestion` has in detail. `ExposureJobs` composes
the jobs with the queries: what they write is what the walks walk over.
`ServingApi` composes the services behind the routes. `Resolution` and
`GraphJobs` share one MC module, `MCGraphJobs`, and one run, as two parts a
behaviour chooses from.

Each module carries, beside the definitions it is made of, small alternative
definitions marked `Mutant:`. They are what a plausible bug would make of the
definition next to them, used by nothing; substituting one for the original
must break a property, which shows that the property depends on the code.

### `Ingestion`: one ingesting process and its stores

*State.* `content` is what publishers currently have; `normalized`, `catalog`,
`summaries`, `events`, `changeSets`, `snapshot`, `deadLetters` are the stores
that survive the process. A document is the number of the version of its text,
so "the stores agree" is equality. `torn` says that `graph.json` has been
truncated and not yet written. `age[s]` is the number of days since the last
recorded run of `s`, counted up to its cadence, the only thing `is_due` can
tell apart. `pc` and the loop variables are the process; `items`, `failed`,
`unresolved`, `unknown` are the `IngestionReport`.

*Actions.* One for each call that can fail or be interrupted on its own:

| Action | Code |
|---|---|
| `Day`, `Publish` | the world: days pass, a publisher amends a text |
| `StartRun(m)` | `run_ingestion` to the first source: source selection, `load_graph` for a due run, an empty graph for a full one |
| `ResolveTargets`, `ResolveFails` | the resolver inside its `try`; on failure a dead letter and `continue` |
| `Fetch`, `ProjectGraph`, `SaveNormalized`, `UpsertCatalog` | one attempt of `_ingest_one`, in the pipeline's order |
| `RetryAttempt`, `DeadLetterTarget` | `_ingest_one_with_retry`'s loop and its exhausted case |
| `SaveSummary`, `ReplaceEvents`, `LeaveTarget`, `Diff` | what the loop does after a success, and the change set at the end of a pair |
| `FinishPairs`, `TruncateSnapshot`, `WriteSnapshot`, `SaveStatus`, `RecordRun`, `FinishRun` | the rest of `run_ingestion` |
| `Abort` | a call outside the two `try` blocks raises: the run is over |
| `Kill` | the process is killed anywhere |

The raw-document store and the contents of `status.json` are written and never
read by a run, so only their place in the order is kept. The write of one file
or one SQL transaction is one step, except `graph.json`, whose truncation and
write are two, because another process can see it in between.

`IngestionRun` is what a run promises, the abstract specification: it starts
with a set of targets, settles each one once as ingested or given up, persists
its result only when none is left, and may be abandoned. The mapping takes
`phase` from `pc`, `pending` from the loop position, `ingested` from the
report's items and `givenUp` from the dead letters of this run.

### `FixedWindowLimiter`: `allow` by concurrent threads

`ReadClock` is everything before the lock, `ReadBucket` the entry into the
critical section and the dictionary read, `WriteBucket` the rest. `admitted`,
`late` and `sinceReset` are history variables that the properties read and the
actions do not. The selection of the class by `build_rate_limiter`, and a limit
of zero or less, which returns before any of this, are left out.

### `Resolution`: judgements, clusters, canonical ids

Everything in the code reads the append-only log through `current()`, a fold in
which a later date, or the same date appended later, takes the place of what
was there; `effective` is that fold after every append. `BeginClustering`,
`Takes`, `Skip`, `Refuse`, `Unite` are the loop of `cluster` edge by edge, with
the components and their barred sets as the code carries them; `Mint` is
`_mint`, `Project` is `project_canonical`, and the ids it stamps are what
`pinned_from_store` gives the next clustering. A `Decide` happens only between
clusterings, because the log is an object of one process while it is clustered.

### `GraphJobs`: seven jobs, two files

A process loads (`Load`), computes (`RunIngestion` ... `RunPortfolio`), writes
`graph.json` (`TruncateGraph`, `WriteGraph`) and, for screening and anchoring,
`judgements.json` (`TruncateLog`, `WriteLog`). `Kill` may fall anywhere and
`GiveUp` is every early return and exception before the first save. The content
of the graph is what a later job looks up: in which order the nodes of a company
appear (an index built with `setdefault` takes the first), which have a CIK, an
LEI and the universe flag, and the edges. The store has two rules, and they are
the point: a node upserted again has only its *new* properties but keeps its
place, an edge upserted again stays as it was.

Abstractions: two writers of one file at once may leave the tail of the longer
text, a nondeterministic choice (`WrittenBy`); the log is read when the job
computes, which nothing can distinguish from reading it shortly before; every
company has a CIK and at most one ownership statement, which names it by its
LEI; screening and anchoring match any disjoint sets, so every provider is
covered. `unjudged` is a history variable that collects the judgements which a
kill or a stale save has cost.

### `ServingGraph`: the database made from `graph.json`

Each process that wants the graph runs `open_synced`: `Check` compares the two
modification times, `Unlink`, `ReadSnapshot`, `Create`, `CreateSchema`,
`BulkLoad` and `Close` are the rebuild in place, `Open` is what everybody does
at the end. `Truncate` and `Save` are a job's save beside it, `Tick` lets the
clock of the file system move or stand still, `Crash` kills an opener, and
`Restart` is the deployment. An unlinked database is written on out of sight;
one that is open for writing cannot be opened. `excuse` is a history variable
that names the gaps of the comparison: a killed rebuild, one overtaken by a
save or by another, a shared clock tick.

### `Watchlists`

`StartTick`, `ListAll`, `WorkerNext` are the worker's pass over all lists;
`CreateWatchlist`, `EvaluateWatchlist`, `EvaluateAll`, `Insert`,
`RequestNext` are requests; `Commit` and `CommitFails` the end of
`add_notifications`, which looks for missing rows (`Missing`), inserts, and
fails as a whole on a row that came in between. `Matched` is `match_watch_items`:
`Candidates` what an item matches, `EmittedBefore` the order it is emitted in,
`Capped` the limit per item. `SaveChangeSet`, `DeleteWatchlist`,
`MarkRead` and `MarkAllRead` go on beside them.

### `Selections`, `GraphStore`, `GraphWalks`, `ExposureQueries`

`Selections` is what a loop keeps of a list, by positions: a comprehension with
a condition, the first entry of each key, a stable sort. `GraphStore` is the
graph as a value with the rules of `memory.py`, clearances and valid time of
`substrate.py`, and `BulkLoad`, what the disk store makes of it; what the store
lists in the order of its edges is a set, and `Kept(g.edges, E)` has the order
where a question depends on it. `GraphWalks` has the three walks as the code
runs them, one step an iteration of the loop: `FollowChain` (a stack, upwards),
`SpreadContagion` (a queue, both ways), `FollowReferences`. `ExposureQueries` is
an operator for each function of `exposure/queries.py`. Names are compared as
they are; lists that the code sorts are sets.

### `Universe`, `Registers`: from rows to nodes and edges

`Universe` is `coverage/`: a list is a sequence of rows, `Parse...` is what is
kept of it and what is counted as left out, `UnifyIndiaIssuers` joins the two
Indian exchanges, and `IngestCoverage` enriches the company an identity leads
to or mints a node (`CoverIssuer`, `Enrich`, `Create`, `MergeAnchors`) and links
the constituents of the indices. `Registers` is `ownership/`: the parsers of
three registers yield statements of one form (`PscRecord`, `GleifRecord`,
`ParseBods`), and `IngestRegister` resolves their parties against an index of
anchors (`ResolveParty`; the index has keys without kinds, so `FindNode` takes the
first kind that has the key), leaves a placeholder where there is none, and stamps
the edge. Cells are trimmed and folded already; a graph value remembers each
node's place in the store's order (`place`), because indexes take the first.
The documents' syntax (CSV, NDJSON, BSE's envelope), links and counts per venue
are left out, a live register answers or the run ends.

### `ExposureJobs`: the jobs and the queries

`ExtractRelationships`, `ProjectCompany`, `LinkMentions`, `IngestHoldings` are
the projections as sequences of upserts, `RunCoverage`, `RunOwnership` and
`ExtractAgain` the registries' jobs between two ingestions. A behaviour either
projects, or walks, or ingests registries: a walk's request reads a snapshot
that does not change under it, so nothing is lost. A job is one step here;
`GraphJobs` has the loads and saves. A commodity's name and its slug, a tier's
code and its key are one name here, as the code folds the one to the other or
tries both. `fed`, `listed` and `stated` are history
variables: what the lists and registers said.

### The services behind the API

Handlers are split where they read and where they commit. `Accounts`:
`RegisterLook`/`RegisterInsert`, `ConfirmLook`/`ConfirmSet`,
`MintStart`/`MintEmail`/`MintJudge`/`MintStore`, `EnterStart`/`EnterPlan`/
`EnterScopes`, `WriteAudit`, `Tick`, `Restart`; a session is a signed token, a
key a row, and what the code compares of hashes and signatures is equality. To
mint a key a request looks at its credential three times: for the route
(`require_user`, which refuses what does not resolve), for the email
(`current_email`, which takes it for `anonymous@local`) and for its authority
(`_principal`, which takes it for nobody, held to no scopes). A key's row
remembers what minted it (`by`) and whether that had lapsed by the last look
(`lapsed`), history that no action reads. `Organizations`: plans and their
owners. `Quotas`: `ReadPlan`, `CountCalls`, `RecordUsage`, `Midnight`.
`Records`: `...Look` and `...Commit` of each operation, the read of a portfolio
as its two queries; the members of a workspace are a set, where two additions of
one address at once leave two equal rows. `PositionResolution`: the cascade of
indexes an upload is resolved by, one function from the rows of a file to their
matches. `Corpus`: `Publish` by ingestion, `LoadEngine` at the start of a
process, the blended ranking with a table of similarities; a document is named
by its place in the engine, and an answer is a set of places, because `Before`
orders any two. `Intelligence`: diff, events, summary, concerns, signals and
reliability, where a sentence comes with the categories its cues name. `Llm`:
the configuration file (`Truncate`, `Write`), updates that read, merge and save
(`AdminPut`), an analysis that asks a model (`AskAnalyst`), takes a reply of any
shape (`Complete`) or falls back. The services share organisations only, so a
behaviour of `ServingApi` is about one of them, chosen at the start.

### `Feeds`

The three caches: `ReadPriceClock`/`AskQuotes`/`QuotesFetched`, `ReadNewsClock`/
`AskNews`/`CallNews`/`NewsFetched`, `AskMacro`/`MacroAssembled`, with `Tick` between
any two of them. A request decides and stamps by the clock it read first, and may be
delayed at any point after that, up to `MaxFetch` in all; `age` is how long ago it
read. Times are ages that stop counting when nothing can tell them apart.
`covered` (what the stamping fetch brought), `newsCalls` (who called the news source,
and how old that clock reading is) and `reopened` (the threads that may have been let
through the gate again, because another has since put an older reading in
`_last_call`) are history variables. A macro tile may have gaps if a source was down
at any time while it was assembled. `FeedsSpec` is the three together, `MCSpec` one of
them at a time. An average is the set of holdings it is taken over.

## 3. What the runs check

| Run | Shows | Instance, and why it is enough |
|---|---|---|
| `Ingestion_accounting` | `TypeOK`; `EveryTargetAccounted`: each target of the run is exactly one of pending, ingested, given up; `KeepsPromise`: the run implements `IngestionRun` | two registered sources with two and one filings and one unregistered source, both modes, two attempts, two faults, kills: a retry that succeeds, one that is exhausted, and a failed discovery beside a healthy pair all occur |
| `Ingestion_worker` | `HalfWrittenIsDueOrDead`, `ChangeSetsGrounded`, `RecordedRunIsStored`, `DueRunKeepsProjections`; under fairness `RunsEnd` and `CatchesUp` | two companies, one with two filings, each amended once; a cadence of one day, so that a day exists on which the source is not due; two faults, one of which may be a kill in the middle of a retry |
| `Ingestion_durable` (violation) | a kill leaves an unreadable snapshot | one kill |
| `Limiter` | `BudgetPerWindow`, `OvershootIsBounded`, `CallsReturn` | three threads, so that two may be late at once; limit two, three minutes, six calls: a bucket can be taken back, refilled and taken back again |
| `GraphJobs` | of the jobs `TypeOK`, `EnrichDontDuplicate`, `ConfirmationsJudged`, `EdgesLostOnlyToStaleSave`; of the clusters `ResolutionTypeOK`, `MergeResistant`, `SameEdgesSettled`, `BookmarksStable` | two processes and any three of the seven jobs (a third can run between the load and the save of the first), one kill, one company that is onboarded at any moment, one person, two periods; three entities are the least that chain, and five judgements with two scores and two dates let merges be made, projected, revised and projected again, with backdated judgements between |
| `ServingGraph` | `ServedFaithfully`: what passes for fresh is the whole current snapshot, and what is served is no older than what its opener compared with; `OpensSound`: no current database is rebuilt, and every opener serves in the end | two openers (one API process and one worker, or two API processes), two saves, a clock of four ticks that may stand still, one crash: a rebuild can be overtaken by a save, by another rebuild, or killed |
| `Watchlists` | `ListsSound`: a note without a list, a list too many and a creation without audit are each due to an overlap and bounded by it; `ReadStaysRead`; under fairness `WorkerCatchesUp` | two requests beside the worker, three of them started, over ids 1 to 3 for one user, one document that brings a change: two evaluations of one list collide, and a list is deleted between the worker's listing and its insert |
| `Watchlists_latest` (violation) | a change is never notified | three saves and a limit of two for an item, so that the third is cut off |
| `Exposure` | `ChainsSound`, `GroupsSound`: walks equal to sets of paths defined without them; `AnswersSound`: both backends give one answer, exposure is the same from either end, the views of a sector agree; `DirectExposureGrows`; `RegistersSound`: one node for an issuer, share classes that resolve to it, index members that are listed, edges traceable to one statement | all graphs of four of seven ownership ties (a cycle, a diamond, a hidden and a dated owner) and of co-mentions; depth three, two hops, the three days around a tie's validity; every sequence of three projection jobs, and every sequence of four jobs over four lists and four registers whose rows share, rename and omit identifiers |
| `ServingApi` | `ResetsAccounted`; `KeysBounded`: what a key passes on and where it is let in, also when it lapses on the way; `QuotaSound`, `WorkspacesSound`, `PortfoliosSound`, `PublicAnswersSound`, `KeysKept`, `ReportsGrounded` | two overlapping requests for each service, which is the least that interleaves; one restart; two tokens, keys and sessions; two users, of whom one is the demo account; one clock step, after which keys and resets have lapsed; keys asked for with no scope, with the enterprise scope and with both |
| `Keys_minter` (violation) | a key mints one with a scope it does not have | the keys of `ServingApi` alone |
| `Feeds` | `CachesSound`: a quote and a headline served as fresh are no older than their cache allows, although requests overlap, are delayed and slow (for quotes: those the stamping fetch brought), the benchmark agrees with the summary, each thread calls the news source once in an interval but for calls that another's late stamp lets through; under fairness `MacroRecoversIfAsked` | two overlapping requests, one time unit of freshness, two between calls, a request that lasts up to one after its clock reading: a slow fetch ends after a later one, and a late thread stamps a reading behind that of another |

A composite property is a conjunction of named parts, each stated above its
definition; the parts share one behaviour, so they are checked together.

Every bound is a constant: `MaxVersion` (amendments), `FaultBudget` (failures
and kills), `MaxMinute`, `MaxCalls`, `MaxDecisions`, `MaxPeriod`, `MaxRuns`,
`MaxKills`, `MaxSaves`, `MaxTime`, `MaxCrashes`, `MaxOpens`, `MaxStarts`,
`MaxWatchlists`, `MaxEdges`, `MaxJobs`, `MaxRegistryJobs`, `MaxNow`,
`MaxResets`, `MaxKeys`, `MaxSessions`, `MaxRestarts`, `MaxRows`, `MaxBooks`,
`MaxUpdates`, `MaxFetch`. Limits of the code appear as constants with small
values (`Limit`, `PerItemLimit`, `MaxDepth`, `MaxHops`, `PoolLimit`), and the
numbers on either side of each occur. Ages need no bound, they stop where
nothing can tell them apart. `SYMMETRY` is used in `GraphJobs` (processes) and
`ServingApi` (threads of a service), where no liveness is checked. Deadlock is
checked in `Ingestion_*`, `Exposure` and `Feeds`; the others end when a bound
is used up.

### Fairness

| Specification | Fair | Because |
|---|---|---|
| `Ingestion!FairSpec` | weakly `Step`, `Day`, `StartRun("due")` | the operating system keeps running a process that has work, and each step is a terminating call; the timer starts the worker again and again. Faults, kills and publications are not fair, and finitely many |
| `FixedWindowLimiter!FairSpec` | weakly the step inside the lock, strongly its acquisition | a lock of CPython is released infinitely often and its waiters are woken by the operating system |
| `ServingGraph!Spec` | weakly `Save` and each opener's `OpenSynced` | a save that began goes on; a process that is opening goes on, and one that died is restarted by the deployment |
| `Watchlists!Spec` | weakly `WorkerStep` | the timer again; requests are not fair |
| `MCFeeds!MCSpec` | weakly `Tick`, `AskMacro(t)`, `MacroAssembled(t)` | the property is about a tile somebody keeps asking for; a fetch has a timeout |

`CatchesUp` excludes a torn snapshot, which stops every due run for good
(finding 1).

### Findings

Each is a property that a document or a comment states and that a run refutes.

1. `Ingestion_durable`: `save_graph` truncates in place; a kill before the write
   ends leaves a `graph.json` that every later due run raises on
   (`knowledge_graph/persistence.py:23`), although
   `docs/adr/ADR-0006-foundation-hardening.md:31` calls the snapshot durable.
2. `Watchlists_latest`: change sets are matched oldest first and matching stops
   at the limit of an item, stored already or not, so that the next new change
   is never notified (`watchlists/matcher.py:87`), although
   `workspace_runtime.py:529-531` says that new changes become notifications.
3. `Keys_minter`: the handler that mints a key resolves the credential anew
   (`apps/api.py:1800`). A key without scopes that has expired or been revoked since
   the route let it in resolves to nobody there, with no scopes to keep to, as a
   session has none; only the plan of its owner is asked, and a key with the
   enterprise scope is minted. `api.py:1795` says that a key may never exceed the
   authority of the credential minting it.

### What the code does that a reader may not expect

These are in the models as the code has them, and properties are stated around
them ("or dead-lettered", "but for a stale save", `late`, `excuse`). No document
contradicts most of them; they are worth a decision by the maintainers.

*Ingestion.* A change set compares the last two documents of one run, so it may
skip the period in between when that failed (`orchestrator.py:269`). A source
with one success is recorded as run, and what was dead-lettered beside it waits
a cadence. A full run starts from an empty graph. Every ingestion writes the
nodes of the tracked companies again without their LEI, anchors and listing.

*Limiter, accounts, quotas.* A call delayed between its clock read and the lock
takes the bucket back a minute and opens a second budget. The table of buckets
grows with every address. A session outlives a password reset. The enterprise routes,
too, read the scopes of a key anew, and one that has lapsed by then is let in
without any (`api.py:834-835`); a key that lapses before its request is given an
email mints a key of `anonymous@local`, which nobody can use. A restart between an
action and its audit entry leaves the action unrecorded. Daily quotas and
list limits are checked and used in two steps; they overshoot by at most what
overlaps.

*Resolution and graph.* After a projected merge is judged different both
clusters reuse the stamped id; a retraction removes no stamp and no edge.
Ownership before anchoring attaches a statement to a surrogate, and after it
once more to the tracked node (`ownership/pipeline.py:118`). A `holds` edge
keeps the values of the first 13F, while the fund moves on.
`kuzu_store.py:221-223` speaks of an identical graph, but edges whose end has no
node are dropped there. An officer takes precedence over a director only within
one run.

*Registers.* People without an anchor are keyed by name, so all "super-secure"
holders are one Person. Subjects without a number share one placeholder. A
holder who ceased and was notified again keeps the first, ended edge; one tie
stated by two registers keeps the tier that came first. Numbers of all foreign
registries share the scheme `registration_number`, although
`companies_house.py:127-132` speaks of each registry's own. A company first met
as a party keeps its placeholder ahead of the node coverage makes later, and
"unresolved" even when coverage enriches it. A company dropped from an index
stays linked. A live PSC run asks for the numbers of placeholders, too.

*Exposure.* A path down to a subsidiary and up to its other owner is called
"shares-owner", though what the two share is the subsidiary
(`ownership_graph.py:362`). `NetworkStep`'s comment (`queries.py:686-687`) says
that the filing of `from_company` names `to_company`; the search goes both ways,
so either may have filed. Withheld
owners of the company asked about are not counted in a chain.

*Feeds, search, models.* One time stamps the whole quote cache, so an old quote
may be served past its freshness, and a symbol that never resolves makes every
call fetch. The news gate is closed with a clock reading that may be old: a late
thread puts `_last_call` back behind another's call, and whoever called since
may call again within the interval (`news/service.py:71`, `:86`). Search ranks,
cuts off, and then withholds, so a page may be short. A model's reply that is
JSON of another shape raises, although the comment near `api.py:2035` says that
any failure of a model degrades.

## 4. What is proved

All theorems hold for every value of the constants that the module's assumption
allows: `ConfigurationAssumption`, `LimitAssumption`, `ResolutionAssumption`,
`JobsAssumption`, `ServingAssumption`, `WatchlistsAssumption`,
`FeedsAssumption`, `WalkAssumption`, and for `ServingApi` `AccountsAssumption`
with `PlansAssumption`, `QuotasAssumption`, `RecordsAssumption`,
`CorpusAssumption`, `IntelligenceAssumption` and `LlmAssumption`. They say
shapes and signs of the constants, that what is counted (threads, callers, the
holdings of the book, the countries of a supply chain) is finite, distinctness
of the ranks of ids, and two facts about data. `JobsAssumption` says that what
the configuration, the parsers and the curated files hold are lists whose names
are of the kind that is read there: a document is a `Filing` or a `Document`
(`knowledge_graph/reference.py:9-12`), a curated relation leads to the kind that
`exposure/entities.py:66-159` makes of it, a text is searched for the names of
the configured companies (`extraction.py:229-273`), and a line of a 13F is worth
a whole number of dollars. `IntelligenceAssumption` says that no statement of a
disclosure is the name of a country: it has at least six words with a verb among
them (`intelligence/text.py:145`), and `AccountsAssumption` that
`anonymous@local` is no user: an email to register needs a dot behind its `@`
(`auth/service.py:20`). Nothing is said about sizes. Each is evaluated by a run.

* `IngestionProofs`
  * `RunInvariant`: `RunInv` is inductive. `EveryTargetAccounted` alone is not:
    a step that ends a target needs to know that its pair is not also in `todo`
    or `unresolved`, that a target being summarised already has its item, and
    that nothing is left in `todo` once the snapshot is being saved. `RunInv`
    says these, with the types of the loop variables (`LoopTypes`).
  * `Accounting` is `Spec => []EveryTargetAccounted`.
  * `Refinement` is `Spec => KeepsPromise`. Each action maps to one of
    `IngestionRun` or to a stutter: `UpsertCatalog` is `Ingest`,
    `DeadLetterTarget` and `ResolveFails` are `GiveUp`, `WriteSnapshot` is
    `Persist`, `Exit` is `End`.
  * `StoreInv` is about the six stores: types; a fetched text is one that was
    published; what the catalog knows is normalized; a change set's documents
    were in the catalog; the stores are layered in the order they are written;
    items of the report are in all of them. `IngestionTypes`,
    `GroundedChangeSets`, `KeptProjections` and `RecordedIsStored` follow.
  * `HalfWritten` needs `DueInv` and the assumption that only due runs happen
    (`Modes = {"due"}`): a target that differs between stores is being worked
    on, is due, or is in a dead letter. A full run starts with an empty graph,
    for which this is false.
* `ResolutionProofs`
  * `ClusterInvariant`: components partition the entities, the barred sets the
    loop carries are exactly what the members are judged different from, nothing
    forbidden is inside a component, and the edges taken are joined or still
    separated.
  * `MergeResistance`, `SameEdgesAreSettled`, `ResolutionTypes`, `Bookmarks`
    follow. The second needs that a refused edge keeps its reason while its
    components grow, the last that an id is minted from a member of its cluster.
* `GraphJobsProofs`
  * `JobsInv`: types; every graph, on disk or in memory, is `Good` (each node
    once, a minted node older than the tracked one, tracked nodes with their
    CIK); `NothingLost` (a job nobody overtook has all the snapshot has);
    `LogAgrees` (each confirmed edge is judged in the log, is lost and recorded
    as such, or is vouched for by a job between its two saves).
  * `GraphTypes`, `Enrichment`, `Confirmations`, `LayeredSaves` follow.
* `ServingGraphProofs`
  * `Served` is `Spec => []ServedFaithfully`. `ServedInv` adds: the orders
    between the three modification times; and, as long as there is no excuse,
    that at most one process rebuilds (`Alone`), what each stage of a rebuild
    has established (`Stages`), and that a time newer than the snapshot's means
    a database that holds it (`TimesTell`).
  * `NoNeedlessRebuild` is the action part of `OpensSound`.
* `WatchlistsProofs`
  * `Orphans` and `Creations`, from `OwnershipInv`: what an evaluation holds
    belongs to a list that exists or was deleted under it; a note has its list
    or that excuse; a creation is logged, in progress, or collided.
  * `Overshoot`, from `BillInv`: the lists of a user and the creations that
    have passed the check and not inserted yet exceed the limit by less than the
    number of requests. `ReadNotifications` is `ReadStaysRead`.
  * `WellFormed`, from `TypeInv`: every document a process has read of, or holds
    a notification about, is one that was saved. Its substance is `KeysTypes`,
    that an evaluation names only such documents. `Lists` is
    `Spec => []ListsSound`, the four together.
* `ServingApiProofs`: each theorem is about `ApiSpec`, the services together; a
  step of one service leaves the variables of the others alone.
  * `KeyAuthority` is `ApiSpec => []KeysBounded`, from `KeysInv` within
    `AccountsInv`: the shape of the table of keys, and what a request knows at each
    of its stages (`RequestInv`). A credential that has lapsed stays lapsed
    (`Presented`), and while it resolves it identifies the same user (`Identifies`)
    with the same scopes (`Carries`); so what is to be stored is `Grantable`, and
    what a lapse adds is the enterprise scope at most. That it does add it is
    finding 3.
  * `Resets`, from `SigningInv`: the token whose stamp a row holds was issued to
    that account and nobody has honoured it yet (`RowsHoldFreshTokens`); a
    token's honours and the confirmations that have looked it up and not yet set
    the password are together no more than the threads (`ResetBudget`), which
    alone is inductive; and versions count honours.
  * `Quota`, from `QuotaInv`: `CallBudget` adds to the calls of an account those
    of its requests that have been counted and not recorded, as the creations
    are billed in `Watchlists`; in `OrgsInv` the owner is the only member.
  * `Workspaces`, from `TeamInv`: owners are members; a task in progress holds a
    row that was there; `OrphanBudget` bounds orphans and the additions that
    will become some, together, by deletions. A deletion adds at most the other
    threads' additions to it, an addition that commits moves from one to the
    other.
  * `Portfolios`, from `OwnInv`: the rows of a portfolio are all there or gone
    (`HoldingsWhole`), so a reader between its two queries sees one or the
    other. What an upload holds follows from the resolution alone.
  * `Keys`, from `GatewayInv`: while updates do not overlap, each stage of one
    has read, merged or written what was asked for last.
  * `PublicAnswers`: `CorpusInv`, that no id is twice in the catalog or the
    engine; the ranking is then a strict total order of places, and a place is
    returned if fewer than `topK` come before it. That the documents ahead of a
    dropped one are `topK` of those that score as well is a counting lemma, by
    the least counterexample.
  * `Reports` is `ApiSpec => []ReportsGrounded`. Lists are treated by positions:
    `Those`, a list at some of its positions, takes each of them once and in
    order (`ThoseSound`, by `Enumerated`, which counts what comes before), and
    sorting, first-of-each-key, joining and flattening are told in its terms, the
    last by the least list that would be missing. From these follow, function by
    function, what a diff, the events, the pool, the concerns, a summary and the
    signals hold for any two disclosures. `AnalysesInv` then says that a report
    keeps citing the input that it was made from, while configurations are torn,
    replaced and read as the defaults under it, and that whatever provider the
    configuration routes to is one that was named.
* `RequestThreadsProofs`, the two components that the threads of the server share
  * `WindowBudget`, `MinuteBudget` and `LimiterTypes`, from `LimiterInv`: types;
    `Exclusive` (who counts holds the lock, and the bucket it read is still the
    bucket); the admissions since a reset are covered by the bucket's count; and
    `MinuteShare`, the bound on a minute split by whether the bucket has yet to
    come to that minute, is at it, or has left it.
  * `Caches` is `FeedsSpec => []CachesSound`, from `FeedsInv`: the stamp of the
    prices is no younger than the quotes its fetch brought (`PricesInv`), an
    entry no younger than its articles (`HeadlinesInv`), and, for the calls
    (`CallsInv`), the stamp of the gate is as young as any recent call of a
    thread behind which nobody has taken it back, so that who passes the gate has no
    such call within an interval of its own reading: the calls of an interval inject
    into the threads. The benchmark's rows partition the holdings in any state
    (`RowsPartition`).

* `ExposureJobsProofs`: the walks, for every graph that can be asked about and as
  steps of the whole of `ExposureJobs` (`JobsSpec`), and the jobs on the snapshot
  with every question about what they leave. `Good` says what the walks need of
  the graph: each edge once, between nodes that are in it. The graph that a
  behaviour asks about is built from any set of ties, edge by edge, and every such
  graph is `Good`.
  * `ChainsAlwaysSound` is `JobsSpec => []ChainsSound`. In `ChainInv` the stack
    holds paths of which none begins another; what has been found is a path
    (`ChainFound`), and every path there is has been found or begins like one on
    the stack (`ChainCover`): taking a path off and pushing its extensions keeps
    that, as a path that goes on does so through one of the ties at its end. Ties
    withheld from the caller are counted for the nodes looked at.
  * `GroupsAlwaysSound` is `JobsSpec => []GroupsSound`. `Breadth` is the
    invariant of both searches: the queue is in order of distance and spans at
    most two distances, what is in it is at exactly its distance, and of a node
    that was met and is no longer queued all neighbours are met, unless it is at
    the limit. That nothing nearer than the queue is missed (`NearerIsMet`) goes
    by the least distance at which something would be.
  * `WalksInv` joins the three walks: a request has one of them, an idle service
    none, and nothing is asked once a job has written.
  * `AnswersAlwaysSound` is `JobsSpec => []AnswersSound`. `AnswersInv` says that
    what the jobs on the snapshot leave is a `SoundGraph`: an edge starts at a
    node and, but for a mention, ends at one, of the kind that countries, industries,
    sectors and tiers are looked up by; what a fund holds is a number. Nodes whose
    names are terms of an event (`Labels`: industries, sectors, tiers) are made once
    and never written over. `SoundWrite` says it of a single upsert and
    `SoundWrites` of a job's whole list, given the nodes it starts from, and
    `ApplySound` carries the one to the other; that each job's list is sound
    (`ExtractionSound`, `CompanyEntitiesSound`, `MentionsSound`, `FundSound`) is
    where the projections are gone through one by one. From `SoundGraph` the parts
    follow as facts about one graph: that the disk store answers alike
    (`AskedAlike`: what the store leaves out, `WholeEdges`, are mentions, and no
    question looks up what a mention leads to unless it is a node), that exposure
    is symmetric (`Symmetric`), that the views of a sector agree and no event
    touches more of a fund than the fund holds (`ViewsAgree`).
  * `ExposureAlwaysGrows` is `JobsSpec => DirectExposureGrows`. A job leaves a
    graph that has `GrownTo` from the one before: it has its edges, and its nodes,
    and the names that terms are matched with have not changed (`ExposureStays`).

Only model-checked: the liveness properties (`RunsEnd`, `CatchesUp`,
`CallsReturn`, `WorkerCatchesUp`, `EveryOpenerServes`, `MacroRecoversIfAsked`),
which are outside what TLAPS can do, as are `ENABLED` and induction over data.
So is
`RegistersSound`: the lists and the registers are folds whose accumulator is the
graph itself, over rows of any content, and the keys they mint are strings put
together, whose injectivity the provers do not know. Where a proof needs an
induction, over a number, it takes the least counterexample from the
well-foundedness of the naturals, and what a loop leaves is a recursive function
over positions (`Kept`, `Apply`, `ValueOf`), a function or a set. No module has
a `RECURSIVE` operator.

## 5. Not modelled, and why

* Text: tokenising, parsing and matching of filings, and the regular expressions
  that find officers, subsidiaries and suppliers. Their results are inputs
  (`Texts`, `Documents`, `Replies`). Embeddings are a table of similarities.
* Connectors: HTTP, HTML, and the throttle of the SEC connector. Their failures
  are faults of `Ingestion`. The look-up of GLEIF and the sanctions lists are
  the sets an anchoring or screening job matches; the lines of a 13F are given.
* A live GLEIF run: every failure of a request means "no relationship" to it,
  so it differs from the run over a file only by rows that are missing.
* Contents of `status.json` and of raw documents: no run reads them.
* The end of a run by a signal inside a single SQL transaction: SQLite rolls it
  back, the step has not happened.
* Routing, serialisation, list views without a condition of their own, health
  and metrics; the CLI, configuration and the front ends: no state of their own.
* `backup` (`apps/runtime.py:108`): it archives the data directory while others
  write, so the archive is any mixture of the files' states, and no property
  here would survive; that it is "the full platform state"
  (`docs/ops/Deployment.md:40`) holds only while nothing is written.

## 6. Where it goes next

1. Proofs for the registers: one node for an issuer, as an invariant of the
   fold of `IngestCoverage` over a list.
2. The hazards in `PROJECT.json` that no property covers, as the code does
   what they fear and no document says that it does not: the ownership job's
   second edge after anchoring, coverage before onboarding, a crash or a save in
   the middle of a rebuild of the database, an action whose audit entry a restart
   loses, a model configuration torn by a crash, a change set across a failed
   period.
3. The loads and saves of `GraphJobs` around the content of `ExposureJobs`, in
   an instance small enough for both.

To run a check: `tlc -config Ingestion_worker.cfg MCIngestion.tla`, and
`tlapm GraphJobsProofs.tla`; `PROJECT.json` lists the module of each run.
