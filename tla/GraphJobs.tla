----------------------------- MODULE GraphJobs -----------------------------
(***************************************************************************)
(* The jobs that write the graph snapshot, graph.json, and the log of      *)
(* judgements, judgements.json.  Each is a process of its own: it loads    *)
(* the whole snapshot, projects into it in memory and writes it back       *)
(* whole; screening and anchoring then write the log the same way.         *)
(*                                                                         *)
(* The in-memory store is modelled by its two rules: a node upserted again *)
(* has only its new properties and keeps its place, an edge upserted again *)
(* stays as it was.  A company may have three nodes: the one of a tracked  *)
(* company (its slug), the one coverage mints from its CIK, and the one    *)
(* ownership mints from its LEI.                                           *)
(***************************************************************************)
EXTENDS Naturals, Sequences

CONSTANTS
  Companies, People,
  Tracked,     \* companies configured at first
  Processes,
  Jobs,        \* the jobs that are started here
  MaxPeriod,   \* bound: report periods of the fund
  MaxRuns,     \* bound: jobs of a behaviour
  MaxKills     \* bound: processes killed

Origin == {"slug", "cik", "lei"}
Key == Origin \X Companies
Subject == Key \cup People
Edge == ({"has_lei", "lei_candidate", "owns"} \X Key)
          \cup ({"confirmed", "screening_candidate"} \X People)
LogEntry == Subject \X {"same", "undecided"}

\* What later lookups read of a Company node.
Properties == [cik : BOOLEAN, lei : BOOLEAN, universe : BOOLEAN]
Bare == [cik |-> FALSE, lei |-> FALSE, universe |-> FALSE]

ASSUME JobsAssumption ==
  /\ Tracked \subseteq Companies
  /\ Jobs \subseteq {"due", "full", "screen", "anchor", "coverage", "ownership", "portfolio"}
  /\ MaxPeriod \in Nat \ {0} /\ MaxRuns \in Nat /\ MaxKills \in Nat

EmptyGraph ==
  [nodes  |-> [c \in Companies |-> <<>>],  \* the company's nodes, oldest first
   props  |-> [k \in Key |-> Bare],
   people |-> {},                          \* Person nodes
   edges  |-> {},
   holds  |-> [k \in Key |-> 0],           \* period stamped on the edge, 0 for none
   period |-> 0]                           \* period of the Fund node

VARIABLES
  snapshot,    \* graph.json: what was written last, and whether it can be read
  judgements,  \* judgements.json, likewise
  proc,        \* each process: stage, job, the graph and log in its memory, and
               \* of what it read at the start the version, companies and filing
  overtaken,   \* processes with a file open that another has written since
  tracked,     \* config/companies
  period,      \* the fund's latest 13F
  runs, kills,
  unjudged     \* subjects whose judgement a kill or a stale save has cost

vars == <<snapshot, judgements, proc, overtaken, tracked, period, runs, kills, unjudged>>

Idle == [pc |-> "idle", job |-> "none", graph |-> EmptyGraph, log |-> {},
         base |-> 0, companies |-> {}, filed |-> 0]

Init ==
  /\ snapshot = [graph |-> EmptyGraph, readable |-> TRUE, version |-> 0]
  /\ judgements = [log |-> {}, readable |-> TRUE]
  /\ proc = [p \in Processes |-> Idle]
  /\ overtaken = {}
  /\ tracked = Tracked
  /\ period = 1
  /\ runs = 0 /\ kills = 0
  /\ unjudged = {}
-----------------------------------------------------------------------------
(* The store *)

Present(g, k) == \E i \in DOMAIN g.nodes[k[2]] : g.nodes[k[2]][i] = k[1]

\* Mutant: a node upserted again is listed again.
PlacedAgain(g, k) == Append(g.nodes[k[2]], k[1])

\* A node that is there keeps its place.
Placed(g, k) == IF Present(g, k) THEN g.nodes[k[2]] ELSE Append(g.nodes[k[2]], k[1])

\* The first node of the company that is in S, the one an index built with
\* setdefault holds; {} if there is none.
FirstOf(g, c, S) ==
  LET at == {i \in DOMAIN g.nodes[c] : <<g.nodes[c][i], c>> \in S}
  IN {<<g.nodes[c][i], c>> : i \in {i \in at : \A j \in at : i <= j}}

\* Mutant: only nodes coverage has made are looked up.
OwnNodes(g) == {k \in Key : g.props[k].cik /\ k[1] = "cik"}

\* The nodes in the index by CIK, and in the one by LEI.
CikNodes(g) == {k \in Key : g.props[k].cik}
LeiNodes(g) == {k \in Key : g.props[k].lei}
-----------------------------------------------------------------------------
(* What each job projects *)

\* The run's last projections write the node of every company of cs anew; the
\* people are those the configuration names for them.
Ingested(g, cs) ==
  [g EXCEPT
     !.nodes = [c \in Companies |-> IF c \in cs THEN Placed(g, <<"slug", c>>) ELSE @[c]],
     !.props = [k \in Key |-> IF k[1] = "slug" /\ k[2] \in cs
                                THEN [Bare EXCEPT !.cik = TRUE] ELSE @[k]],
     !.people = IF cs = {} THEN @ ELSE People]

\* The provider confirms some people and is unsure of others.
Screened(g, yes, unsure) ==
  [g EXCEPT !.edges = @ \cup ({"confirmed"} \X yes)
                        \cup ({"screening_candidate"} \X unsure)]

\* The same for the company nodes; a confirmed one gets its LEI.
Anchored(g, yes, unsure) ==
  [g EXCEPT !.props = [k \in Key |-> IF k \in yes THEN [@[k] EXCEPT !.lei = TRUE] ELSE @[k]],
            !.edges = @ \cup ({"has_lei"} \X yes) \cup ({"lei_candidate"} \X unsure)]

Decided(log, yes, unsure) ==
  log \cup (yes \X {"same"}) \cup (unsure \X {"undecided"})

\* The node a listed issuer is matched to, or minted as.
Issuer(g, c) ==
  LET known == FirstOf(g, c, CikNodes(g))
  IN IF known = {} THEN <<"cik", c>> ELSE CHOOSE k \in known : TRUE

\* The issuers in `listed` enrich the node with their CIK, or get a node.
Covered(g, listed) ==
  [g EXCEPT
     !.nodes = [c \in Companies |-> IF c \in listed THEN Placed(g, Issuer(g, c)) ELSE @[c]],
     !.props = [k \in Key |->
                  IF k[2] \in listed /\ k = Issuer(g, k[2])
                    THEN [@[k] EXCEPT !.cik = TRUE, !.universe = TRUE] ELSE @[k]]]

\* The node a statement about company c is attached to.
Subjected(g, c) ==
  LET known == FirstOf(g, c, LeiNodes(g))
  IN IF known = {} THEN <<"lei", c>> ELSE CHOOSE k \in known : TRUE

\* One statement about each company of `stated`, which names it by its LEI.
Owned(g, stated) ==
  LET subjects == {Subjected(g, c) : c \in stated}
  IN [g EXCEPT
        !.nodes = [c \in Companies |-> IF c \in stated THEN Placed(g, Subjected(g, c)) ELSE @[c]],
        !.props = [k \in Key |-> IF k \in subjects THEN [@[k] EXCEPT !.lei = TRUE] ELSE @[k]],
        !.edges = @ \cup ({"owns"} \X subjects)]

\* The fund's filing for period n, with positions in the companies of `held`.
Held(g, held, n) ==
  LET positions == UNION {FirstOf(g, c, Key) : c \in held}
  IN [g EXCEPT !.holds = [k \in Key |-> IF k \in positions /\ @[k] = 0 THEN n ELSE @[k]],
               !.period = n]
-----------------------------------------------------------------------------
(* A job *)

\* Mutant: only anchoring saves its judgements.
AnchorUsesLog(j) == j = "anchor"

UsesLog(j) == j \in {"screen", "anchor"}

\* Mutant: every job starts from nothing.
FreshGraph(j) == EmptyGraph

\* Only a full ingestion starts clean.
BaseGraph(j) == IF j = "full" THEN EmptyGraph ELSE snapshot.graph

At(p, stage) == proc[p].pc = stage

\* The configuration or the filing, and load_graph; it raises on half a file, and
\* the job is over.
Load(p, j) ==
  /\ At(p, "idle") /\ runs < MaxRuns
  /\ j # "full" => snapshot.readable
  /\ proc' = [proc EXCEPT ![p] =
       [pc |-> "loaded", job |-> j, graph |-> BaseGraph(j), log |-> {}, base |-> snapshot.version,
        companies |-> IF j \in {"due", "full"} THEN tracked ELSE {},
        filed |-> IF j = "portfolio" THEN period ELSE 0]]
  /\ runs' = runs + 1
  /\ UNCHANGED <<snapshot, judgements, overtaken, tracked, period, kills, unjudged>>

\* The log is read and the projections are computed in memory: graph g and log l.
Compute(p, g, l) ==
  /\ proc' = [proc EXCEPT ![p].pc = "computed", ![p].graph = g, ![p].log = l]
  /\ UNCHANGED <<snapshot, judgements, overtaken, tracked, period, runs, kills, unjudged>>

Doing(p, js) == At(p, "loaded") /\ proc[p].job \in js

RunIngestion(p) ==
  /\ Doing(p, {"due", "full"})
  /\ Compute(p, Ingested(proc[p].graph, proc[p].companies), {})

RunScreening(p, yes, unsure) ==
  LET g == proc[p].graph IN
  /\ Doing(p, {"screen"}) /\ judgements.readable
  /\ yes \cap unsure = {} /\ yes \cup unsure \subseteq g.people
  /\ Compute(p, Screened(g, yes, unsure), Decided(judgements.log, yes, unsure))

RunAnchor(p, yes, unsure) ==
  LET g == proc[p].graph IN
  /\ Doing(p, {"anchor"}) /\ judgements.readable
  /\ yes \cap unsure = {} /\ \A k \in yes \cup unsure : Present(g, k)
  /\ Compute(p, Anchored(g, yes, unsure), Decided(judgements.log, yes, unsure))

RunCoverage(p, listed) ==
  Doing(p, {"coverage"}) /\ Compute(p, Covered(proc[p].graph, listed), {})

RunOwnership(p, stated) ==
  Doing(p, {"ownership"}) /\ Compute(p, Owned(proc[p].graph, stated), {})

RunPortfolio(p, held) ==
  Doing(p, {"portfolio"}) /\ Compute(p, Held(proc[p].graph, held, proc[p].filed), {})

\* The provider is not reachable, or the log cannot be read: nothing is saved.
GiveUp(p) ==
  /\ At(p, "loaded")
  /\ proc' = [proc EXCEPT ![p] = Idle]
  /\ UNCHANGED <<snapshot, judgements, overtaken, tracked, period, runs, kills, unjudged>>

\* save_graph: the file is opened, which empties it ...
TruncateGraph(p) ==
  /\ At(p, "computed")
  /\ proc' = [proc EXCEPT ![p].pc = "writing"]
  /\ snapshot' = [snapshot EXCEPT !.readable = FALSE]
  /\ UNCHANGED <<judgements, overtaken, tracked, period, runs, kills, unjudged>>

\* A file another process has written in between and that was longer keeps its
\* tail, and is no JSON any more.
WrittenBy(p) == IF p \in overtaken THEN BOOLEAN ELSE {TRUE}

Others(p, stage) == {q \in Processes \ {p} : At(q, stage)}

\* ... and written.
WriteGraph(p) ==
  /\ At(p, "writing")
  /\ \E whole \in WrittenBy(p) :
       snapshot' = [graph |-> proc[p].graph, readable |-> whole,
                    version |-> snapshot.version + 1]
  /\ overtaken' = (overtaken \ {p}) \cup Others(p, "writing")
  /\ proc' = [proc EXCEPT ![p] = IF UsesLog(@.job) THEN [@ EXCEPT !.pc = "saved"] ELSE Idle]
  /\ UNCHANGED <<judgements, tracked, period, runs, kills, unjudged>>

\* save_resolver, in the same two steps.
TruncateLog(p) ==
  /\ At(p, "saved")
  /\ proc' = [proc EXCEPT ![p].pc = "logging"]
  /\ judgements' = [judgements EXCEPT !.readable = FALSE]
  /\ UNCHANGED <<snapshot, overtaken, tracked, period, runs, kills, unjudged>>

Confirmed(g) == {s \in Subject : <<"has_lei", s>> \in g.edges \/ <<"confirmed", s>> \in g.edges}
JudgedSame(log) == {s \in Subject : <<s, "same">> \in log}

WriteLog(p) ==
  /\ At(p, "logging")
  /\ \E whole \in WrittenBy(p) :
       judgements' = [log |-> proc[p].log, readable |-> whole]
  /\ overtaken' = (overtaken \ {p}) \cup Others(p, "logging")
  /\ unjudged' = unjudged \cup (JudgedSame(judgements.log) \ JudgedSame(proc[p].log))
  /\ proc' = [proc EXCEPT ![p] = Idle]
  /\ UNCHANGED <<snapshot, tracked, period, runs, kills>>

Kill(p) ==
  /\ ~At(p, "idle") /\ kills < MaxKills
  /\ kills' = kills + 1
  /\ unjudged' = IF proc[p].pc \in {"saved", "logging"}
                   THEN unjudged \cup Confirmed(proc[p].graph) ELSE unjudged
  /\ proc' = [proc EXCEPT ![p] = Idle]
  /\ overtaken' = overtaken \ {p}
  /\ UNCHANGED <<snapshot, judgements, tracked, period, runs>>

\* An operator adds a company to the configuration.
Onboard(c) ==
  /\ c \notin tracked /\ tracked' = tracked \cup {c}
  /\ UNCHANGED <<snapshot, judgements, proc, overtaken, period, runs, kills, unjudged>>

\* The fund files its next 13F.
NextPeriod ==
  /\ period < MaxPeriod /\ period' = period + 1
  /\ UNCHANGED <<snapshot, judgements, proc, overtaken, tracked, runs, kills, unjudged>>

Next ==
  \/ \E p \in Processes :
       \/ \E j \in Jobs : Load(p, j)
       \/ RunIngestion(p)
       \/ \E yes, unsure \in SUBSET People : RunScreening(p, yes, unsure)
       \/ \E yes, unsure \in SUBSET Key : RunAnchor(p, yes, unsure)
       \/ \E cs \in SUBSET Companies :
            RunCoverage(p, cs) \/ RunOwnership(p, cs) \/ RunPortfolio(p, cs)
       \/ GiveUp(p)
       \/ TruncateGraph(p) \/ WriteGraph(p) \/ TruncateLog(p) \/ WriteLog(p)
       \/ Kill(p)
  \/ \E c \in Companies : Onboard(c)
  \/ NextPeriod

Spec == Init /\ [][Next]_vars
-----------------------------------------------------------------------------
(* Properties *)

Stage == {"idle", "loaded", "computed", "writing", "saved", "logging"}
Graph ==
  [nodes : [Companies -> Seq(Origin)], props : [Key -> Properties], people : SUBSET People,
   edges : SUBSET Edge, holds : [Key -> 0..MaxPeriod], period : 0..MaxPeriod]

Process ==
  [pc : Stage, job : Jobs \cup {"none"}, graph : Graph, log : SUBSET LogEntry,
   base : Nat, companies : SUBSET Companies, filed : 0..MaxPeriod]

\* Each node is in the graph once.
Distinct(g) ==
  \A c \in Companies : \A i, j \in DOMAIN g.nodes[c] :
    g.nodes[c][i] = g.nodes[c][j] => i = j

\* Types of the variables; every graph, saved or in memory, holds a node once.
TypeOK ==
  /\ snapshot \in [graph : Graph, readable : BOOLEAN, version : Nat]
  /\ judgements \in [log : SUBSET LogEntry, readable : BOOLEAN]
  /\ proc \in [Processes -> Process]
  /\ \A p \in Processes : proc[p].base <= snapshot.version /\ Distinct(proc[p].graph)
  /\ Distinct(snapshot.graph)
  /\ overtaken \subseteq Processes /\ tracked \subseteq Companies
  /\ period \in 0..MaxPeriod /\ runs \in 0..MaxRuns /\ kills \in 0..MaxKills
  /\ unjudged \subseteq Subject

Facts(g) == g.edges \cup {<<"holds", k>> : k \in {k \in Key : g.holds[k] # 0}}

\* A save by a job that is no full ingestion, of a graph that no other save has
\* made old, has every edge of the snapshot.
SaveLayers ==
  \A p \in Processes :
    /\ snapshot'.version # snapshot.version
    /\ At(p, "writing") /\ ~At(p, "writing")'
    /\ proc[p].job # "full" /\ proc[p].base = snapshot.version
    => Facts(snapshot.graph) \subseteq Facts(snapshot'.graph)

\* A job layers what it projects onto what the others projected: whatever runs
\* beside it, a save can only drop an edge of the snapshot when its job had
\* loaded the snapshot before another job's save, or is a full ingestion.
EdgesLostOnlyToStaleSave == [][SaveLayers]_vars

\* "Enrich, don't duplicate" (coverage/pipeline.py): coverage never mints a
\* second node for a company whose tracked node is in the graph; where both
\* are, the minted one was there first.
EnrichDontDuplicate ==
  \A c \in Companies :
    \A i, j \in DOMAIN snapshot.graph.nodes[c] :
      snapshot.graph.nodes[c][i] = "slug" /\ snapshot.graph.nodes[c][j] = "cik" => j < i

\* "Every decision is a reversible resolver judgement": when no job is running
\* each confirmed edge has its judgement in the log, save those a kill between
\* the two saves, or the stale save of another job, has cost.
ConfirmationsJudged ==
  /\ \A p \in Processes : At(p, "idle")
  /\ snapshot.readable /\ judgements.readable
  => Confirmed(snapshot.graph) \subseteq JudgedSame(judgements.log) \cup unjudged
=============================================================================
