----------------------------- MODULE GraphStore -----------------------------
(* The knowledge graph as a value, and what a store answers about it: a    *)
(* record of the nodes (a function from <<kind, key>> to properties) and   *)
(* of the edges, in insertion order.  An edge is a record with its source, *)
(* its relation, its target and a record of properties; a property that is *)
(* not there reads as None, as properties.get() does.                      *)
EXTENDS Selections, SequencesExt, TLC

None == "none"
NoDate == 0

EmptyGraph == [nodes |-> <<>>, edges |-> <<>>]

Prop(props, name) == IF name \in DOMAIN props THEN props[name] ELSE None
DateProp(props, name) == IF name \in DOMAIN props THEN props[name] ELSE NoDate

HasNode(g, n) == n \in DOMAIN g.nodes
NodeProp(g, n, name) == IF HasNode(g, n) THEN Prop(g.nodes[n], name) ELSE None

\* The last write of a node wins.
UpsertNode(g, n, props) ==
  [g EXCEPT !.nodes = [m \in DOMAIN @ \cup {n} |-> IF m = n THEN props ELSE @[m]]]

\* Mutant: only a node that is there is written.
EnsureKnown(g, n, props) == IF HasNode(g, n) THEN UpsertNode(g, n, props) ELSE g

\* A reference creates a node, it never overwrites one.
EnsureNode(g, n, props) == IF HasNode(g, n) THEN g ELSE UpsertNode(g, n, props)

Identity(e) == <<e.src, e.rel, e.dst>>

EdgeSet(g) == Range(g.edges)

\* Mutant: the last write of an edge wins.
UpsertEdgeLast(g, e) ==
  [g EXCEPT !.edges = Append(SelectSeq(@, LAMBDA x : Identity(x) # Identity(e)), e)]

\* The first write of an edge wins: its provenance is never overwritten.
UpsertEdge(g, e) ==
  IF \E x \in EdgeSet(g) : Identity(x) = Identity(e)
  THEN g
  ELSE [g EXCEPT !.edges = Append(@, e)]

NodesOfKind(g, kind) == {n \in DOMAIN g.nodes : n[1] = kind}

\* What a store lists in the order of the edges is a set here; Kept(g.edges, E)
\* has the order, where it matters.
Outgoing(g, n) == {e \in EdgeSet(g) : e.src = n}
Incoming(g, n) == {e \in EdgeSet(g) : e.dst = n}
ByRelation(g, rel) == {e \in EdgeSet(g) : e.rel = rel}

------------------------------------------------------------------------------
(* Access tiers and valid time.                                            *)

Tiers == <<"public", "legitimate-interest", "restricted-authority", "aggregator-licensed">>

\* An edge without a tier is public, one with an unknown tier is closed to all
\* but the highest clearance.
TierRank(tier) ==
  CASE tier = None -> 1
    [] tier \in Range(Tiers) -> CHOOSE i \in DOMAIN Tiers : Tiers[i] = tier
    [] OTHER -> Len(Tiers)

CanSee(e, clearance) == TierRank(Prop(e.props, "access_tier")) <= TierRank(clearance)

Visible(edges, clearance) == {e \in edges : CanSee(e, clearance)}

\* Missing bounds are open.
ValidOn(e, day) ==
  /\ DateProp(e.props, "valid_from") # NoDate => day >= e.props.valid_from
  /\ DateProp(e.props, "valid_to") # NoDate => day <= e.props.valid_to

\* A question without a date sees every edge.
StandsOn(e, day) == day = NoDate \/ ValidOn(e, day)
AsOf(edges, day) == {e \in edges : StandsOn(e, day)}

------------------------------------------------------------------------------
(* Multi-hop reach and the two backends.                                   *)

HopsFrom(g, n, rel, direction) ==
     {e.dst : e \in {x \in EdgeSet(g) : direction # "in" /\ x.rel = rel /\ x.src = n}}
       \cup {e.src : e \in {x \in EdgeSet(g) : direction # "out" /\ x.rel = rel /\ x.dst = n}}

\* Hops that start at start, next[n] being the nodes one hop from n, and the nodes
\* that at most h of them lead to.
Trails(next, start, h) ==
  {p \in [0..h -> DOMAIN next] : p[0] = start /\ \A i \in 1..h : p[i] \in next[p[i - 1]]}
Within(next, start, h) == UNION {{p[k] : p \in Trails(next, start, k)} : k \in 0..h}

\* The nodes within maxHops of start over rel, each with its shortest distance.
Reachable(g, start, rel, maxHops, direction) ==
  LET next == [n \in DOMAIN g.nodes |-> HopsFrom(g, n, rel, direction)]
  IN  [n \in Within(next, start, maxHops) \ {start} |->
         CHOOSE h \in 1..maxHops : n \in Within(next, start, h) \ Within(next, start, h - 1)]

\* The disk store creates an edge by matching both of its nodes: one whose node
\* is missing is not created.
BulkLoad(g) ==
  [g EXCEPT !.edges = Kept(@, {e \in EdgeSet(g) : HasNode(g, e.src) /\ HasNode(g, e.dst)})]
=============================================================================
