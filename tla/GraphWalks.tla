----------------------------- MODULE GraphWalks -----------------------------
(* The three walks the API runs over the graph: ownership chains (depth    *)
(* first, upwards), group contagion (breadth first, both ways) and the     *)
(* evidence chains of the co-mention network (breadth first, both ways).   *)
(* One step is one iteration of the walk's loop.  The graph is what the    *)
(* ownership and co-mention jobs upserted before the request.              *)
EXTENDS GraphStore

CONSTANTS
  Statements,      \* ownership edges the jobs may write, in any order
  CoMentions,      \* references edges the extraction may write after them
  Surrogates,      \* parties the ownership job could not anchor
  MaxEdges,        \* bound: edges written
  Tracked,         \* companies with a node from the start
  Companies,       \* companies asked about
  Clearances,      \* clearances of the callers
  Days,            \* days asked about, NoDate for none
  MaxDepth,        \* hops of an ownership chain
  MaxHops,         \* hops of contagion
  MaxNetworkHops,  \* hops a caller of the network may get at most
  AskedHops        \* hops a caller of the network may ask for

OwnershipRelations == {"owns", "beneficial_owner_of", "consolidates"}

ASSUME WalkAssumption ==
  /\ \A e \in Statements : e.rel \in OwnershipRelations
  /\ \A e \in CoMentions : e.rel = "references"
  /\ MaxDepth \in Nat \ {0} /\ MaxHops \in Nat \ {0} /\ MaxNetworkHops \in Nat \ {0}
  /\ AskedHops \subseteq Nat /\ Tracked \subseteq Companies /\ Tracked \cap Surrogates = {}

VARIABLES
  graph,     \* the served graph
  ask,       \* the request being answered, or Idle
  frontier,  \* the walk's stack or queue
  seen,      \* nodes a breadth-first walk has met
  found,     \* chains, group members or network companies found so far
  withheld   \* ties a contagion walk met and may not show

vars == <<graph, ask, frontier, seen, found, withheld>>

Idle == [walk |-> "none"]
Asking(walk) == ask.walk = walk
Done == ask # Idle /\ frontier = <<>>

TrackedOnly == [EmptyGraph EXCEPT !.nodes = [c \in Tracked |-> [name |-> c[2]]]]

NoWalk == ask = Idle /\ frontier = <<>> /\ seen = {} /\ found = <<>> /\ withheld = 0

Init == graph = TrackedOnly /\ NoWalk

------------------------------------------------------------------------------
(* What the jobs wrote.                                                    *)

PartyProps(n) ==
  IF n \in Surrogates THEN [name |-> n[2], ownership_status |-> "unresolved"]
  ELSE [name |-> n[2]]

WriteEdge(e) ==
  /\ ask = Idle
  /\ Len(graph.edges) < MaxEdges
  /\ graph' = UpsertEdge(EnsureNode(EnsureNode(graph, e.src, PartyProps(e.src)),
                                    e.dst, PartyProps(e.dst)), e)
  /\ UNCHANGED <<ask, frontier, seen, found, withheld>>

\* The ownership job writes its statements before the extraction of references.
IngestOwnership ==
  /\ ByRelation(graph, "references") = {}
  /\ \E e \in Statements : WriteEdge(e)

ProjectReferences == \E e \in CoMentions : WriteEdge(e)

------------------------------------------------------------------------------
(* Ownership chains.                                                       *)

\* The positions of the edges that stand on a day, towards a node's owners and
\* towards what it owns, and of those a caller may see.
Tie(e, day) == e.rel \in OwnershipRelations /\ StandsOn(e, day)
OwnerEdges(g, n, day) == {i \in DOMAIN g.edges : g.edges[i].dst = n /\ Tie(g.edges[i], day)}
OwnedEdges(g, n, day) == {i \in DOMAIN g.edges : g.edges[i].src = n /\ Tie(g.edges[i], day)}
Shown(g, ties, clearance) == {i \in ties : CanSee(g.edges[i], clearance)}

Hidden(g, ties, clearance) == Cardinality(ties) - Cardinality(Shown(g, ties, clearance))

IsUnresolved(g, n) == NodeProp(g, n, "ownership_status") = "unresolved"

\* What a chain that ends at n claims, going by its last hop and by the node.
Claim(g, n, lastRelation) ==
  CASE lastRelation = "beneficial_owner_of" \/ n[1] = "Person" -> "beneficial_owner"
    [] OTHER -> IF IsUnresolved(g, n) THEN "unresolved" ELSE "root"

\* Mutant: a hidden owner is no reason to call the chain restricted.
TerminalForOpen(g, n, lastRelation, hidden) == Claim(g, n, lastRelation)

\* A chain below a hidden owner claims nothing.
TerminalFor(g, n, lastRelation, hidden) ==
  IF hidden > 0 THEN "restricted" ELSE Claim(g, n, lastRelation)

Complete(chain) == chain.terminal \in {"beneficial_owner", "root"}

AskChains ==
  /\ ask = Idle
  /\ \E c \in Companies, clearance \in Clearances, day \in Days :
       /\ ask' = [walk |-> "chains", seed |-> c, clearance |-> clearance, day |-> day]
       /\ frontier' = IF HasNode(graph, c)
                      THEN <<[at |-> c, links |-> <<>>, visited |-> {c[2]}, last |-> None]>>
                      ELSE <<>>
  /\ UNCHANGED <<graph, seen, found, withheld>>

Hop(item, e) ==
  [at |-> e.src, links |-> Append(item.links, e), visited |-> item.visited \cup {e.src[2]},
   last |-> e.rel]

\* Why the walk does not go on from the hop over e: the holder's key is on the
\* path already, or the chain is as deep as it may get.  None when it goes on.
StopAt(item, e) ==
  CASE e.src[2] \in item.visited -> "cycle"
    [] e.src[2] \notin item.visited /\ Len(item.links) + 1 >= MaxDepth -> "max_depth"
    [] OTHER -> None

\* Pop one path: it ends here, or each owner ends it or continues it.
FollowChain ==
  /\ Asking("chains") /\ frontier # <<>>
  /\ LET item == Last(frontier)
         all == OwnerEdges(graph, item.at, ask.day)
         owners == Shown(graph, all, ask.clearance)
         stopping == {i \in owners : StopAt(item, graph.edges[i]) # None}
         stops == Those(graph.edges, stopping)
         goes == Those(graph.edges, owners \ stopping)
     IN  /\ frontier' = Front(frontier) \o [i \in DOMAIN goes |-> Hop(item, goes[i])]
         /\ found' = IF owners = {} /\ item.links # <<>>
                     THEN Append(found, [links |-> item.links,
                                         terminal |-> TerminalFor(graph, item.at, item.last,
                                                                  Hidden(graph, all, ask.clearance))])
                     ELSE found \o [i \in DOMAIN stops |->
                                      [links |-> Append(item.links, stops[i]),
                                       terminal |-> StopAt(item, stops[i])]]
  /\ UNCHANGED <<graph, ask, seen, withheld>>

------------------------------------------------------------------------------
(* Group contagion.                                                        *)

AskContagion ==
  /\ ask = Idle
  /\ \E c \in Companies, clearance \in Clearances, day \in Days :
       /\ ask' = [walk |-> "contagion", seed |-> c, clearance |-> clearance, day |-> day]
       /\ seen' = {c}
       /\ frontier' = IF HasNode(graph, c) THEN <<[at |-> c, path |-> <<>>]>> ELSE <<>>
  /\ UNCHANGED <<graph, found, withheld>>

\* The ties of n that the caller may see, owners before owned entities, as hops.
Adjacent(g, n, clearance, day) ==
  LET up == Those(g.edges, Shown(g, OwnerEdges(g, n, day), clearance))
      down == Those(g.edges, Shown(g, OwnedEdges(g, n, day), clearance))
  IN  [i \in DOMAIN up |-> [from |-> n, to |-> up[i].src, way |-> "up", tie |-> up[i]]]
        \o [i \in DOMAIN down |-> [from |-> n, to |-> down[i].dst, way |-> "down", tie |-> down[i]]]

AdjacentHidden(g, n, clearance, day) ==
  Hidden(g, OwnerEdges(g, n, day), clearance) + Hidden(g, OwnedEdges(g, n, day), clearance)

\* How a member is tied to the seed: a path of hops up is a parent, one of hops
\* down a subsidiary; any other names the node its last hop up led to.
Link(path) ==
  LET ups == {i \in DOMAIN path : path[i].way = "up"}
  IN  CASE ups = DOMAIN path -> [tie |-> "parent", owner |-> None]
        [] ups = {} -> [tie |-> "subsidiary", owner |-> None]
        [] OTHER -> [tie |-> "shares-owner", owner |-> path[Max(ups)].to]

\* Mutant: only the queue is looked at, a node may be met twice by one node.
FreshOnce(hops, met) == Those(hops, {i \in DOMAIN hops : hops[i].to \notin met})

\* Each node that was not met before, by the first hop that leads to it.
Fresh(hops, met) ==
  Those(hops, {i \in DOMAIN hops : /\ hops[i].to \notin met
                                   /\ \A j \in 1..(i - 1) : hops[j].to # hops[i].to})

SpreadContagion ==
  /\ Asking("contagion") /\ frontier # <<>>
  /\ LET item == Head(frontier)
         hops == Fresh(Adjacent(graph, item.at, ask.clearance, ask.day), seen)
         next == [i \in DOMAIN hops |-> [at |-> hops[i].to, path |-> Append(item.path, hops[i])]]
         companies == Those(next, {i \in DOMAIN next : next[i].at[1] = "Company"})
     IN  IF Len(item.path) >= MaxHops
         THEN frontier' = Tail(frontier) /\ UNCHANGED <<seen, found, withheld>>
         ELSE /\ frontier' = Tail(frontier) \o next
              /\ seen' = seen \cup {hops[i].to : i \in DOMAIN hops}
              /\ found' = found \o [i \in DOMAIN companies |->
                                      [company |-> companies[i].at, path |-> companies[i].path,
                                       link |-> Link(companies[i].path)]]
              /\ withheld' = withheld + AdjacentHidden(graph, item.at, ask.clearance, ask.day)
  /\ UNCHANGED <<graph, ask>>

------------------------------------------------------------------------------
(* The co-mention network.                                                 *)

Clamp(hops) == Max({1, Min({hops, MaxNetworkHops})})

AskNetwork ==
  /\ ask = Idle
  /\ \E c \in Companies, hops \in AskedHops :
       /\ ask' = [walk |-> "network", seed |-> c, hops |-> Clamp(hops)]
       /\ seen' = {c}
       /\ frontier' = IF HasNode(graph, c) THEN <<[at |-> c, path |-> <<>>]>> ELSE <<>>
  /\ UNCHANGED <<graph, found, withheld>>

\* The co-mentions of n in the order they were extracted, whoever cites whom;
\* the step shown goes from n to its neighbour.
CoMentionHops(g, n) ==
  LET touching == Those(g.edges, {i \in DOMAIN g.edges : /\ g.edges[i].rel = "references"
                                                         /\ n \in {g.edges[i].src, g.edges[i].dst}})
  IN  [i \in DOMAIN touching |->
         [from |-> n, cited |-> touching[i],
          to |-> IF touching[i].src = n THEN touching[i].dst ELSE touching[i].src]]

FollowReferences ==
  /\ Asking("network") /\ frontier # <<>>
  /\ LET item == Head(frontier)
         hops == IF Len(item.path) >= ask.hops THEN <<>>
                 ELSE Fresh(CoMentionHops(graph, item.at), seen)
         next == [i \in DOMAIN hops |-> [at |-> hops[i].to, path |-> Append(item.path, hops[i])]]
     IN  /\ frontier' = Tail(frontier) \o next
         /\ seen' = seen \cup {hops[i].to : i \in DOMAIN hops}
         /\ found' = found \o next
  /\ UNCHANGED <<graph, ask, withheld>>

\* Who is reached and how far comes from the store; the evidence from the walk.
NetworkAnswer ==
  LET reach == Reachable(graph, ask.seed, "references", ask.hops, "any")
  IN  {[company |-> c, hops |-> reach[c],
        path |-> IF c \in seen THEN (CHOOSE x \in Range(found) : x.at = c).path ELSE <<>>] :
         c \in {n \in DOMAIN reach : n[1] = "Company"}}

------------------------------------------------------------------------------
Reply ==
  /\ Done
  /\ ask' = Idle /\ seen' = {} /\ found' = <<>> /\ withheld' = 0
  /\ UNCHANGED <<graph, frontier>>

Next ==
  \/ IngestOwnership \/ ProjectReferences
  \/ AskChains \/ FollowChain
  \/ AskContagion \/ SpreadContagion
  \/ AskNetwork \/ FollowReferences
  \/ Reply

Spec == Init /\ [][Next]_vars

------------------------------------------------------------------------------
(* Properties.                                                             *)

\* Type invariant: the request is one of the three, and what it found has the
\* shape of its answer.
TypeOK ==
  /\ EdgeSet(graph) \subseteq Statements \cup CoMentions
  /\ \A e \in EdgeSet(graph) : {e.src, e.dst} \subseteq DOMAIN graph.nodes
  /\ ask = Idle \/ ask.walk \in {"chains", "contagion", "network"}
  /\ ask = Idle => frontier = <<>> /\ found = <<>>
  /\ withheld \in Nat

\* The edges a walk of the request may show.
MayShow(e) == Tie(e, ask.day) /\ CanSee(e, ask.clearance)
ShownTies == {e \in EdgeSet(graph) : MayShow(e)}

\* The node a chain has come to after k of its hops.
At(links, k) == IF k = 0 THEN ask.seed ELSE links[k].src

\* No key is twice among the first nodes of the chain.
SimpleTo(links, n) == \A j, k \in 0..n : At(links, j)[2] = At(links, k)[2] => j = k
Simple(links) == SimpleTo(links, Len(links))

OwnersOf(n) == {e \in EdgeSet(graph) : e.dst = n /\ Tie(e, ask.day)}

\* The chains of owners the caller may see, up to the first holder that is on the
\* chain already.
UpPaths ==
  {p \in SeqOf(ShownTies, MaxDepth) :
     /\ p # <<>>
     /\ \A k \in DOMAIN p : p[k].dst = At(p, k - 1)
     /\ SimpleTo(p, Len(p) - 1)}

\* Nothing goes on from the end of the chain.
Ends(p) == ~Simple(p) \/ Len(p) = MaxDepth \/ \A e \in ShownTies : e.dst # At(p, Len(p))

\* ownership_chains returns every path of owners the caller may see, once: up to
\* a holder already on it, to the depth limit, or to a node without visible owner.
ChainsAreAllPaths ==
  Asking("chains") /\ Done /\ HasNode(graph, ask.seed) =>
    /\ {c.links : c \in Range(found)} = {p \in UpPaths : Ends(p)}
    /\ \A i, j \in DOMAIN found : found[i].links = found[j].links => i = j

\* A chain is only complete where nobody, visible to the caller or not, owns the
\* node it ends at; restricted and cyclic chains are exactly what they claim to be.
TerminalsAreHonest ==
  Asking("chains") =>
    \A c \in Range(found) :
      LET top == At(c.links, Len(c.links))
      IN  /\ Complete(c) => Simple(c.links) /\ OwnersOf(top) = {}
          /\ c.terminal = "restricted" => OwnersOf(top) # {}
          /\ c.terminal = "cycle" <=> ~Simple(c.links)
          /\ c.terminal = "root" => top \notin Surrogates

TiedTo(n) == {e.src : e \in {x \in ShownTies : x.dst = n}} \cup {e.dst : e \in {x \in ShownTies : x.src = n}}

\* The nodes at most k ties away from the seed.
Group(k) == Within([n \in DOMAIN graph.nodes |-> TiedTo(n)], ask.seed, k)

Joined(path, target) ==
  /\ path # <<>> /\ path[1].from = ask.seed /\ path[Len(path)].to = target
  /\ \A i \in 2..Len(path) : path[i].from = path[i - 1].to

\* group_contagion returns each company of the group once, at its shortest
\* distance, with a chain of visible ties that leads from the seed to it.
MembersAtShortestDistance ==
  Asking("contagion") /\ Done /\ HasNode(graph, ask.seed) =>
    /\ {<<m.company, Len(m.path)>> : m \in Range(found)} =
         UNION {{n \in Group(k) \ Group(k - 1) : n[1] = "Company"} \X {k} : k \in 1..MaxHops}
    /\ \A i, j \in DOMAIN found : found[i].company = found[j].company => i = j
    /\ \A m \in Range(found) :
         /\ Joined(m.path, m.company)
         /\ \A i \in DOMAIN m.path :
              /\ m.path[i].tie \in ShownTies
              /\ {m.path[i].from, m.path[i].to} = {m.path[i].tie.src, m.path[i].tie.dst}

\* What contagion withholds is counted and not more: a hidden tie counts once at
\* each end the walk looked from.
WithheldAreCounted ==
  Asking("contagion") /\ Done /\ HasNode(graph, ask.seed) =>
    withheld = Cardinality({t \in (DOMAIN graph.edges) \X Group(MaxHops - 1) \X {"up", "down"} :
                              LET e == graph.edges[t[1]]
                              IN  /\ Tie(e, ask.day) /\ ~CanSee(e, ask.clearance)
                                  /\ t[2] = IF t[3] = "up" THEN e.dst ELSE e.src})

\* Whoever the store reaches, the walk finds evidence for, of exactly as many
\* steps as the distance the store answers: two traversals of different order.
EvidenceMatchesDistance ==
  Asking("network") /\ Done /\ HasNode(graph, ask.seed) =>
    \A r \in NetworkAnswer :
      /\ Len(r.path) = r.hops
      /\ Joined(r.path, r.company)
      /\ \A i \in DOMAIN r.path :
           {r.path[i].from, r.path[i].to} = {r.path[i].cited.src, r.path[i].cited.dst}

\* Chains: exactly the paths there are, each ended for the reason it ends.
ChainsSound == ChainsAreAllPaths /\ TerminalsAreHonest

\* Groups and networks: everybody once at the shortest distance, with ties
\* that lead there, and what is withheld counted.
GroupsSound == MembersAtShortestDistance /\ WithheldAreCounted /\ EvidenceMatchesDistance
=============================================================================
