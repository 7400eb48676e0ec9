---------------------------- MODULE Resolution ----------------------------
(***************************************************************************)
(* Entity resolution: the log of judgements (Resolver), the clustering of  *)
(* its effective view (cluster) and the projection of the clusters into    *)
(* the graph (project_canonical), with the canonical ids stamped there     *)
(* pinned by the next clustering (pinned_from_store).                      *)
(*                                                                         *)
(* Everything that reads the log reads it through current(), a fold over   *)
(* the appends; `effective` is that fold's value after every append.       *)
(* Entities are numbered in the order of their (kind, key).  A score is a  *)
(* number up to MaxScore, which stands for 1.0 and for no score.           *)
(***************************************************************************)
EXTENDS Integers, FiniteSets

CONSTANTS
  N,             \* entities
  InGraph,       \* entities with a node in the graph
  IdRank,        \* how the hashes of the minted ids sort
  MaxScore, MaxDate,
  MaxDecisions   \* bound: judgements of a behaviour

Entity == 1..N

ASSUME ResolutionAssumption ==
  /\ N \in Nat /\ MaxScore \in Nat /\ MaxDate \in Nat \ {0}
  /\ MaxDecisions \in Nat
  /\ InGraph \subseteq Entity
  /\ IdRank \in [Entity -> Nat]
  /\ \A i, j \in Entity : IdRank[i] = IdRank[j] => i = j

Pair == {p \in Entity \X Entity : p[1] < p[2]}
Verdict == {"none", "same", "different", "undecided"}
Judgement == [verdict : Verdict, score : 0..MaxScore, at : 0..MaxDate]
NoId == 0   \* an id is the number of the entity it was minted from

VARIABLES
  effective,    \* current(): the judgement in force for each pair
  pc,           \* cluster(): "idle", "merging", "clustered"
  minScore,     \* its threshold
  left,         \* same edges still to take
  comp, barred, \* members and barred, the defaults included
  blocked,
  stamps,       \* canonical_id of the nodes
  resolvesTo,   \* resolves_to edges
  decisions

resolutionVars == <<effective, pc, minScore, left, comp, barred, blocked, stamps,
          resolvesTo, decisions>>
clustering == <<minScore, left, comp, barred, blocked>>

Singletons == [x \in Entity |-> {x}]
NothingBarred == [x \in Entity |-> {}]

ResolutionInit ==
  /\ effective = [p \in Pair |-> [verdict |-> "none", score |-> 0, at |-> 0]]
  /\ pc = "idle" /\ minScore = 0 /\ left = {}
  /\ comp = Singletons /\ barred = NothingBarred /\ blocked = {}
  /\ stamps = [x \in Entity |-> NoId] /\ resolvesTo = {}
  /\ decisions = 0
-----------------------------------------------------------------------------
(* The log *)

\* j takes the place of prior: a later date, or the same and appended later.
Supersedes(j, prior) ==
  prior.verdict = "none" \/ j.at >= prior.at

\* decide, by a pipeline or a reviewer; retract decides "undecided".
Decide(p, verdict, score, at) ==
  LET j == [verdict |-> verdict, score |-> score, at |-> at]
  IN
  /\ pc = "idle" /\ decisions < MaxDecisions
  /\ effective' = [effective EXCEPT ![p] = IF Supersedes(j, @) THEN j ELSE @]
  /\ decisions' = decisions + 1
  /\ UNCHANGED <<pc, clustering, stamps, resolvesTo>>
-----------------------------------------------------------------------------
(* cluster *)

Judged(v) == {p \in Pair : effective[p].verdict = v}
Forbidden(x) == {y \in Entity : <<x, y>> \in Judged("different")
                                \/ <<y, x>> \in Judged("different")}

\* Mutant: the threshold is exclusive.
AboveScore(m) == {p \in Judged("same") : effective[p].score > m}

SameEdges(m) == {p \in Judged("same") : effective[p].score >= m}

BeginClustering(m) ==
  /\ pc = "idle" /\ pc' = "merging"
  /\ minScore' = m
  /\ left' = SameEdges(m)
  /\ comp' = Singletons
  /\ barred' = [x \in Entity |-> Forbidden(x)]
  /\ blocked' = {}
  /\ UNCHANGED <<effective, stamps, resolvesTo, decisions>>

\* Descending score, then the endpoints.
Before(p, q) ==
  \/ effective[p].score > effective[q].score
  \/ /\ effective[p].score = effective[q].score
     /\ \/ p[1] < q[1]
        \/ p[1] = q[1] /\ p[2] < q[2]

\* The edge the loop takes next.
Takes(e) ==
  /\ pc = "merging" /\ e \in left
  /\ \A f \in left \ {e} : Before(e, f)
  /\ left' = left \ {e}

\* Mutant: only the endpoints of the edge are looked at.
EndpointsBarred(a, b) == b \in Forbidden(a)

\* A `different` judgement stands between the components of a and b.
Spanned(a, b) == comp[a] \cap barred[b] # {} \/ comp[b] \cap barred[a] # {}

\* The edge lies in one component already.
Skip(e) ==
  /\ Takes(e)
  /\ comp[e[1]] = comp[e[2]]
  /\ UNCHANGED <<effective, pc, minScore, comp, barred, blocked, stamps,
                 resolvesTo, decisions>>

\* The union is refused.
Refuse(e) ==
  /\ Takes(e)
  /\ comp[e[1]] # comp[e[2]] /\ Spanned(e[1], e[2])
  /\ blocked' = blocked \cup {e}
  /\ UNCHANGED <<effective, pc, minScore, comp, barred, stamps, resolvesTo,
                 decisions>>

MergedBars(a, b) == barred[a] \cup barred[b]

\* The two components become one.
Unite(e) ==
  LET merged == comp[e[1]] \cup comp[e[2]]
  IN
  /\ Takes(e)
  /\ comp[e[1]] # comp[e[2]] /\ ~Spanned(e[1], e[2])
  /\ comp' = [x \in Entity |-> IF x \in merged THEN merged ELSE comp[x]]
  /\ barred' = [x \in Entity |->
                  IF x \in merged THEN MergedBars(e[1], e[2]) ELSE barred[x]]
  /\ UNCHANGED <<effective, pc, minScore, blocked, stamps, resolvesTo, decisions>>

FinishClustering ==
  /\ pc = "merging" /\ left = {}
  /\ pc' = "clustered"
  /\ UNCHANGED <<effective, clustering, stamps, resolvesTo, decisions>>
-----------------------------------------------------------------------------
(* Canonical ids and their projection *)

Least(S) == CHOOSE x \in S : \A y \in S : x <= y
FirstId(S) == CHOOSE i \in S : \A j \in S : IdRank[i] <= IdRank[j]

Pinned(c) == {stamps[x] : x \in c} \ {NoId}

\* Mutant: the pins are forgotten.
MintAnew(c) == Least(c)

\* Mutant: ids are counted from zero.
MintFromZero(c) == Least(c) - 1

\* _mint: a pinned id is reused, else one is derived from the lowest member.
Mint(c) == IF Pinned(c) # {} THEN FirstId(Pinned(c)) ELSE Least(c)

\* The entities cluster gives a canonical id.
Resolved == {x \in Entity : Forbidden(x) # {}
               \/ \E p \in SameEdges(minScore) : x \in {p[1], p[2]}}
CanonicalId(x) == Mint(comp[x])

\* project_canonical: clusters of two or more are stamped and linked to their
\* Canonical node; a resolves_to edge is written once and kept.
Project ==
  LET members == {x \in Resolved : Cardinality(comp[x]) >= 2}
  IN
  /\ pc = "clustered" /\ pc' = "idle"
  /\ stamps' = [x \in Entity |-> IF x \in members \cap InGraph
                                   THEN CanonicalId(x) ELSE stamps[x]]
  /\ resolvesTo' = resolvesTo \cup {<<x, CanonicalId(x)>> : x \in members}
  /\ minScore' = 0 /\ comp' = Singletons /\ barred' = NothingBarred
  /\ blocked' = {} /\ UNCHANGED <<effective, left, decisions>>
-----------------------------------------------------------------------------
ResolutionNext ==
  \/ \E p \in Pair, v \in Verdict \ {"none"}, s \in 0..MaxScore, d \in 1..MaxDate :
       Decide(p, v, s, d)
  \/ \E m \in 0..MaxScore : BeginClustering(m)
  \/ \E e \in Pair : Skip(e) \/ Refuse(e) \/ Unite(e)
  \/ FinishClustering
  \/ Project

ResolutionSpec == ResolutionInit /\ [][ResolutionNext]_resolutionVars
-----------------------------------------------------------------------------
(* Properties *)

\* Types of the variables.
ResolutionTypeOK ==
  /\ effective \in [Pair -> Judgement]
  /\ pc \in {"idle", "merging", "clustered"}
  /\ minScore \in 0..MaxScore
  /\ left \subseteq Pair /\ blocked \subseteq Pair
  /\ comp \in [Entity -> SUBSET Entity] /\ barred \in [Entity -> SUBSET Entity]
  /\ stamps \in [Entity -> Entity \cup {NoId}]
  /\ resolvesTo \subseteq Entity \X Entity
  /\ decisions \in Nat

\* "Merge-resistant clustering, NOT connected-components": however the same
\* edges chain, no cluster holds two entities judged different, and an entity
\* is in one cluster only.
MergeResistant ==
  \A x \in Entity :
    /\ x \in comp[x]
    /\ \A y \in comp[x] : comp[y] = comp[x]
    /\ pc # "idle" => \A y \in comp[x] : comp[x] \cap Forbidden(y) = {}

\* No same edge is dropped: when the clustering is done each one that reaches
\* the threshold lies in one cluster, or is listed as blocked and there is a
\* different judgement between the clusters of its ends.  Blocked edges keep
\* their reason though the clusters grow after they were refused.
SameEdgesSettled ==
  pc = "clustered" =>
    \A p \in {q \in Pair : effective[q].verdict = "same" /\ effective[q].score >= minScore} :
      IF p \in blocked
        THEN \E y \in comp[p[1]] : Forbidden(y) \cap comp[p[2]] # {}
        ELSE comp[p[1]] = comp[p[2]]

\* "A customer's bookmark cannot change because registries updated
\* overnight": an entity's stamped id changes only when its cluster takes the
\* stamped id of another of its members.
BookmarksStable ==
  [][\A x \in Entity :
       stamps[x] # NoId /\ stamps'[x] # stamps[x]
         => \E y \in comp[x] : y # x /\ stamps[y] = stamps'[x]]_resolutionVars
=============================================================================
