-------------------------- MODULE ResolutionProofs --------------------------
(***************************************************************************)
(* The clustering, for any number of entities, judgements and scores.      *)
(***************************************************************************)
EXTENDS Resolution, WellFoundedInduction, TLAPS

\* The components are the blocks of a partition of the entities.
Partitioned ==
  \A x \in Entity : x \in comp[x] /\ \A y \in comp[x] : comp[y] = comp[x]

\* What the loop keeps for a component is what its members are judged
\* different from.
BarsAreExact ==
  pc # "idle" =>
    \A x \in Entity : barred[x] = UNION {Forbidden(y) : y \in comp[x]}

\* No component holds two entities judged different.
NothingForbiddenInside ==
  pc # "idle" => \A x \in Entity : \A y \in comp[x] : comp[x] \cap Forbidden(y) = {}

\* Some judgement keeps the components of the two entities apart.
Separated(x, y) == \E a \in comp[x] : Forbidden(a) \cap comp[y] # {}

\* Blocked edges stay blocked, and the edges taken are settled.
TakenAreSettled ==
  pc # "idle" =>
    /\ left \subseteq SameEdges(minScore)
    /\ \A p \in blocked : Separated(p[1], p[2])
    /\ \A p \in SameEdges(minScore) \ left :
         p \in blocked \/ comp[p[1]] = comp[p[2]]

ClusterInv ==
  /\ ResolutionTypeOK
  /\ Partitioned
  /\ BarsAreExact
  /\ NothingForbiddenInside
  /\ TakenAreSettled
  /\ pc = "clustered" => left = {}

LEMMA PairsAreEntities == \A p \in Pair : p[1] \in Entity /\ p[2] \in Entity
BY DEF Pair

LEMMA ForbiddenIsSymmetric ==
  \A x, y \in Entity : y \in Forbidden(x) <=> x \in Forbidden(y)
BY DEF Forbidden

\* Nobody is judged different from itself.
LEMMA NotFromItself == \A x \in Entity : x \notin Forbidden(x)
BY DEF Forbidden, Judged, Pair, Entity

LEMMA ClusterInit == ResolutionInit => ClusterInv
<1> SUFFICES ASSUME ResolutionInit PROVE ClusterInv
  OBVIOUS
<1>1. ResolutionTypeOK
  BY ResolutionAssumption DEF ResolutionInit, ResolutionTypeOK, Judgement, Verdict, Pair, Singletons,
     NothingBarred, NoId
<1>2. Partitioned
  BY DEF ResolutionInit, Partitioned, Singletons
<1> QED
  BY <1>1, <1>2 DEF ResolutionInit, ClusterInv, BarsAreExact, NothingForbiddenInside,
     TakenAreSettled

LEMMA BeginStep ==
  ASSUME ClusterInv, NEW m \in 0..MaxScore, BeginClustering(m)
  PROVE  ClusterInv'
<1>1. /\ comp' = Singletons /\ barred' = [x \in Entity |-> Forbidden(x)]
      /\ left' = SameEdges(m) /\ minScore' = m /\ blocked' = {}
      /\ effective' = effective /\ pc' = "merging"
  BY DEF BeginClustering
<1>2. (\A x : Forbidden(x)' = Forbidden(x)) /\ SameEdges(minScore)' = SameEdges(m)
  BY <1>1 DEF Forbidden, Judged, SameEdges
<1>3. ResolutionTypeOK'
  BY <1>1 DEF BeginClustering, ClusterInv, ResolutionTypeOK, Singletons, SameEdges, Judged,
     Forbidden
<1>4. Partitioned'
  BY <1>1 DEF Partitioned, Singletons
<1>5. BarsAreExact'
  BY <1>1, <1>2 DEF BarsAreExact, Singletons
<1>6. NothingForbiddenInside'
  BY <1>1, <1>2, NotFromItself DEF NothingForbiddenInside, Singletons
<1>7. TakenAreSettled'
  BY <1>1, <1>2 DEF TakenAreSettled
<1> QED
  BY <1>1, <1>3, <1>4, <1>5, <1>6, <1>7 DEF ClusterInv

LEMMA SkipStep ==
  ASSUME ClusterInv, NEW e \in Pair, Skip(e)
  PROVE  ClusterInv'
<1>1. /\ UNCHANGED <<effective, pc, minScore, comp, barred, blocked, stamps,
                     resolvesTo, decisions>>
      /\ left' = left \ {e} /\ comp[e[1]] = comp[e[2]] /\ pc = "merging"
  BY DEF Skip, Takes
<1>2. (\A x : Forbidden(x)' = Forbidden(x)) /\ SameEdges(minScore)' = SameEdges(minScore)
  BY <1>1 DEF Forbidden, Judged, SameEdges
<1>3. TakenAreSettled'
  BY <1>1, <1>2 DEF ClusterInv, TakenAreSettled, Separated
<1> QED
  BY <1>1, <1>2, <1>3 DEF ClusterInv, ResolutionTypeOK, Partitioned, BarsAreExact,
     NothingForbiddenInside

LEMMA RefuseStep ==
  ASSUME ClusterInv, NEW e \in Pair, Refuse(e)
  PROVE  ClusterInv'
<1>1. /\ UNCHANGED <<effective, pc, minScore, comp, barred, stamps, resolvesTo, decisions>>
      /\ left' = left \ {e} /\ blocked' = blocked \cup {e} /\ pc = "merging"
      /\ Spanned(e[1], e[2])
  BY DEF Refuse, Takes
<1>2. (\A x : Forbidden(x)' = Forbidden(x)) /\ SameEdges(minScore)' = SameEdges(minScore)
  BY <1>1 DEF Forbidden, Judged, SameEdges
<1>3. e[1] \in Entity /\ e[2] \in Entity
  BY PairsAreEntities
<1>4. Separated(e[1], e[2])
  <2>1. barred[e[1]] = UNION {Forbidden(y) : y \in comp[e[1]]}
        /\ barred[e[2]] = UNION {Forbidden(y) : y \in comp[e[2]]}
    BY <1>1, <1>3 DEF ClusterInv, BarsAreExact
  <2>2. comp[e[1]] \subseteq Entity /\ comp[e[2]] \subseteq Entity
    BY <1>3 DEF ClusterInv, ResolutionTypeOK
  <2>3. CASE comp[e[2]] \cap barred[e[1]] # {}
    BY <2>1, <2>3 DEF Separated
  <2>4. CASE comp[e[1]] \cap barred[e[2]] # {}
    <3>1. PICK a \in comp[e[1]], b \in comp[e[2]] : a \in Forbidden(b)
      BY <2>1, <2>4
    <3>2. b \in Forbidden(a)
      BY <2>2, <3>1, ForbiddenIsSymmetric
    <3> QED
      BY <3>1, <3>2 DEF Separated
  <2> QED
    BY <1>1, <2>3, <2>4 DEF Spanned
<1>5. TakenAreSettled'
  BY <1>1, <1>2, <1>4 DEF ClusterInv, TakenAreSettled, Separated
<1> QED
  BY <1>1, <1>2, <1>5 DEF ClusterInv, ResolutionTypeOK, Partitioned, BarsAreExact,
     NothingForbiddenInside

LEMMA UniteStep ==
  ASSUME ClusterInv, NEW e \in Pair, Unite(e)
  PROVE  ClusterInv'
<1> DEFINE a == e[1]
           b == e[2]
           merged == comp[a] \cup comp[b]
<1>1. /\ UNCHANGED <<effective, pc, minScore, blocked, stamps, resolvesTo, decisions>>
      /\ left' = left \ {e} /\ pc = "merging" /\ ~Spanned(a, b)
      /\ comp' = [x \in Entity |-> IF x \in merged THEN merged ELSE comp[x]]
      /\ barred' = [x \in Entity |->
                      IF x \in merged THEN barred[a] \cup barred[b] ELSE barred[x]]
  BY DEF Unite, Takes, MergedBars
<1>2. (\A x : Forbidden(x)' = Forbidden(x)) /\ SameEdges(minScore)' = SameEdges(minScore)
  BY <1>1 DEF Forbidden, Judged, SameEdges
<1>3. a \in Entity /\ b \in Entity
  BY PairsAreEntities
<1>4. /\ comp \in [Entity -> SUBSET Entity] /\ barred \in [Entity -> SUBSET Entity]
      /\ merged \subseteq Entity /\ a \in merged /\ b \in merged
  BY <1>3 DEF ClusterInv, ResolutionTypeOK, Partitioned
<1>5. \A x \in Entity : comp[x] \subseteq comp'[x]
  <2> TAKE x \in Entity
  <2>1. x \in merged => comp[x] = comp[a] \/ comp[x] = comp[b]
    BY <1>3 DEF ClusterInv, Partitioned
  <2> QED
    BY <1>1, <2>1
<1> HIDE DEF merged
<1>6. ResolutionTypeOK'
  BY <1>1, <1>3, <1>4 DEF ClusterInv, ResolutionTypeOK
<1>7. Partitioned'
  <2>1. \A x \in Entity \ merged : comp[x] \cap merged = {}
    <3> SUFFICES ASSUME NEW x \in Entity \ merged, NEW y \in comp[x], y \in merged
                 PROVE  FALSE
      OBVIOUS
    <3>1. comp[y] = comp[x] /\ x \in comp[x]
      BY DEF ClusterInv, Partitioned
    <3>2. comp[y] = comp[a] \/ comp[y] = comp[b]
      BY <1>3 DEF ClusterInv, Partitioned, merged
    <3> QED
      BY <3>1, <3>2 DEF merged
  <2> QED
    BY <1>1, <1>4, <2>1 DEF ClusterInv, Partitioned
<1>8. UNION {Forbidden(y) : y \in merged} = barred[a] \cup barred[b]
  BY <1>1, <1>3 DEF ClusterInv, BarsAreExact, merged
<1>9. BarsAreExact'
  BY <1>1, <1>2, <1>8 DEF ClusterInv, BarsAreExact
<1>10. NothingForbiddenInside'
  <2>1. \A y \in merged : merged \cap Forbidden(y) = {}
    <3> SUFFICES ASSUME NEW y \in merged, NEW z \in merged, z \in Forbidden(y)
                 PROVE  FALSE
      OBVIOUS
    <3>1. y \in Entity /\ z \in Entity /\ y \in Forbidden(z)
      BY <1>4, ForbiddenIsSymmetric
    <3>2. comp[a] \cap Forbidden(y) # {} => y \notin comp[a]
      BY <1>1, <1>3 DEF ClusterInv, NothingForbiddenInside
    <3>3. comp[b] \cap Forbidden(y) # {} => y \notin comp[b]
      BY <1>1, <1>3 DEF ClusterInv, NothingForbiddenInside
    <3>4. barred[a] = UNION {Forbidden(u) : u \in comp[a]}
          /\ barred[b] = UNION {Forbidden(u) : u \in comp[b]}
      BY <1>1, <1>3 DEF ClusterInv, BarsAreExact
    <3>5. ~(y \in comp[a] /\ z \in comp[b]) /\ ~(y \in comp[b] /\ z \in comp[a])
      BY <1>1, <3>4 DEF Spanned
    <3> QED
      BY <3>2, <3>3, <3>5 DEF merged
  <2> QED
    BY <1>1, <1>2, <2>1 DEF ClusterInv, NothingForbiddenInside
<1>11. TakenAreSettled'
  <2>1. \A p \in blocked : Separated(p[1], p[2])'
    <3> TAKE p \in blocked
    <3>1. p[1] \in Entity /\ p[2] \in Entity
      BY PairsAreEntities DEF ClusterInv, ResolutionTypeOK
    <3>2. Separated(p[1], p[2])
      BY <1>1 DEF ClusterInv, TakenAreSettled
    <3> QED
      BY <1>2, <1>5, <3>1, <3>2 DEF Separated
  <2>2. \A p \in Pair : comp[p[1]] = comp[p[2]] => comp'[p[1]] = comp'[p[2]]
    <3> SUFFICES ASSUME NEW p \in Pair, comp[p[1]] = comp[p[2]]
                 PROVE  comp'[p[1]] = comp'[p[2]]
      OBVIOUS
    <3>1. p[1] \in Entity /\ p[2] \in Entity
      BY PairsAreEntities
    <3>2. p[1] \in merged <=> p[2] \in merged
      BY <1>3, <3>1 DEF ClusterInv, Partitioned, merged
    <3> QED
      BY <1>1, <3>1, <3>2
  <2>3. comp'[a] = comp'[b]
    BY <1>1, <1>3, <1>4
  <2>4. SameEdges(minScore) \subseteq Pair
    BY DEF SameEdges, Judged
  <2> QED
    BY <1>1, <1>2, <2>1, <2>2, <2>3, <2>4 DEF ClusterInv, TakenAreSettled
<1> QED
  BY <1>1, <1>6, <1>7, <1>9, <1>10, <1>11 DEF ClusterInv

\* A set of naturals has a least member.
LEMMA LeastNatural ==
  ASSUME NEW T, T \subseteq Nat, T # {}
  PROVE  \E n \in T : \A m \in T : n <= m
<1> DEFINE R == OpToRel(<, Nat)
<1>1. IsWellFoundedOn(R, Nat)
  BY NatLessThanWellFounded
<1>2. R = {ss \in Nat \X Nat : ss[1] < ss[2]}
  BY DEF OpToRel
<1> HIDE DEF R
<1>3. PICK n \in T : \A m \in T : ~ (<<m, n>> \in R)
  BY <1>1, WFMin
<1>4. \A m \in T : ~ (m < n)
  BY <1>2, <1>3
<1> QED
  BY <1>3, <1>4

LEMMA LeastType ==
  ASSUME NEW S, S \subseteq Entity, S # {}
  PROVE  Least(S) \in S
<1>1. S \subseteq Nat
  BY ResolutionAssumption DEF Entity
<1>2. \E x \in S : \A y \in S : x <= y
  BY <1>1, LeastNatural
<1> QED
  BY <1>2 DEF Least

LEMMA FirstIdType ==
  ASSUME NEW S, S \subseteq Entity, S # {}
  PROVE  FirstId(S) \in S
<1> DEFINE ranks == {IdRank[i] : i \in S}
<1>1. ranks \subseteq Nat /\ ranks # {}
  BY ResolutionAssumption
<1>2. \E n \in ranks : \A m \in ranks : n <= m
  BY <1>1, LeastNatural
<1>3. \E i \in S : \A j \in S : IdRank[i] <= IdRank[j]
  BY <1>2
<1> QED
  BY <1>3 DEF FirstId

LEMMA CanonicalIdType ==
  ASSUME ClusterInv, NEW x \in Entity
  PROVE  CanonicalId(x) \in Entity
<1>1. comp[x] \subseteq Entity /\ x \in comp[x]
  BY DEF ClusterInv, ResolutionTypeOK, Partitioned
<1>2. Pinned(comp[x]) \subseteq Entity
  BY <1>1 DEF ClusterInv, ResolutionTypeOK, Pinned
<1>3. Least(comp[x]) \in Entity
  BY <1>1, LeastType
<1>4. Pinned(comp[x]) # {} => FirstId(Pinned(comp[x])) \in Entity
  BY <1>2, FirstIdType
<1> QED
  BY <1>3, <1>4 DEF CanonicalId, Mint

LEMMA ProjectStep == ClusterInv /\ Project => ClusterInv'
<1> SUFFICES ASSUME ClusterInv, Project PROVE ClusterInv'
  OBVIOUS
<1>1. \A x \in Entity : CanonicalId(x) \in Entity
  BY CanonicalIdType
<1>2. /\ pc' = "idle" /\ minScore' = 0 /\ comp' = Singletons
      /\ barred' = NothingBarred /\ blocked' = {}
      /\ UNCHANGED <<effective, left, decisions>>
      /\ stamps' \in [Entity -> Entity \cup {NoId}]
      /\ resolvesTo' \subseteq Entity \X Entity
  <2> HIDE DEF CanonicalId
  <2> QED
    BY <1>1 DEF Project, ClusterInv, ResolutionTypeOK, Resolved
<1>3. ResolutionTypeOK'
  BY <1>2, ResolutionAssumption DEF ClusterInv, ResolutionTypeOK, Singletons, NothingBarred
<1>4. Partitioned'
  BY <1>2 DEF Partitioned, Singletons
<1> QED
  BY <1>2, <1>3, <1>4 DEF ClusterInv, BarsAreExact, NothingForbiddenInside,
     TakenAreSettled

LEMMA DecideStep ==
  ASSUME ClusterInv, NEW p \in Pair, NEW v \in Verdict, NEW s \in 0..MaxScore,
         NEW d \in 1..MaxDate, Decide(p, v, s, d)
  PROVE  ClusterInv'
<1>1. effective' \in [Pair -> Judgement]
  BY DEF Decide, ClusterInv, ResolutionTypeOK, Judgement
<1>2. ResolutionTypeOK'
  BY <1>1 DEF Decide, ClusterInv, ResolutionTypeOK, clustering
<1> QED
  BY <1>2 DEF Decide, ClusterInv, Partitioned, BarsAreExact, NothingForbiddenInside,
     TakenAreSettled, clustering

\* Steps that leave the loop's data alone.
LEMMA SameDataStep ==
  ASSUME ClusterInv,
         UNCHANGED <<effective, clustering, stamps, resolvesTo, decisions>>,
         pc' = pc \/ (pc = "merging" /\ pc' = "clustered" /\ left = {})
  PROVE  ClusterInv'
<1>1. /\ (\A x : Forbidden(x)' = Forbidden(x))
      /\ SameEdges(minScore)' = SameEdges(minScore)
      /\ UNCHANGED <<effective, minScore, left, comp, barred, blocked, stamps,
                    resolvesTo, decisions>>
  BY DEF Forbidden, Judged, SameEdges, clustering
<1>2. ResolutionTypeOK' /\ Partitioned'
  BY <1>1 DEF ClusterInv, ResolutionTypeOK, Partitioned
<1>3. BarsAreExact' /\ NothingForbiddenInside'
  BY <1>1 DEF ClusterInv, BarsAreExact, NothingForbiddenInside
<1>4. TakenAreSettled'
  BY <1>1 DEF ClusterInv, TakenAreSettled, Separated
<1> QED
  BY <1>1, <1>2, <1>3, <1>4 DEF ClusterInv

LEMMA ClusterStep == ClusterInv /\ [ResolutionNext]_resolutionVars => ClusterInv'
<1> SUFFICES ASSUME ClusterInv, [ResolutionNext]_resolutionVars PROVE ClusterInv'
  OBVIOUS
<1>1. CASE FinishClustering
  BY <1>1, SameDataStep DEF FinishClustering
<1>2. CASE UNCHANGED resolutionVars
  <2>1. UNCHANGED <<effective, clustering, stamps, resolvesTo, decisions>>
    BY <1>2 DEF resolutionVars, clustering
  <2>2. pc' = pc \/ (pc = "merging" /\ pc' = "clustered" /\ left = {})
    BY <1>2 DEF resolutionVars
  <2> QED
    BY <2>1, <2>2, SameDataStep
<1>3. ASSUME NEW p \in Pair, NEW v \in Verdict \ {"none"}, NEW s \in 0..MaxScore,
             NEW d \in 1..MaxDate, Decide(p, v, s, d)
      PROVE  ClusterInv'
  BY <1>3, DecideStep
<1>4. ASSUME NEW m \in 0..MaxScore, BeginClustering(m) PROVE ClusterInv'
  BY <1>4, BeginStep
<1>5. ASSUME NEW e \in Pair, Skip(e) \/ Refuse(e) \/ Unite(e) PROVE ClusterInv'
  BY <1>5, SkipStep, RefuseStep, UniteStep
<1>6. CASE Project
  BY <1>6, ProjectStep
<1> QED
  BY <1>1, <1>2, <1>3, <1>4, <1>5, <1>6 DEF ResolutionNext

\* The invariant of the clustering loop.
THEOREM ClusterInvariant == ResolutionSpec => []ClusterInv
BY ClusterInit, ClusterStep, PTL DEF ResolutionSpec

\* The types of the log, of the loop and of what is projected.
THEOREM ResolutionTypes == ResolutionSpec => []ResolutionTypeOK
<1>1. ClusterInv => ResolutionTypeOK
  BY DEF ClusterInv
<1> QED
  BY <1>1, ClusterInvariant, PTL

\* However the judgements chain, no cluster holds two entities judged
\* different, and the clusters partition the entities.
THEOREM MergeResistance == ResolutionSpec => []MergeResistant
<1>1. ClusterInv => MergeResistant
  BY DEF ClusterInv, MergeResistant, Partitioned, NothingForbiddenInside
<1> QED
  BY <1>1, ClusterInvariant, PTL

\* Every same edge over the threshold ends inside one cluster or is reported
\* as blocked, with a different judgement between the clusters of its ends.
THEOREM SameEdgesAreSettled == ResolutionSpec => []SameEdgesSettled
<1>1. ClusterInv => SameEdgesSettled
  BY DEF ClusterInv, SameEdgesSettled, TakenAreSettled, SameEdges, Judged, Separated
<1> QED
  BY <1>1, ClusterInvariant, PTL

\* A stamped entity pins its id, so its cluster is given a stamp of a member.
LEMMA StampsArePinned ==
  ASSUME ClusterInv, NEW x \in Entity, stamps[x] # NoId
  PROVE  \E y \in comp[x] : stamps[y] = CanonicalId(x)
<1>1. comp[x] \subseteq Entity /\ x \in comp[x]
  BY DEF ClusterInv, ResolutionTypeOK, Partitioned
<1>2. Pinned(comp[x]) \subseteq Entity /\ Pinned(comp[x]) # {}
  BY <1>1 DEF ClusterInv, ResolutionTypeOK, Pinned
<1>3. CanonicalId(x) = FirstId(Pinned(comp[x]))
  BY <1>2 DEF CanonicalId, Mint
<1>4. CanonicalId(x) \in Pinned(comp[x])
  BY <1>2, <1>3, FirstIdType
<1> QED
  BY <1>4 DEF Pinned

LEMMA BookmarkStep ==
  ASSUME ClusterInv, [ResolutionNext]_resolutionVars, NEW x \in Entity,
         stamps[x] # NoId, stamps'[x] # stamps[x]
  PROVE  \E y \in comp[x] : y # x /\ stamps[y] = stamps'[x]
<1>1. CASE Project
  <2>1. stamps'[x] = CanonicalId(x)
    <3> HIDE DEF CanonicalId
    <3> QED
      BY <1>1 DEF Project
  <2>2. PICK y \in comp[x] : stamps[y] = CanonicalId(x)
    BY StampsArePinned
  <2> QED
    BY <2>1, <2>2
<1>2. CASE stamps' = stamps
  BY <1>2
<1>3. Project \/ stamps' = stamps
  BY DEF ResolutionNext, resolutionVars, Decide, BeginClustering, Skip, Refuse, Unite, FinishClustering
<1> QED
  BY <1>1, <1>2, <1>3

\* A bookmark is redirected only into its own cluster: an id that was stamped
\* is replaced by the stamped id of another member and by nothing else.
THEOREM Bookmarks == ResolutionSpec => BookmarksStable
<1>1. ClusterInv /\ [ResolutionNext]_resolutionVars =>
        [\A x \in Entity :
           stamps[x] # NoId /\ stamps'[x] # stamps[x]
             => \E y \in comp[x] : y # x /\ stamps[y] = stamps'[x]]_resolutionVars
  BY BookmarkStep
<1> QED
  BY <1>1, ClusterInvariant, PTL DEF ResolutionSpec, BookmarksStable
=============================================================================
