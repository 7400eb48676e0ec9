-------------------------- MODULE GraphJobsProofs --------------------------
(***************************************************************************)
(* What the jobs keep of the snapshot and of the log, for any number of    *)
(* processes, companies, people, runs and kills.                           *)
(***************************************************************************)
EXTENDS GraphJobs, WellFoundedInduction, TLAPS

\* The node coverage mints for a company is older than its tracked node.
Enriched(g) ==
  \A c \in Companies : \A i, j \in DOMAIN g.nodes[c] :
    g.nodes[c][i] = "slug" /\ g.nodes[c][j] = "cik" => j < i

\* The node of a tracked company has its CIK, so the index by CIK finds it.
Anchors(g) ==
  \A c \in Companies : Present(g, <<"slug", c>>) => g.props[<<"slug", c>>].cik

Good(g) == g \in Graph /\ Distinct(g) /\ Enriched(g) /\ Anchors(g)

GraphsGood == Good(snapshot.graph) /\ \A p \in Processes : Good(proc[p].graph)

\* While no other job has saved, a job that did not start clean has all that the
\* snapshot has.
Fresh(p) ==
  /\ proc[p].pc \in {"loaded", "computed", "writing"}
  /\ proc[p].job # "full" /\ proc[p].base = snapshot.version

NothingLost == \A p \in Processes : Fresh(p) => Facts(snapshot.graph) \subseteq Facts(proc[p].graph)

\* The subjects that have a judgement, had one that was lost, or will get one
\* from a job that has saved its graph and not yet its log.
Recorded == JudgedSame(judgements.log) \cup unjudged
Saving == {q \in Processes : proc[q].pc \in {"saved", "logging"}}
Vouched == Recorded \cup UNION {JudgedSame(proc[q].log) : q \in Saving}

LogAgrees ==
  /\ Confirmed(snapshot.graph) \subseteq Vouched
  /\ \A p \in Processes :
       /\ Confirmed(proc[p].graph) \subseteq Vouched \cup JudgedSame(proc[p].log)
       /\ JudgedSame(proc[p].log) \subseteq Recorded \cup Confirmed(proc[p].graph)
       /\ ~UsesLog(proc[p].job) => proc[p].log = {}
       /\ proc[p].pc \in {"idle", "loaded"} => proc[p].log = {}

JobsInv == TypeOK /\ GraphsGood /\ NothingLost /\ LogAgrees
-----------------------------------------------------------------------------
(* The store *)

\* A set of natural numbers has a least one.
LEMMA LeastExists ==
  ASSUME NEW S \in SUBSET Nat, S # {}
  PROVE  \E n \in S : \A m \in S : n <= m
<1>1. \E n \in S : \A m \in S : <<m, n>> \notin OpToRel(<, Nat)
  BY NatLessThanWellFounded, WFMin, Zenon
<1>2. \A m, n \in S : <<m, n>> \notin OpToRel(<, Nat) => n <= m
  BY DEF OpToRel
<1> QED BY <1>1, <1>2

\* The index of the company's nodes that are in S holds its first one.
LEMMA FirstOfSpec ==
  ASSUME NEW g \in Graph, NEW c \in Companies, NEW S
  PROVE  /\ \A k \in FirstOf(g, c, S) :
              k \in S /\ k \in Key /\ k[2] = c /\ Present(g, k)
         /\ \A o \in Origin : Present(g, <<o, c>>) /\ <<o, c>> \in S => FirstOf(g, c, S) # {}
<1> DEFINE at == {i \in DOMAIN g.nodes[c] : <<g.nodes[c][i], c>> \in S}
<1>1. g.nodes[c] \in Seq(Origin) BY DEF Graph
<1>2. at \in SUBSET Nat BY <1>1
<1>3. ASSUME NEW k \in FirstOf(g, c, S)
      PROVE  k \in S /\ k \in Key /\ k[2] = c /\ Present(g, k)
  <2>1. PICK i \in at : k = <<g.nodes[c][i], c>> BY <1>3 DEF FirstOf
  <2>2. i \in DOMAIN g.nodes[c] /\ g.nodes[c][i] \in Origin BY <2>1, <1>1
  <2> QED BY <2>1, <2>2 DEF Key, Present
<1>4. ASSUME NEW o \in Origin, Present(g, <<o, c>>), <<o, c>> \in S
      PROVE  FirstOf(g, c, S) # {}
  <2>1. at # {} BY <1>4 DEF Present
  <2>2. PICK n \in at : \A m \in at : n <= m BY <1>2, <2>1, LeastExists
  <2>3. <<g.nodes[c][n], c>> \in FirstOf(g, c, S) BY <2>2 DEF FirstOf
  <2> QED BY <2>3
<1> QED BY <1>3, <1>4

\* Placing a node keeps the others where they are and adds it at the end or not.
LEMMA PlacedSpec ==
  ASSUME NEW g \in Graph, NEW o \in Origin, NEW c \in Companies
  PROVE  LET s == g.nodes[c]
             t == Placed(g, <<o, c>>)
         IN /\ t \in Seq(Origin)
            /\ Present(g, <<o, c>>) => t = s
            /\ ~Present(g, <<o, c>>) => t = Append(s, o) /\ \A i \in DOMAIN s : s[i] # o
<1>1. <<o, c>>[1] = o /\ <<o, c>>[2] = c OBVIOUS
<1>2. g.nodes[c] \in Seq(Origin) BY DEF Graph
<1> QED BY <1>1, <1>2 DEF Placed, Present

\* A graph stays good when each company's list stays or gets one node, which is
\* no coverage node where the tracked one is, and CIKs of tracked nodes stay.
LEMMA GoodStep ==
  ASSUME NEW g, Good(g), NEW h \in Graph,
         \A c \in Companies :
           \/ h.nodes[c] = g.nodes[c]
           \/ \E o \in Origin :
                /\ h.nodes[c] = Placed(g, <<o, c>>)
                /\ o = "cik" /\ ~Present(g, <<"cik", c>>) => ~Present(g, <<"slug", c>>)
                /\ o = "slug" => h.props[<<"slug", c>>].cik,
         \A c \in Companies : g.props[<<"slug", c>>].cik => h.props[<<"slug", c>>].cik
  PROVE  Good(h)
<1> SUFFICES ASSUME NEW c \in Companies
             PROVE  /\ \A i, j \in DOMAIN h.nodes[c] :
                         /\ h.nodes[c][i] = h.nodes[c][j] => i = j
                         /\ h.nodes[c][i] = "slug" /\ h.nodes[c][j] = "cik" => j < i
                    /\ Present(h, <<"slug", c>>) => h.props[<<"slug", c>>].cik
  BY DEF Good, Distinct, Enriched, Anchors
<1> DEFINE s == g.nodes[c]  t == h.nodes[c]
<1>1. /\ s \in Seq(Origin) /\ t \in Seq(Origin)
      /\ \A i, j \in DOMAIN s : s[i] = s[j] => i = j
      /\ \A i, j \in DOMAIN s : s[i] = "slug" /\ s[j] = "cik" => j < i
      /\ Present(g, <<"slug", c>>) => g.props[<<"slug", c>>].cik
  BY DEF Good, Graph, Distinct, Enriched, Anchors
<1>2. CASE t = s
  BY <1>1, <1>2 DEF Present
<1>3. CASE t # s
  <2>1. PICK o \in Origin :
          /\ t = Placed(g, <<o, c>>)
          /\ o = "cik" /\ ~Present(g, <<"cik", c>>) => ~Present(g, <<"slug", c>>)
          /\ o = "slug" => h.props[<<"slug", c>>].cik
    BY <1>3
  <2>3. ~Present(g, <<o, c>>) /\ t = Append(s, o) /\ \A i \in DOMAIN s : s[i] # o
    BY <1>3, <2>1, PlacedSpec DEF Good
  <2>4. DOMAIN s = 1..Len(s) /\ DOMAIN t = 1..(Len(s) + 1) /\ Len(s) \in Nat
    BY <1>1, <2>3
  <2>5. t[Len(s) + 1] = o /\ \A i \in DOMAIN s : t[i] = s[i] /\ i < Len(s) + 1
    BY <1>1, <2>3, <2>4
  <2>6. o = "cik" => \A i \in DOMAIN s : s[i] # "slug"
    BY <2>1, <2>3 DEF Present
  <2>7. \A i, j \in DOMAIN t : t[i] = t[j] => i = j
    BY <1>1, <2>3, <2>4, <2>5
  <2>8. ASSUME NEW i \in DOMAIN t, NEW j \in DOMAIN t, t[i] = "slug", t[j] = "cik"
        PROVE  j < i
    <3>1. CASE i = Len(s) + 1
      <4>1. j # Len(s) + 1
        BY <2>5, <2>8, <3>1
      <4> QED BY <2>4, <3>1, <4>1
    <3>2. CASE i # Len(s) + 1
      <4>1. i \in DOMAIN s
        BY <2>4, <3>2
      <4>2. s[i] = "slug"
        BY <2>5, <2>8, <4>1
      <4>3. j # Len(s) + 1
        BY <2>5, <2>6, <2>8, <4>1, <4>2
      <4>4. j \in DOMAIN s
        BY <2>4, <4>3
      <4>5. s[j] = "cik"
        BY <2>5, <2>8, <4>4
      <4> QED BY <1>1, <4>1, <4>2, <4>4, <4>5
    <3> QED BY <3>1, <3>2
  <2>9. Present(h, <<"slug", c>>) => o = "slug" \/ Present(g, <<"slug", c>>)
    <3>1. ASSUME NEW i \in DOMAIN t, t[i] = "slug", i # Len(s) + 1
          PROVE  i \in DOMAIN s /\ s[i] = "slug"
      BY <3>1, <2>4, <2>5
    <3>2. <<"slug", c>>[1] = "slug" /\ <<"slug", c>>[2] = c OBVIOUS
    <3> QED BY <3>1, <3>2, <2>5 DEF Present
  <2>10. Present(h, <<"slug", c>>) => h.props[<<"slug", c>>].cik
    BY <1>1, <2>1, <2>9
  <2> QED BY <2>7, <2>8, <2>10
<1> QED BY <1>2, <1>3
-----------------------------------------------------------------------------
(* The projections: each maps good graphs to good graphs, and keeps every  *)
(* edge.                                                                   *)

LEMMA EmptyGood == Good(EmptyGraph) /\ Facts(EmptyGraph) = {} /\ Confirmed(EmptyGraph) = {}
<1>1. EmptyGraph \in Graph
  BY JobsAssumption DEF EmptyGraph, Graph, Bare, Properties
<1>2. EmptyGraph.edges = {} /\ \A k \in Key : EmptyGraph.holds[k] = 0
  BY DEF EmptyGraph
<1>3. \A c \in Companies : EmptyGraph.nodes[c] = <<>>
  BY DEF EmptyGraph
<1> QED BY <1>1, <1>2, <1>3 DEF Good, Distinct, Enriched, Anchors, Present, Facts, Confirmed

\* What a projection keeps: graph h was projected from g, which was good.
Extends(h, g) == Good(h) /\ Facts(g) \subseteq Facts(h)

LEMMA IngestedGood ==
  ASSUME NEW g, Good(g), NEW cs \in SUBSET Companies
  PROVE  Extends(Ingested(g, cs), g) /\ Confirmed(Ingested(g, cs)) = Confirmed(g)
<1> DEFINE h == Ingested(g, cs)
<1>1. g \in Graph BY DEF Good
<1>2. \A c \in Companies : Placed(g, <<"slug", c>>) \in Seq(Origin)
  BY <1>1, PlacedSpec DEF Origin
<1>3. /\ h.nodes = [c \in Companies |-> IF c \in cs THEN Placed(g, <<"slug", c>>) ELSE g.nodes[c]]
      /\ h.props = [k \in Key |-> IF k[1] = "slug" /\ k[2] \in cs
                                   THEN [Bare EXCEPT !.cik = TRUE] ELSE g.props[k]]
      /\ h.edges = g.edges /\ h.holds = g.holds
  BY <1>1 DEF Graph, Ingested
<1>4. [Bare EXCEPT !.cik = TRUE] \in Properties /\ [Bare EXCEPT !.cik = TRUE].cik
  BY DEF Bare, Properties
<1>5. h \in Graph
  BY <1>1, <1>2, <1>4 DEF Graph, Ingested
<1>6. \A c \in Companies : <<"slug", c>> \in Key BY DEF Key, Origin
<1>7. \A c \in Companies : c \in cs => h.props[<<"slug", c>>].cik
  BY <1>3, <1>4, <1>6
<1>8. \A c \in Companies : g.props[<<"slug", c>>].cik => h.props[<<"slug", c>>].cik
  BY <1>3, <1>6, <1>7
<1>9. \A c \in Companies : c \in cs => h.nodes[c] = Placed(g, <<"slug", c>>)
  BY <1>3
<1>10. \A c \in Companies : c \notin cs => h.nodes[c] = g.nodes[c]
  BY <1>3
<1>11. Good(h)
  BY <1>5, <1>7, <1>8, <1>9, <1>10, GoodStep DEF Origin
<1>12. Facts(h) = Facts(g) /\ Confirmed(h) = Confirmed(g)
  BY <1>3 DEF Facts, Confirmed
<1> QED BY <1>11, <1>12 DEF Extends

LEMMA ScreenedGood ==
  ASSUME NEW g, Good(g), NEW yes \in SUBSET People, NEW unsure \in SUBSET People
  PROVE  /\ Extends(Screened(g, yes, unsure), g)
         /\ Confirmed(Screened(g, yes, unsure)) = Confirmed(g) \cup yes
<1> DEFINE h == Screened(g, yes, unsure)
<1>1. g \in Graph BY DEF Good
<1>2. /\ h.nodes = g.nodes /\ h.props = g.props /\ h.holds = g.holds
      /\ h.edges = g.edges \cup ({"confirmed"} \X yes) \cup ({"screening_candidate"} \X unsure)
  BY <1>1 DEF Graph, Screened
<1>3. h \in Graph BY <1>1 DEF Graph, Screened, Edge
<1>4. Good(h) BY <1>2, <1>3, GoodStep
<1>5. Facts(g) \subseteq Facts(h) BY <1>2 DEF Facts
<1>6. Confirmed(h) = Confirmed(g) \cup yes
  BY <1>2 DEF Confirmed, Subject
<1> QED BY <1>4, <1>5, <1>6 DEF Extends

LEMMA AnchoredGood ==
  ASSUME NEW g, Good(g), NEW yes \in SUBSET Key, NEW unsure \in SUBSET Key
  PROVE  /\ Extends(Anchored(g, yes, unsure), g)
         /\ Confirmed(Anchored(g, yes, unsure)) = Confirmed(g) \cup yes
<1> DEFINE h == Anchored(g, yes, unsure)
<1>1. g \in Graph BY DEF Good
<1>2. /\ h.nodes = g.nodes /\ h.holds = g.holds
      /\ h.props = [k \in Key |-> IF k \in yes THEN [g.props[k] EXCEPT !.lei = TRUE]
                                                ELSE g.props[k]]
      /\ h.edges = g.edges \cup ({"has_lei"} \X yes) \cup ({"lei_candidate"} \X unsure)
  BY <1>1 DEF Graph, Anchored
<1>3. \A k \in Key : g.props[k] \in Properties /\ [g.props[k] EXCEPT !.lei = TRUE] \in Properties
  BY <1>1 DEF Graph, Properties
<1>4. h \in Graph BY <1>1, <1>3 DEF Graph, Anchored, Edge
<1>5. \A k \in Key : h.props[k].cik = g.props[k].cik
  BY <1>2, <1>3 DEF Properties
<1>6. \A c \in Companies : <<"slug", c>> \in Key BY DEF Key, Origin
<1>7. Good(h) BY <1>2, <1>4, <1>5, <1>6, GoodStep
<1>8. Facts(g) \subseteq Facts(h) BY <1>2 DEF Facts
<1>9. Confirmed(h) = Confirmed(g) \cup yes
  BY <1>2 DEF Confirmed, Subject
<1> QED BY <1>7, <1>8, <1>9 DEF Extends

\* Coverage finds the tracked node of a company that has one.
LEMMA IssuerSpec ==
  ASSUME NEW g, Good(g), NEW c \in Companies
  PROVE  \E o \in Origin :
           /\ Issuer(g, c) = <<o, c>>
           /\ o = "cik" /\ ~Present(g, <<"cik", c>>) => ~Present(g, <<"slug", c>>)
           /\ o = "slug" => g.props[<<"slug", c>>].cik
<1> DEFINE known == FirstOf(g, c, CikNodes(g))
<1>1. g \in Graph BY DEF Good
<1>2. /\ \A k \in known : k \in CikNodes(g) /\ k \in Key /\ k[2] = c /\ Present(g, k)
      /\ \A o \in Origin : Present(g, <<o, c>>) /\ <<o, c>> \in CikNodes(g) => known # {}
  BY <1>1, FirstOfSpec
<1>3. CASE known = {}
  <2>1. Issuer(g, c) = <<"cik", c>> BY <1>3 DEF Issuer
  <2>2. <<"slug", c>> \in Key /\ "slug" \in Origin /\ "cik" \in Origin BY DEF Key, Origin
  <2>3. Present(g, <<"slug", c>>) => <<"slug", c>> \in CikNodes(g)
    BY <2>2 DEF CikNodes, Good, Anchors
  <2>4. ~Present(g, <<"slug", c>>) BY <1>2, <1>3, <2>2, <2>3
  <2> QED BY <2>1, <2>2, <2>4
<1>4. CASE known # {}
  <2>1. Issuer(g, c) \in known BY <1>4 DEF Issuer
  <2>2. PICK o \in Origin : Issuer(g, c) = <<o, c>>
    BY <1>2, <2>1 DEF Key
  <2>3. Present(g, <<o, c>>) /\ <<o, c>> \in CikNodes(g) BY <1>2, <2>1, <2>2
  <2> QED BY <2>2, <2>3 DEF CikNodes
<1> QED BY <1>3, <1>4

LEMMA CoveredGood ==
  ASSUME NEW g, Good(g), NEW cs \in SUBSET Companies
  PROVE  Extends(Covered(g, cs), g) /\ Confirmed(Covered(g, cs)) = Confirmed(g)
<1> DEFINE h == Covered(g, cs)
<1>1. g \in Graph BY DEF Good
<1>2. /\ h.nodes = [c \in Companies |-> IF c \in cs THEN Placed(g, Issuer(g, c)) ELSE g.nodes[c]]
      /\ h.props = [k \in Key |->
                      IF k[2] \in cs /\ k = Issuer(g, k[2])
                        THEN [g.props[k] EXCEPT !.cik = TRUE, !.universe = TRUE] ELSE g.props[k]]
      /\ h.edges = g.edges /\ h.holds = g.holds
  BY <1>1 DEF Graph, Covered
<1>3. \A k \in Key : /\ g.props[k] \in Properties
                     /\ [g.props[k] EXCEPT !.cik = TRUE, !.universe = TRUE] \in Properties
                     /\ [g.props[k] EXCEPT !.cik = TRUE, !.universe = TRUE].cik
  BY <1>1 DEF Graph, Properties
<1>4. ASSUME NEW c \in Companies PROVE Placed(g, Issuer(g, c)) \in Seq(Origin)
  <2>1. PICK o \in Origin : Issuer(g, c) = <<o, c>> BY IssuerSpec
  <2> QED BY <1>1, <2>1, PlacedSpec
<1>5. h \in Graph BY <1>1, <1>3, <1>4 DEF Graph, Covered
<1>6. \A c \in Companies : <<"slug", c>> \in Key BY DEF Key, Origin
<1>7. \A k \in Key : g.props[k].cik => h.props[k].cik BY <1>2, <1>3
<1>8. \A c \in Companies : c \notin cs => h.nodes[c] = g.nodes[c] BY <1>2
<1>9. ASSUME NEW c \in Companies, c \in cs
      PROVE  \E o \in Origin :
               /\ h.nodes[c] = Placed(g, <<o, c>>)
               /\ o = "cik" /\ ~Present(g, <<"cik", c>>) => ~Present(g, <<"slug", c>>)
               /\ o = "slug" => h.props[<<"slug", c>>].cik
  <2>1. h.nodes[c] = Placed(g, Issuer(g, c)) BY <1>2, <1>9
  <2> QED BY <1>6, <1>7, <2>1, IssuerSpec
<1>10. Good(h) BY <1>5, <1>6, <1>7, <1>8, <1>9, GoodStep
<1>11. Facts(h) = Facts(g) /\ Confirmed(h) = Confirmed(g) BY <1>2 DEF Facts, Confirmed
<1> QED BY <1>10, <1>11 DEF Extends

\* Ownership attaches a statement to a node with the LEI, or mints one for it.
LEMMA SubjectedSpec ==
  ASSUME NEW g \in Graph, NEW c \in Companies
  PROVE  \E o \in Origin : /\ Subjected(g, c) = <<o, c>>
                            /\ (o = "lei" \/ Present(g, <<o, c>>))
<1> DEFINE known == FirstOf(g, c, LeiNodes(g))
<1>1. \A k \in known : k \in Key /\ k[2] = c /\ Present(g, k)
  BY FirstOfSpec
<1>2. CASE known = {}
  BY <1>2 DEF Subjected, Origin
<1>3. CASE known # {}
  <2>1. Subjected(g, c) \in known BY <1>3 DEF Subjected
  <2>2. Subjected(g, c) \in Key /\ Subjected(g, c)[2] = c /\ Present(g, Subjected(g, c))
    BY <1>1, <2>1
  <2>3. PICK o \in Origin : Subjected(g, c) = <<o, c>> BY <2>2 DEF Key
  <2> QED BY <2>2, <2>3
<1> QED BY <1>2, <1>3

LEMMA OwnedGood ==
  ASSUME NEW g, Good(g), NEW cs \in SUBSET Companies
  PROVE  Extends(Owned(g, cs), g) /\ Confirmed(Owned(g, cs)) = Confirmed(g)
<1> DEFINE h == Owned(g, cs)
           subjects == {Subjected(g, c) : c \in cs}
<1>1. g \in Graph BY DEF Good
<1>2. /\ h.nodes = [c \in Companies |-> IF c \in cs THEN Placed(g, Subjected(g, c)) ELSE g.nodes[c]]
      /\ h.props = [k \in Key |-> IF k \in subjects THEN [g.props[k] EXCEPT !.lei = TRUE]
                                                     ELSE g.props[k]]
      /\ h.edges = g.edges \cup ({"owns"} \X subjects) /\ h.holds = g.holds
  BY <1>1 DEF Graph, Owned
<1>3. \A k \in Key : g.props[k] \in Properties /\ [g.props[k] EXCEPT !.lei = TRUE] \in Properties
  BY <1>1 DEF Graph, Properties
<1>4. ASSUME NEW c \in Companies
      PROVE  Placed(g, Subjected(g, c)) \in Seq(Origin) /\ Subjected(g, c) \in Key
  <2>1. PICK o \in Origin : Subjected(g, c) = <<o, c>> BY <1>1, SubjectedSpec
  <2>2. Placed(g, <<o, c>>) \in Seq(Origin) BY <1>1, PlacedSpec
  <2>3. <<o, c>> \in Key BY DEF Key
  <2> QED BY <2>1, <2>2, <2>3
<1>5. subjects \subseteq Key BY <1>4
<1>6. h \in Graph BY <1>1, <1>3, <1>4, <1>5 DEF Graph, Owned, Edge
<1>7. \A k \in Key : h.props[k].cik = g.props[k].cik
  BY <1>2, <1>3 DEF Properties
<1>8. \A c \in Companies : <<"slug", c>> \in Key BY DEF Key, Origin
<1>9. ASSUME NEW c \in Companies, c \in cs
      PROVE  \/ h.nodes[c] = g.nodes[c]
             \/ \E o \in Origin : /\ h.nodes[c] = Placed(g, <<o, c>>)
                                  /\ o # "cik" /\ o # "slug"
  <2>1. h.nodes[c] = Placed(g, Subjected(g, c)) BY <1>2, <1>9
  <2>2. PICK o \in Origin : Subjected(g, c) = <<o, c>> /\ (o = "lei" \/ Present(g, <<o, c>>))
    BY <1>1, SubjectedSpec
  <2>3. CASE o = "lei" BY <2>1, <2>2, <2>3
  <2>4. CASE Present(g, <<o, c>>) BY <1>1, <2>1, <2>2, <2>4, PlacedSpec
  <2> QED BY <2>2, <2>3, <2>4
<1>10. \A c \in Companies : c \notin cs => h.nodes[c] = g.nodes[c] BY <1>2
<1>11. Good(h) BY <1>6, <1>7, <1>8, <1>9, <1>10, GoodStep
<1>12. Facts(g) \subseteq Facts(h) BY <1>2 DEF Facts
<1>13. Confirmed(h) = Confirmed(g) BY <1>2 DEF Confirmed
<1> QED BY <1>11, <1>12, <1>13 DEF Extends

LEMMA HeldGood ==
  ASSUME NEW g, Good(g), NEW cs \in SUBSET Companies, NEW n \in 0..MaxPeriod
  PROVE  Extends(Held(g, cs, n), g) /\ Confirmed(Held(g, cs, n)) = Confirmed(g)
<1> DEFINE h == Held(g, cs, n)
           positions == UNION {FirstOf(g, c, Key) : c \in cs}
<1>1. g \in Graph BY DEF Good
<1>2. /\ h.nodes = g.nodes /\ h.props = g.props /\ h.edges = g.edges
      /\ h.holds = [k \in Key |-> IF k \in positions /\ g.holds[k] = 0 THEN n ELSE g.holds[k]]
  BY <1>1 DEF Graph, Held
<1>3. h \in Graph BY <1>1, <1>2 DEF Graph, Held
<1>4. Good(h) BY <1>2, <1>3, GoodStep
<1>5. \A k \in Key : g.holds[k] # 0 => h.holds[k] # 0 BY <1>2
<1>6. Facts(g) \subseteq Facts(h) BY <1>2, <1>5 DEF Facts
<1>7. Confirmed(h) = Confirmed(g) BY <1>2 DEF Confirmed
<1> QED BY <1>4, <1>6, <1>7 DEF Extends
-----------------------------------------------------------------------------
(* The steps *)

\* What all seven jobs have in common when they compute: an extended graph, and
\* in the log a judgement for every edge they confirm.
Computes(p, g, l, yes) ==
  /\ At(p, "loaded") /\ Compute(p, g, l)
  /\ Extends(g, proc[p].graph) /\ Confirmed(g) = Confirmed(proc[p].graph) \cup yes
  /\ l \in SUBSET LogEntry
  /\ JudgedSame(l) \subseteq JudgedSame(judgements.log) \cup yes /\ yes \subseteq JudgedSame(l)
  /\ ~UsesLog(proc[p].job) => l = {}

Runs(p) ==
  \/ RunIngestion(p)
  \/ \E yes, unsure \in SUBSET People : RunScreening(p, yes, unsure)
  \/ \E yes, unsure \in SUBSET Key : RunAnchor(p, yes, unsure)
  \/ \E cs \in SUBSET Companies : RunCoverage(p, cs) \/ RunOwnership(p, cs) \/ RunPortfolio(p, cs)

LEMMA DecidedSpec ==
  ASSUME NEW log \in SUBSET LogEntry, NEW yes \in SUBSET Subject, NEW unsure \in SUBSET Subject
  PROVE  /\ Decided(log, yes, unsure) \in SUBSET LogEntry
         /\ JudgedSame(Decided(log, yes, unsure)) = JudgedSame(log) \cup yes
BY DEF Decided, LogEntry, JudgedSame

LEMMA NothingJudged == JudgedSame({}) = {} /\ {} \in SUBSET LogEntry
BY DEF JudgedSame

LEMMA RunsCompute ==
  ASSUME TypeOK, GraphsGood, NEW p \in Processes, Runs(p)
  PROVE  \E g, l, yes : Computes(p, g, l, yes)
<1> DEFINE old == proc[p].graph
<1>1. /\ Good(old) /\ old \in Graph /\ judgements.log \in SUBSET LogEntry
      /\ proc[p].companies \in SUBSET Companies /\ proc[p].filed \in 0..MaxPeriod
  BY DEF TypeOK, GraphsGood, Good, Process
<1>2. People \subseteq Subject /\ Key \subseteq Subject BY DEF Subject
<1>3. CASE RunIngestion(p)
  <2>1. Computes(p, Ingested(old, proc[p].companies), {}, {})
    BY <1>1, <1>3, IngestedGood, NothingJudged DEF RunIngestion, Doing, Computes
  <2> QED BY <2>1
<1>4. ASSUME NEW yes \in SUBSET People, NEW unsure \in SUBSET People, RunScreening(p, yes, unsure)
      PROVE  \E g, l, y : Computes(p, g, l, y)
  <2> DEFINE g == Screened(old, yes, unsure)
             l == Decided(judgements.log, yes, unsure)
  <2>1. At(p, "loaded") /\ Compute(p, g, l) /\ UsesLog(proc[p].job)
    BY <1>4 DEF RunScreening, Doing, UsesLog
  <2>2. Extends(g, old) /\ Confirmed(g) = Confirmed(old) \cup yes
    BY <1>1, ScreenedGood
  <2>3. l \in SUBSET LogEntry /\ JudgedSame(l) = JudgedSame(judgements.log) \cup yes
    BY <1>1, <1>2, DecidedSpec
  <2>4. Computes(p, g, l, yes) BY <2>1, <2>2, <2>3 DEF Computes
  <2> QED BY <2>4
<1>5. ASSUME NEW yes \in SUBSET Key, NEW unsure \in SUBSET Key, RunAnchor(p, yes, unsure)
      PROVE  \E g, l, y : Computes(p, g, l, y)
  <2> DEFINE g == Anchored(old, yes, unsure)
             l == Decided(judgements.log, yes, unsure)
  <2>1. At(p, "loaded") /\ Compute(p, g, l) /\ UsesLog(proc[p].job)
    BY <1>5 DEF RunAnchor, Doing, UsesLog
  <2>2. Extends(g, old) /\ Confirmed(g) = Confirmed(old) \cup yes
    BY <1>1, AnchoredGood
  <2>3. l \in SUBSET LogEntry /\ JudgedSame(l) = JudgedSame(judgements.log) \cup yes
    BY <1>1, <1>2, DecidedSpec
  <2>4. Computes(p, g, l, yes) BY <2>1, <2>2, <2>3 DEF Computes
  <2> QED BY <2>4
<1>6. ASSUME NEW cs \in SUBSET Companies, RunCoverage(p, cs)
      PROVE  \E g, l, y : Computes(p, g, l, y)
  <2>1. Computes(p, Covered(old, cs), {}, {})
    BY <1>1, <1>6, CoveredGood, NothingJudged DEF RunCoverage, Doing, Computes
  <2> QED BY <2>1
<1>7. ASSUME NEW cs \in SUBSET Companies, RunOwnership(p, cs)
      PROVE  \E g, l, y : Computes(p, g, l, y)
  <2>1. Computes(p, Owned(old, cs), {}, {})
    BY <1>1, <1>7, OwnedGood, NothingJudged DEF RunOwnership, Doing, Computes
  <2> QED BY <2>1
<1>8. ASSUME NEW cs \in SUBSET Companies, RunPortfolio(p, cs)
      PROVE  \E g, l, y : Computes(p, g, l, y)
  <2>1. Computes(p, Held(old, cs, proc[p].filed), {}, {})
    BY <1>1, <1>8, HeldGood, NothingJudged DEF RunPortfolio, Doing, Computes
  <2> QED BY <2>1
<1> QED BY <1>3, <1>4, <1>5, <1>6, <1>7, <1>8 DEF Runs

\* The kinds of step, once the job is left out.
Steps(p) ==
  \/ \E j \in Jobs : Load(p, j)
  \/ \E g, l, yes : Computes(p, g, l, yes)
  \/ GiveUp(p) \/ TruncateGraph(p) \/ WriteGraph(p) \/ TruncateLog(p) \/ WriteLog(p)
  \/ Kill(p)

LEMMA NextSteps ==
  ASSUME TypeOK, GraphsGood, Next
  PROVE  \/ \E p \in Processes : Steps(p)
         \/ \E c \in Companies : Onboard(c)
         \/ NextPeriod
<1>1. ASSUME NEW p \in Processes, Runs(p)
      PROVE  Steps(p)
  BY <1>1, RunsCompute DEF Steps
<1> QED BY <1>1 DEF Next, Steps, Runs
-----------------------------------------------------------------------------
(* The invariant *)

LEMMA IdleProcess == Idle \in Process /\ Good(Idle.graph) /\ Idle.log = {}
<1>1. EmptyGraph \in Graph BY EmptyGood DEF Good
<1>2. Idle \in Process BY <1>1, JobsAssumption DEF Idle, Process, Stage
<1> QED BY <1>2, EmptyGood DEF Idle

LEMMA InitInv == Init => JobsInv
<1> SUFFICES ASSUME Init PROVE JobsInv
  OBVIOUS
<1> USE DEF Init
<1>1. \A p \in Processes : proc[p] = Idle
  OBVIOUS
<1>2. TypeOK
  BY <1>1, JobsAssumption, IdleProcess, EmptyGood DEF TypeOK, Good, Idle
<1>3. GraphsGood
  BY <1>1, IdleProcess, EmptyGood DEF GraphsGood
<1>4. NothingLost
  BY <1>1 DEF NothingLost, Fresh, Idle
<1>5. LogAgrees
  <2>1. Saving = {} BY <1>1 DEF Saving, Idle
  <2> QED BY <1>1, <2>1, EmptyGood, NothingJudged DEF LogAgrees, Idle
<1> QED BY <1>2, <1>3, <1>4, <1>5 DEF JobsInv

\* What a step of p does to the processes and the snapshot.
LEMMA TypeStep ==
  ASSUME TypeOK, GraphsGood, [Next]_vars
  PROVE  TypeOK' /\ GraphsGood'
<1> USE DEF TypeOK, GraphsGood
<1>0. \A p \in Processes : proc[p] \in Process /\ proc[p].graph \in Graph
  BY DEF Process
<1>1. ASSUME NEW p \in Processes, NEW j \in Jobs, Load(p, j)
      PROVE  TypeOK' /\ GraphsGood'
  <2> DEFINE q == [pc |-> "loaded", job |-> j, graph |-> BaseGraph(j), log |-> {},
                   base |-> snapshot.version,
                   companies |-> IF j \in {"due", "full"} THEN tracked ELSE {},
                   filed |-> IF j = "portfolio" THEN period ELSE 0]
  <2>1. Good(BaseGraph(j)) BY EmptyGood DEF BaseGraph
  <2>2. q \in Process /\ q.graph = BaseGraph(j) /\ q.base = snapshot.version
    BY <2>1, JobsAssumption DEF Process, Good, Stage
  <2>3. proc' = [proc EXCEPT ![p] = q] BY <1>1 DEF Load
  <2>4. runs' \in 0..MaxRuns BY <1>1, JobsAssumption DEF Load
  <2> QED BY <1>1, <2>1, <2>2, <2>3, <2>4 DEF Load, Good
<1>2. ASSUME NEW p \in Processes, NEW g, NEW l, NEW yes, Computes(p, g, l, yes)
      PROVE  TypeOK' /\ GraphsGood'
  <2> DEFINE q == [proc[p] EXCEPT !.pc = "computed", !.graph = g, !.log = l]
  <2>1. Good(g) /\ g \in Graph /\ l \in SUBSET LogEntry BY <1>2 DEF Computes, Extends, Good
  <2>2. q \in Process /\ q.graph = g /\ q.base = proc[p].base
    BY <1>0, <2>1 DEF Process, Stage
  <2>3. proc' = [proc EXCEPT ![p] = q] BY <1>2 DEF Computes, Compute
  <2> QED BY <1>2, <2>1, <2>2, <2>3 DEF Computes, Compute, Good
<1>3. ASSUME NEW p \in Processes, GiveUp(p)
      PROVE  TypeOK' /\ GraphsGood'
  BY <1>3, IdleProcess DEF GiveUp, Idle, Good
<1>4. ASSUME NEW p \in Processes, NEW stage \in Stage,
             proc' = [proc EXCEPT ![p].pc = stage]
      PROVE  /\ proc' \in [Processes -> Process]
             /\ \A q \in Processes : proc'[q].graph = proc[q].graph /\ proc'[q].base = proc[q].base
  BY <1>0, <1>4 DEF Process
<1>5. ASSUME NEW p \in Processes, TruncateGraph(p)
      PROVE  TypeOK' /\ GraphsGood'
  <2>1. "writing" \in Stage BY DEF Stage
  <2> QED BY <1>4, <1>5, <2>1 DEF TruncateGraph
<1>6. ASSUME NEW p \in Processes, TruncateLog(p)
      PROVE  TypeOK' /\ GraphsGood'
  <2>1. "logging" \in Stage BY DEF Stage
  <2> QED BY <1>4, <1>6, <2>1 DEF TruncateLog
<1>7. ASSUME NEW p \in Processes, WriteGraph(p)
      PROVE  TypeOK' /\ GraphsGood'
  <2>1. /\ snapshot'.graph = proc[p].graph /\ snapshot'.version = snapshot.version + 1
        /\ snapshot' \in [graph : Graph, readable : BOOLEAN, version : Nat]
        /\ overtaken' \subseteq Processes
        /\ \A q \in Processes : proc[q].base \in Nat /\ proc[q].base <= snapshot'.version
        /\ UNCHANGED <<judgements, tracked, period, runs, kills, unjudged>>
    <3>1. PICK whole \in WrittenBy(p) :
            snapshot' = [graph |-> proc[p].graph, readable |-> whole,
                         version |-> snapshot.version + 1]
      BY <1>7 DEF WriteGraph
    <3>2. whole \in BOOLEAN BY DEF WrittenBy
    <3>3. overtaken' = (overtaken \ {p}) \cup Others(p, "writing") BY <1>7 DEF WriteGraph
    <3>4. \A q \in Processes : proc[q].base \in Nat /\ proc[q].base <= snapshot.version + 1
      BY <1>0 DEF Process
    <3> QED BY <1>0, <1>7, <3>1, <3>2, <3>3, <3>4 DEF Others, WriteGraph
  <2>2. CASE UsesLog(proc[p].job)
    <3>1. proc' = [proc EXCEPT ![p].pc = "saved"] BY <1>7, <2>2 DEF WriteGraph
    <3>2. "saved" \in Stage BY DEF Stage
    <3> QED BY <1>4, <2>1, <3>1, <3>2
  <2>3. CASE ~UsesLog(proc[p].job)
    <3>1. proc' = [proc EXCEPT ![p] = Idle] BY <1>7, <2>3 DEF WriteGraph
    <3> QED BY <2>1, <3>1, IdleProcess DEF Idle, Good
  <2> QED BY <2>2, <2>3
<1>8. ASSUME NEW p \in Processes, WriteLog(p)
      PROVE  TypeOK' /\ GraphsGood'
  <2>1. judgements' \in [log : SUBSET LogEntry, readable : BOOLEAN]
    <3>1. PICK whole \in WrittenBy(p) : judgements' = [log |-> proc[p].log, readable |-> whole]
      BY <1>8 DEF WriteLog
    <3>2. whole \in BOOLEAN BY DEF WrittenBy
    <3> QED BY <1>0, <3>1, <3>2 DEF Process
  <2>2. unjudged' \subseteq Subject BY <1>8 DEF WriteLog, JudgedSame
  <2>3. proc' = [proc EXCEPT ![p] = Idle] BY <1>8 DEF WriteLog
  <2> QED BY <1>8, <2>1, <2>2, <2>3, IdleProcess DEF WriteLog, Others, Idle, Good
<1>9. ASSUME NEW p \in Processes, Kill(p)
      PROVE  TypeOK' /\ GraphsGood'
  <2>1. unjudged' \subseteq Subject BY <1>9 DEF Kill, Confirmed
  <2>2. kills' \in 0..MaxKills BY <1>9, JobsAssumption DEF Kill
  <2>3. proc' = [proc EXCEPT ![p] = Idle] BY <1>9 DEF Kill
  <2> QED BY <1>9, <2>1, <2>2, <2>3, IdleProcess DEF Kill, Idle, Good
<1>10. ASSUME NEW c \in Companies, Onboard(c)
       PROVE  TypeOK' /\ GraphsGood'
  BY <1>10 DEF Onboard
<1>11. CASE NextPeriod
  BY <1>11, JobsAssumption DEF NextPeriod
<1>12. CASE UNCHANGED vars
  BY <1>12 DEF vars
<1> QED
  BY <1>1, <1>2, <1>3, <1>5, <1>6, <1>7, <1>8, <1>9, <1>10, <1>11, <1>12, NextSteps DEF Steps

\* A job's graph has the facts of the snapshot until some job saves: the
\* projection adds to them, and a save makes every other job's version old.
LEMMA FactsStep ==
  ASSUME TypeOK, GraphsGood, NothingLost, [Next]_vars
  PROVE  NothingLost'
<1> USE DEF NothingLost, Fresh
<1>0. /\ \A p \in Processes : proc[p] \in Process /\ proc[p].base \in Nat
                                /\ proc[p].base <= snapshot.version
      /\ DOMAIN proc = Processes /\ snapshot.version \in Nat
  BY DEF Process, TypeOK
<1>1. ASSUME NEW p \in Processes, NEW j \in Jobs, Load(p, j)
      PROVE  NothingLost'
  <2>1. /\ proc'[p].job = j /\ proc'[p].graph = BaseGraph(j)
        /\ \A q \in Processes \ {p} : proc'[q] = proc[q]
        /\ UNCHANGED snapshot
    BY <1>0, <1>1 DEF Load
  <2>2. j # "full" => BaseGraph(j) = snapshot.graph BY DEF BaseGraph
  <2> QED BY <2>1, <2>2
<1>2. ASSUME NEW p \in Processes, NEW g, NEW l, NEW yes, Computes(p, g, l, yes)
      PROVE  NothingLost'
  <2>1. /\ proc'[p].graph = g /\ proc'[p].job = proc[p].job /\ proc'[p].base = proc[p].base
        /\ \A q \in Processes \ {p} : proc'[q] = proc[q]
        /\ UNCHANGED snapshot
    BY <1>0, <1>2 DEF Computes, Compute, Process
  <2>2. proc[p].pc = "loaded" /\ Facts(proc[p].graph) \subseteq Facts(g)
    BY <1>2 DEF Computes, Extends, At
  <2> QED BY <2>1, <2>2
<1>3. ASSUME NEW p \in Processes, proc' = [proc EXCEPT ![p] = Idle], UNCHANGED snapshot
      PROVE  NothingLost'
  BY <1>0, <1>3 DEF Idle
<1>4. ASSUME NEW p \in Processes, NEW stage \in Stage, UNCHANGED snapshot,
             proc' = [proc EXCEPT ![p].pc = stage],
             stage \in {"loaded", "computed", "writing"}
               => proc[p].pc \in {"loaded", "computed", "writing"}
      PROVE  NothingLost'
  <2>1. /\ proc'[p].pc = stage /\ proc'[p].graph = proc[p].graph
        /\ proc'[p].job = proc[p].job /\ proc'[p].base = proc[p].base
        /\ \A q \in Processes \ {p} : proc'[q] = proc[q]
    BY <1>0, <1>4 DEF Process
  <2> QED BY <1>4, <2>1
<1>5. ASSUME NEW p \in Processes, TruncateGraph(p)
      PROVE  NothingLost'
  <2>1. /\ proc'[p].pc = "writing" /\ proc[p].pc = "computed" /\ proc'[p].graph = proc[p].graph
        /\ proc'[p].job = proc[p].job /\ proc'[p].base = proc[p].base
        /\ \A q \in Processes \ {p} : proc'[q] = proc[q]
        /\ snapshot'.graph = snapshot.graph /\ snapshot'.version = snapshot.version
    BY <1>0, <1>5 DEF TruncateGraph, At, Process, TypeOK
  <2> QED BY <2>1
<1>6. ASSUME NEW p \in Processes, WriteGraph(p)
      PROVE  NothingLost'
  <2>1. snapshot'.version = snapshot.version + 1 BY <1>6 DEF WriteGraph
  <2>2. proc'[p].pc \in {"saved", "idle"} /\ \A q \in Processes \ {p} : proc'[q] = proc[q]
    BY <1>0, <1>6 DEF WriteGraph, Process, Idle
  <2> QED BY <1>0, <2>1, <2>2
<1>7. ASSUME NEW p \in Processes, TruncateLog(p)
      PROVE  NothingLost'
  BY <1>4, <1>7 DEF TruncateLog, Stage
<1>8. ASSUME NEW p \in Processes, GiveUp(p) \/ WriteLog(p) \/ Kill(p)
      PROVE  NothingLost'
  BY <1>3, <1>8 DEF GiveUp, WriteLog, Kill
<1>9. ASSUME UNCHANGED <<proc, snapshot>>
      PROVE  NothingLost'
  BY <1>9
<1>10. (\E c \in Companies : Onboard(c)) \/ NextPeriod \/ UNCHANGED vars
         => UNCHANGED <<proc, snapshot>>
  BY DEF Onboard, NextPeriod, vars
<1> QED
  BY <1>1, <1>2, <1>5, <1>6, <1>7, <1>8, <1>9, <1>10, NextSteps DEF Steps

\* The four parts of LogAgrees about one process.
LogAgreesOf(p) ==
  /\ Confirmed(proc[p].graph) \subseteq Vouched \cup JudgedSame(proc[p].log)
  /\ JudgedSame(proc[p].log) \subseteq Recorded \cup Confirmed(proc[p].graph)
  /\ ~UsesLog(proc[p].job) => proc[p].log = {}
  /\ proc[p].pc \in {"idle", "loaded"} => proc[p].log = {}

\* What is vouched for stays so when p's step forgets no record and p, if it was
\* saving, leaves what its log says behind.
LEMMA LogKept ==
  ASSUME LogAgrees, NEW p \in Processes,
         \A q \in Processes \ {p} : proc'[q] = proc[q],
         Recorded \subseteq Recorded',
         p \in Saving => JudgedSame(proc[p].log) \subseteq Vouched',
         Confirmed(snapshot'.graph) \subseteq Vouched \cup Vouched',
         Vouched \subseteq Vouched' => LogAgreesOf(p)'
  PROVE  LogAgrees'
<1>1. \A q \in Saving \ {p} : q \in Saving' /\ proc'[q].log = proc[q].log
  BY DEF Saving
<1>2. Recorded' \subseteq Vouched' BY DEF Vouched
<1>3. \A q \in Saving : JudgedSame(proc[q].log) \subseteq Vouched'
  BY <1>1 DEF Vouched
<1>4. Vouched \subseteq Vouched' BY <1>2, <1>3 DEF Vouched
<1>5. ASSUME NEW q \in Processes, q # p
      PROVE  LogAgreesOf(q)'
  <2>1. proc'[q] = proc[q] BY <1>5
  <2> QED BY <1>4, <2>1 DEF LogAgrees, LogAgreesOf
<1> QED BY <1>4, <1>5 DEF LogAgrees, LogAgreesOf

LEMMA LogStep ==
  ASSUME TypeOK, GraphsGood, LogAgrees, [Next]_vars
  PROVE  LogAgrees'
<1>0. /\ \A p \in Processes : proc[p] \in Process /\ LogAgreesOf(p)
      /\ DOMAIN proc = Processes
      /\ Confirmed(snapshot.graph) \subseteq Vouched
  BY DEF TypeOK, LogAgrees, LogAgreesOf
<1>1. ASSUME NEW p \in Processes, NEW j \in Jobs, Load(p, j)
      PROVE  LogAgrees'
  <2>1. /\ proc'[p].pc = "loaded" /\ proc'[p].graph = BaseGraph(j) /\ proc'[p].log = {}
        /\ \A q \in Processes \ {p} : proc'[q] = proc[q]
        /\ p \notin Saving
        /\ UNCHANGED <<snapshot, judgements, unjudged>>
    BY <1>0, <1>1 DEF Load, At, Saving
  <2>2. Confirmed(BaseGraph(j)) \subseteq Vouched BY <1>0, EmptyGood DEF BaseGraph
  <2>3. Recorded' = Recorded BY <2>1 DEF Recorded
  <2>4. Vouched \subseteq Vouched' => LogAgreesOf(p)'
    BY <2>1, <2>2, NothingJudged DEF LogAgreesOf
  <2> QED BY <1>0, <2>1, <2>3, <2>4, LogKept
<1>2. ASSUME NEW p \in Processes, NEW g, NEW l, NEW yes, Computes(p, g, l, yes)
      PROVE  LogAgrees'
  <2>1. /\ proc'[p].pc = "computed" /\ proc'[p].graph = g /\ proc'[p].log = l
        /\ proc'[p].job = proc[p].job /\ proc[p].pc = "loaded"
        /\ \A q \in Processes \ {p} : proc'[q] = proc[q]
        /\ p \notin Saving
        /\ UNCHANGED <<snapshot, judgements, unjudged>>
    BY <1>0, <1>2 DEF Computes, Compute, At, Saving, Process
  <2>2. /\ Confirmed(g) = Confirmed(proc[p].graph) \cup yes
        /\ JudgedSame(l) \subseteq JudgedSame(judgements.log) \cup yes /\ yes \subseteq JudgedSame(l)
        /\ ~UsesLog(proc[p].job) => l = {}
    BY <1>2 DEF Computes
  <2>3. Recorded' = Recorded /\ JudgedSame(judgements.log) \subseteq Recorded BY <2>1 DEF Recorded
  <2>4. Confirmed(proc[p].graph) \subseteq Vouched
    BY <1>0, <2>1, NothingJudged DEF LogAgreesOf
  <2>5. Vouched \subseteq Vouched' => LogAgreesOf(p)'
    BY <2>1, <2>2, <2>3, <2>4 DEF LogAgreesOf
  <2> QED BY <1>0, <2>1, <2>3, <2>5, LogKept
<1>3. ASSUME NEW p \in Processes, GiveUp(p)
      PROVE  LogAgrees'
  <2>1. /\ proc'[p] = Idle /\ \A q \in Processes \ {p} : proc'[q] = proc[q]
        /\ p \notin Saving
        /\ UNCHANGED <<snapshot, judgements, unjudged>>
    BY <1>0, <1>3 DEF GiveUp, At, Saving
  <2>2. Recorded' = Recorded BY <2>1 DEF Recorded
  <2>3. LogAgreesOf(p)' BY <2>1, EmptyGood, NothingJudged DEF LogAgreesOf, Idle
  <2> QED BY <1>0, <2>1, <2>2, <2>3, LogKept
<1>4. ASSUME NEW p \in Processes, TruncateGraph(p) \/ TruncateLog(p)
      PROVE  LogAgrees'
  <2>1. /\ proc'[p].graph = proc[p].graph /\ proc'[p].log = proc[p].log
        /\ proc'[p].job = proc[p].job /\ proc'[p].pc \in {"writing", "logging"}
        /\ \A q \in Processes \ {p} : proc'[q] = proc[q]
        /\ p \in Saving => p \in Saving'
        /\ snapshot'.graph = snapshot.graph /\ judgements'.log = judgements.log
        /\ unjudged' = unjudged
    BY <1>0, <1>4 DEF TruncateGraph, TruncateLog, At, Saving, Process, TypeOK
  <2>2. Recorded' = Recorded BY <2>1 DEF Recorded
  <2>3. p \in Saving => JudgedSame(proc[p].log) \subseteq Vouched' BY <2>1 DEF Vouched
  <2>4. Vouched \subseteq Vouched' => LogAgreesOf(p)'
    BY <1>0, <2>1, <2>2 DEF LogAgreesOf
  <2> QED BY <1>0, <2>1, <2>2, <2>3, <2>4, LogKept
<1>5. ASSUME NEW p \in Processes, WriteGraph(p)
      PROVE  LogAgrees'
  <2>1. /\ \A q \in Processes \ {p} : proc'[q] = proc[q]
        /\ p \notin Saving
        /\ snapshot'.graph = proc[p].graph
        /\ UNCHANGED <<judgements, unjudged>>
    BY <1>0, <1>5 DEF WriteGraph, At, Saving
  <2>2. Recorded' = Recorded BY <2>1 DEF Recorded
  <2>3. CASE UsesLog(proc[p].job)
    <3>1. /\ proc'[p].graph = proc[p].graph /\ proc'[p].log = proc[p].log
          /\ proc'[p].job = proc[p].job /\ proc'[p].pc = "saved" /\ p \in Saving'
      BY <1>0, <1>5, <2>3 DEF WriteGraph, Process, Saving
    <3>2. JudgedSame(proc[p].log) \subseteq Vouched' BY <3>1 DEF Vouched
    <3>3. Confirmed(snapshot'.graph) \subseteq Vouched \cup Vouched'
      BY <1>0, <2>1, <3>2 DEF LogAgreesOf
    <3>4. Vouched \subseteq Vouched' => LogAgreesOf(p)'
      BY <1>0, <2>2, <3>1 DEF LogAgreesOf
    <3> QED BY <2>1, <2>2, <3>3, <3>4, LogKept
  <2>4. CASE ~UsesLog(proc[p].job)
    <3>1. proc'[p] = Idle BY <1>0, <1>5, <2>4 DEF WriteGraph
    <3>2. Confirmed(snapshot'.graph) \subseteq Vouched
      BY <1>0, <2>1, <2>4, NothingJudged DEF LogAgreesOf
    <3>3. LogAgreesOf(p)' BY <3>1, EmptyGood, NothingJudged DEF LogAgreesOf, Idle
    <3> QED BY <2>1, <2>2, <3>2, <3>3, LogKept
  <2> QED BY <2>3, <2>4
<1>6. ASSUME NEW p \in Processes, WriteLog(p)
      PROVE  LogAgrees'
  <2>1. /\ proc'[p] = Idle /\ \A q \in Processes \ {p} : proc'[q] = proc[q]
        /\ UNCHANGED snapshot
        /\ judgements'.log = proc[p].log
        /\ unjudged' = unjudged \cup (JudgedSame(judgements.log) \ JudgedSame(proc[p].log))
    BY <1>0, <1>6 DEF WriteLog
  <2>2. Recorded \subseteq Recorded' /\ JudgedSame(proc[p].log) \subseteq Recorded'
    BY <2>1 DEF Recorded
  <2>3. JudgedSame(proc[p].log) \subseteq Vouched' BY <2>2 DEF Vouched
  <2>4. LogAgreesOf(p)' BY <2>1, EmptyGood, NothingJudged DEF LogAgreesOf, Idle
  <2> QED BY <1>0, <2>1, <2>2, <2>3, <2>4, LogKept
<1>7. ASSUME NEW p \in Processes, Kill(p)
      PROVE  LogAgrees'
  <2>1. /\ proc'[p] = Idle /\ \A q \in Processes \ {p} : proc'[q] = proc[q]
        /\ UNCHANGED <<snapshot, judgements>>
        /\ unjudged \subseteq unjudged'
        /\ p \in Saving => Confirmed(proc[p].graph) \subseteq unjudged'
    BY <1>0, <1>7 DEF Kill, Saving
  <2>2. /\ Recorded \subseteq Recorded' /\ unjudged' \subseteq Recorded'
        /\ Recorded' \subseteq Vouched'
    BY <2>1 DEF Recorded, Vouched
  <2>3. p \in Saving => JudgedSame(proc[p].log) \subseteq Vouched'
    BY <1>0, <2>1, <2>2 DEF LogAgreesOf
  <2>4. LogAgreesOf(p)' BY <2>1, EmptyGood, NothingJudged DEF LogAgreesOf, Idle
  <2> QED BY <1>0, <2>1, <2>2, <2>3, <2>4, LogKept
<1>8. ASSUME UNCHANGED <<proc, snapshot, judgements, unjudged>>
      PROVE  LogAgrees'
  <2>1. Recorded' = Recorded /\ Saving' = Saving BY <1>8 DEF Recorded, Saving
  <2>2. Vouched' = Vouched BY <1>8, <2>1 DEF Vouched
  <2> QED BY <1>8, <2>1, <2>2 DEF LogAgrees
<1>9. (\E c \in Companies : Onboard(c)) \/ NextPeriod \/ UNCHANGED vars
        => UNCHANGED <<proc, snapshot, judgements, unjudged>>
  BY DEF Onboard, NextPeriod, vars
<1> QED
  BY <1>1, <1>2, <1>3, <1>4, <1>5, <1>6, <1>7, <1>8, <1>9, NextSteps DEF Steps
-----------------------------------------------------------------------------
(* The theorems *)

\* Whatever jobs run side by side and are killed, the graphs are well formed, a
\* job that nobody has overtaken has all the snapshot has, and every confirmed
\* edge is vouched for.
THEOREM JobsInvariant == Spec => []JobsInv
<1>1. JobsInv /\ [Next]_vars => JobsInv'
  BY TypeStep, FactsStep, LogStep DEF JobsInv
<1> QED BY InitInv, <1>1, PTL DEF Spec

\* The graphs, saved or in memory, are well formed and hold each node once.
THEOREM GraphTypes == Spec => []TypeOK
<1>1. JobsInv => TypeOK BY DEF JobsInv
<1> QED BY JobsInvariant, <1>1, PTL

\* Coverage never mints a second node for a company whose tracked node is there.
THEOREM Enrichment == Spec => []EnrichDontDuplicate
<1>1. JobsInv => EnrichDontDuplicate
  BY DEF JobsInv, GraphsGood, Good, Enriched, EnrichDontDuplicate
<1> QED BY JobsInvariant, <1>1, PTL

\* With no job under way every confirmed edge has its judgement, but for those a
\* kill or a stale save has cost.
THEOREM Confirmations == Spec => []ConfirmationsJudged
<1>1. JobsInv => ConfirmationsJudged
  <2> SUFFICES ASSUME JobsInv, \A p \in Processes : At(p, "idle")
               PROVE  Confirmed(snapshot.graph) \subseteq JudgedSame(judgements.log) \cup unjudged
    BY DEF ConfirmationsJudged
  <2>1. Saving = {} BY DEF Saving, At
  <2>2. Vouched = Recorded BY <2>1 DEF Vouched
  <2> QED BY <2>2 DEF JobsInv, LogAgrees, Recorded
<1> QED BY JobsInvariant, <1>1, PTL

\* A save drops edges of the snapshot only when its job had loaded an older one,
\* or started clean.
THEOREM LayeredSaves == Spec => EdgesLostOnlyToStaleSave
<1>1. JobsInv /\ [Next]_vars => [SaveLayers]_vars
  <2> SUFFICES ASSUME JobsInv, Next, NEW p \in Processes,
                      snapshot'.version # snapshot.version,
                      At(p, "writing"), ~At(p, "writing")',
                      proc[p].job # "full", proc[p].base = snapshot.version
               PROVE  Facts(snapshot.graph) \subseteq Facts(snapshot'.graph)
    BY DEF SaveLayers
  <2>1. PICK q \in Processes : WriteGraph(q)
    <3>1. TypeOK /\ GraphsGood BY DEF JobsInv
    <3>2. \A q \in Processes : TruncateGraph(q) => snapshot'.version = snapshot.version
      BY <3>1 DEF TruncateGraph, TypeOK
    <3>3. \A q \in Processes : \A j \in Jobs : Load(q, j) => UNCHANGED snapshot
      BY DEF Load
    <3>4. \A q, g, l, yes : Computes(q, g, l, yes) => UNCHANGED snapshot
      BY DEF Computes, Compute
    <3>5. \A q \in Processes :
            GiveUp(q) \/ TruncateLog(q) \/ WriteLog(q) \/ Kill(q) => UNCHANGED snapshot
      BY DEF GiveUp, TruncateLog, WriteLog, Kill
    <3>6. (\E c \in Companies : Onboard(c)) \/ NextPeriod => UNCHANGED snapshot
      BY DEF Onboard, NextPeriod
    <3> QED BY <3>1, <3>2, <3>3, <3>4, <3>5, <3>6, NextSteps DEF Steps
  <2>2. q = p
    <3>1. q # p => proc'[p] = proc[p] BY <2>1 DEF WriteGraph, JobsInv, TypeOK
    <3> QED BY <3>1 DEF At
  <2>3. snapshot'.graph = proc[p].graph BY <2>1, <2>2 DEF WriteGraph
  <2> QED BY <2>3 DEF JobsInv, NothingLost, Fresh, At
<1> QED BY JobsInvariant, <1>1, PTL DEF EdgesLostOnlyToStaleSave, Spec
=============================================================================
