----------------------------- MODULE Registers -----------------------------
(* ownership/: the statements of three registers, the UK's persons with    *)
(* significant control (PSC), GLEIF's consolidation relationships and the  *)
(* Beneficial Ownership Data Standard (BODS), and the edges they become. A *)
(* party's anchor is a pair <<scheme, value>>, NoAnchor when it has none; a *)
(* share is what was disclosed of it, <<>> when nothing was.               *)
EXTENDS Universe

NoAnchor == <<>>
NoShare == <<>>

Party(kind, name, anchor) == [kind |-> kind, name |-> name, anchor |-> anchor]

------------------------------------------------------------------------------
(* Companies House.                                                        *)

Bands == <<<<"band", 25, 50>>, <<"band", 50, 75>>, <<"band", 75, 100>>>>
Interests == [shares |-> "shareholding", voting |-> "voting-rights",
              appoint |-> "appoint-directors", influence |-> "significant-influence"]

\* Natures of control: the first that is known names the interest, the widest
\* band disclosed is the share.
InterpretNatures(natures) ==
  LET known == SelectSeq(natures, LAMBDA x : x.right \in DOMAIN Interests)
      banded == {x.band : x \in {y \in Range(known) : y.right \in {"shares", "voting"}}}
  IN  [interest |-> IF known = <<>> THEN None ELSE Interests[Head(known).right],
       share |-> IF banded = {} THEN NoShare ELSE Bands[CHOOSE b \in banded : \A c \in banded : c <= b]]

\* The number of a company elsewhere goes by one scheme, whatever the registry.
EntityAnchor(item) ==
  CASE item.number = None -> NoAnchor
    [] item.number # None /\ item.registry = "uk" -> <<"company_number", item.number>>
    [] OTHER -> <<"registration_number", item.number>>

Subject(number, name) ==
  Party("Company", Or(name, "UK company " \o (IF number = None THEN "" ELSE number)),
        IF number = None THEN NoAnchor ELSE <<"company_number", number>>)

PersonKinds == {"individual", "super-secure"}
EntityKinds == {"corporate", "legal-person"}

\* A protected person is an edge for the authorities without a name.
PscRecord(item, subject) ==
  LET control == InterpretNatures(item.natures)
      name == Or(item.name, "Unknown person")
      secret == item.kind = "super-secure"
  IN  [holder |-> CASE secret -> Party("Person", "Super-secure person (details withheld)", NoAnchor)
                    [] item.kind = "individual" -> Party("Person", name, NoAnchor)
                    [] item.kind = "corporate" -> Party("Company", name, EntityAnchor(item))
                    [] item.kind = "legal-person" -> Party("Entity", name, EntityAnchor(item)),
       subject |-> subject,
       basis |-> IF item.kind \in PersonKinds THEN "beneficial_owner" ELSE "declared_shareholding",
       share |-> control.share,
       interest |-> IF secret THEN Or(control.interest, "significant-influence") ELSE control.interest,
       from |-> item.notified, to |-> item.ceased, source |-> "uk-companies-house-psc",
       tier |-> CASE secret -> "restricted-authority"
                  [] item.kind = "individual" -> "public"
                  [] OTHER -> None]

\* A statement that nobody was found is counted, a kind nobody knows skipped.
ParsePsc(lists) ==
  LET records(list) ==
        LET items == SelectSeq(list.items, LAMBDA i : i.kind \in PersonKinds \cup EntityKinds)
        IN  [i \in DOMAIN items |-> PscRecord(items[i], Subject(list.number, list.name))]
      all == FlattenSeq([i \in DOMAIN lists |-> lists[i].items])
      statements == SelectSeq(all, LAMBDA i : i.kind = "statement")
      listed == FlattenSeq([i \in DOMAIN lists |-> records(lists[i])])
  IN  [records |-> listed, statements |-> Len(statements),
       skipped |-> Len(all) - Len(statements) - Len(listed)]

\* The companies a live run asks the register about: every company number on the
\* graph, a placeholder's too, in the order of the nodes.
CoveredGbCompanyNumbers(g) ==
  LET numbers(n) == SelectSeq(AnchorsOf(g, n), LAMBDA a : a[1] = "company_number")
      covered == {n \in NodesOfKind(g, "Company") : numbers(n) # <<>>}
      nodes == SetToSortSeq(covered, LAMBDA m, n : Place(g, m) < Place(g, n))
      all == FlattenSeq([i \in DOMAIN nodes |-> numbers(nodes[i])])
  IN  Distinct([i \in DOMAIN all |-> all[i][2]])

\* A company the register has nothing about answers 404, an empty list.
FetchCompanies(register, numbers) ==
  [i \in DOMAIN numbers |->
     [number |-> numbers[i], name |-> None,
      items |-> IF numbers[i] \in DOMAIN register THEN register[numbers[i]] ELSE <<>>]]

------------------------------------------------------------------------------
(* GLEIF, level 2.                                                         *)

LeiParty(lei) == Party("Company", lei, <<"lei", lei>>)

\* The accounting period, or else the first.
PeriodBounds(periods) ==
  LET accounting == SelectSeq(periods, LAMBDA p : p.type = "accounting")
  IN  IF periods = <<>> THEN [start |-> NoDate, end |-> NoDate] ELSE Head(accounting \o periods)

InForce(r) ==
  r.type \in {"direct", "ultimate"} /\ r.child # None /\ r.parent # None
    /\ r.status \in {None, "ACTIVE", "PUBLISHED"}

GleifRecord(r) ==
  [holder |-> LeiParty(r.parent), subject |-> LeiParty(r.child), basis |-> "accounting_consolidation",
   share |-> NoShare, interest |-> r.type \o "-consolidation", from |-> PeriodBounds(r.periods).start,
   to |-> PeriodBounds(r.periods).end, source |-> "gleif-l2", tier |-> None]

\* Of a parent and a child one payload yields the first relationship only.
RecordsFromPayload(payload) ==
  LET kept == FoldLeft(LAMBDA acc, r :
                         IF InForce(r) /\ ~\E x \in Range(acc) : x.parent = r.parent /\ x.child = r.child
                         THEN Append(acc, r) ELSE acc, <<>>, payload)
  IN  [i \in DOMAIN kept |-> GleifRecord(kept[i])]

ParseGleifRelationships(payloads) ==
  FlattenSeq([i \in DOMAIN payloads |-> RecordsFromPayload(payloads[i])])

------------------------------------------------------------------------------
(* BODS. Entities and persons are functions of the statements' ids.        *)

\* An LEI if there is one, else the first identifier.
BodsAnchor(identifiers) ==
  LET leis == SelectSeq(identifiers, LAMBDA a : a[1] = "lei")
  IN  IF identifiers = <<>> THEN NoAnchor ELSE Head(leis \o identifiers)

\* An exact figure if one is stated, else the range; its bounds are 0 and 100
\* when they are not stated.
ShareToPercentage(share) ==
  CASE "exact" \in DOMAIN share -> <<"exact", share.exact>>
    [] "exact" \notin DOMAIN share /\ {"minimum", "maximum"} \subseteq DOMAIN share ->
         <<"band", share.minimum, share.maximum>>
    [] {"minimum", "maximum"} \cap DOMAIN share = {"minimum"} /\ "exact" \notin DOMAIN share ->
         <<"at least", share.minimum>>
    [] {"minimum", "maximum"} \cap DOMAIN share = {"maximum"} /\ "exact" \notin DOMAIN share ->
         <<"at most", share.maximum>>
    [] OTHER -> NoShare

\* A statement one of whose ends nothing describes is no edge.
ParseBods(export) ==
  LET entity(id) == Party("Company", export.entities[id].name, BodsAnchor(export.entities[id].identifiers))
      described(c) == /\ c.subject \in DOMAIN export.entities
                      /\ c.person \in DOMAIN export.persons \/ c.entity \in DOMAIN export.entities
      byPerson(c) == c.person \in DOMAIN export.persons
      record(c) ==
        [holder |-> IF byPerson(c) THEN Party("Person", export.persons[c.person], NoAnchor) ELSE entity(c.entity),
         subject |-> entity(c.subject),
         basis |-> IF byPerson(c) THEN "beneficial_owner" ELSE "declared_shareholding",
         share |-> ShareToPercentage(c.share), interest |-> c.interest, from |-> c.start, to |-> c.end,
         source |-> "openownership-bods", tier |-> None]
      kept == SelectSeq(export.controls, described)
  IN  [i \in DOMAIN kept |-> record(kept[i])]

------------------------------------------------------------------------------
(* The statements on the graph.                                            *)

ListOwnership(g, register) ==
  CASE register.provider = "psc" -> ParsePsc(register.lists).records
    [] register.provider = "psc-live" ->
         ParsePsc(FetchCompanies(register.answers, CoveredGbCompanyNumbers(g))).records
    [] register.provider = "gleif-l2" -> ParseGleifRelationships(register.payloads)
    [] register.provider = "bods" -> ParseBods(register.export)

RelationOf(record) ==
  CASE record.basis = "declared_shareholding" -> "owns"
    [] record.basis = "beneficial_owner" -> "beneficial_owner_of"
    [] record.basis = "accounting_consolidation" -> "consolidates"

\* What the record says, else what its basis calls for.
TierOf(record) ==
  IF record.tier # None THEN record.tier
  ELSE IF record.basis = "beneficial_owner" THEN "legitimate-interest" ELSE "public"

AnchorKinds == <<"Company", "Subsidiary", "Person", "Entity", "Fund">>

\* The nodes an anchor leads to, among the kinds in turn the oldest first.
Bearers(g, kind, anchor) ==
  {n \in NodesOfKind(g, kind) :
     \/ Contains(AnchorsOf(g, n), anchor)
     \/ anchor[1] \in {"cik", "lei", "isin"} /\ NodeProp(g, n, anchor[1]) = anchor[2]}

AnchorIndex(g, anchor) ==
  LET kinds == IF anchor = NoAnchor THEN <<>>
               ELSE SelectSeq(AnchorKinds, LAMBDA kind : Bearers(g, kind, anchor) # {})
  IN  [i \in DOMAIN kinds |-> Oldest(g, Bearers(g, kinds[i], anchor))]

SurrogateKey(party) ==
  <<party.kind, party.kind \o "-" \o (IF party.anchor = NoAnchor THEN party.name
                                       ELSE party.anchor[1] \o "-" \o party.anchor[2])>>

Placeholder(g, n) == NodeProp(g, n, "ownership_status") = "unresolved"

\* The index has keys without their kind: a key is the node of the first kind with one.
FindNode(g, key) == <<Head(SelectSeq(AnchorKinds, LAMBDA kind : HasNode(g, <<kind, key>>))), key>>

\* The node of a party by the index at the start of the run; a placeholder that an
\* earlier run left is used again, but not as resolved.
ResolveParty(g, party) ==
  LET hits == AnchorIndex(g, party.anchor)
      node == FindNode(g, Head(hits)[2])
  IN  IF hits = <<>> THEN [node |-> SurrogateKey(party), resolved |-> FALSE]
      ELSE [node |-> node, resolved |-> ~Placeholder(g, node)]

SurrogateProps(g, party, source) ==
  [name |-> party.name, source |-> source, ownership_status |-> "unresolved",
   place |-> Cardinality(DOMAIN g.nodes)]
    @@ (IF party.anchor = NoAnchor THEN <<>> ELSE [anchors |-> <<party.anchor>>])

Dated(name, day) == IF day = NoDate THEN <<>> ELSE name :> day
YesNo(b) == IF b THEN "yes" ELSE "no"

\* What an edge is stamped with; a bound that is open is left out.
Stamp(record, holderResolved) ==
  [holder_name |-> record.holder.name, basis |-> record.basis, holder_resolved |-> YesNo(holderResolved),
   share |-> record.share, source |-> record.source, access_tier |-> TierOf(record)]
    @@ Optional("interest", record.interest)
    @@ Dated("valid_from", record.from) @@ Dated("valid_to", record.to)

RecordStatement(g, acc, record) ==
  LET holder == ResolveParty(g, record.holder)
      subject == ResolveParty(g, record.subject)
      withHolder == EnsureNode(acc, holder.node, SurrogateProps(acc, record.holder, record.source))
      withBoth == EnsureNode(withHolder, subject.node, SurrogateProps(withHolder, record.subject, record.source))
  IN  UpsertEdge(withBoth, [src |-> holder.node, rel |-> RelationOf(record), dst |-> subject.node,
                            props |-> Stamp(record, holder.resolved)])

\* One run of a register.
IngestRegister(g, register) ==
  LET records == ListOwnership(g, register)
      written == FoldLeft(LAMBDA acc, r : RecordStatement(g, acc, r), g, records)
      unresolved(side) == Len(SelectSeq(records, LAMBDA r : ~ResolveParty(g, r[side]).resolved))
      stated(rel) == Len(SelectSeq(records, LAMBDA r : RelationOf(r) = rel))
  IN  UpsertNode(written, <<"OwnershipRun", "ownership">>,
        [name |-> "ownership run", provider |-> register.provider, considered |-> Len(records),
         edges |-> Len(SelectSeq(written.edges, LAMBDA e : e.rel \in {"owns", "beneficial_owner_of", "consolidates"})),
         owns |-> stated("owns"), beneficial_owner_of |-> stated("beneficial_owner_of"),
         consolidates |-> stated("consolidates"),
         subjects_unresolved |-> unresolved("subject"), holders_unresolved |-> unresolved("holder")])
=============================================================================
