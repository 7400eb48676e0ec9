-------------------------- MODULE ExposureQueries --------------------------
(* What the exposure engine answers over a graph: each operator is one     *)
(* query of the engine, a function of the graph and of the request.  Names *)
(* are compared as they are (the code folds their case and spaces first);  *)
(* the lists the API sorts are sets here, the lists it keeps in the order  *)
(* of the edges are sequences.                                             *)
EXTENDS GraphStore

Company(key) == <<"Company", key>>
NameOf(g, n) == IF NodeProp(g, n, "name") # None THEN NodeProp(g, n, "name") ELSE n[2]
Sources(edges) == {e.src : e \in edges}
IncomingOver(g, n, rel) == {e \in Incoming(g, n) : e.rel = rel}
OutgoingOver(g, n, rel) == {e \in Outgoing(g, n) : e.rel = rel}
Numbered(props, name) == IF name \in DOMAIN props THEN props[name] ELSE 0

------------------------------------------------------------------------------
(* Profiles and lists.                                                     *)

\* Everything public about one entity; mentions only as the documents' ids.
EntityProfile(g, n, clearance) ==
  LET shown(edges) == Kept(g.edges, Visible({e \in edges : e.rel # "mentions"}, clearance))
      out == shown(Outgoing(g, n))
      in == shown(Incoming(g, n))
  IN  IF ~HasNode(g, n) THEN None
      ELSE [entity |-> n,
            relationships |-> [i \in DOMAIN out |-> <<"out", out[i].rel, out[i].dst>>]
                              \o [i \in DOMAIN in |-> <<"in", in[i].rel, in[i].src>>],
            mentioned |-> {m[2] : m \in Sources(Visible(IncomingOver(g, n, "mentions"), clearance))}]

ListEntities(g, kind) == IF kind = None THEN DOMAIN g.nodes ELSE NodesOfKind(g, kind)

------------------------------------------------------------------------------
(* Countries and suppliers.                                                *)

ExposureToCountry(g, country) ==
  LET operators == Sources(IncomingOver(g, <<"Country", country>>, "operates_in"))
  IN  [direct |-> operators,
       exposed |-> {[company |-> p[1], via |-> p[2]] : p \in
                      {p \in (DOMAIN g.nodes) \X operators :
                         p[1] \in Sources(IncomingOver(g, p[2], "relies_on_supplier"))}}]

\* The same question from the company's side.
CompanyCountryExposures(g, company) ==
  {[country |-> p[1], via |-> p[2]] : p \in
     {p \in (DOMAIN g.nodes) \X (DOMAIN g.nodes) :
        /\ \E e \in OutgoingOver(g, company, "relies_on_supplier") : e.dst = p[2]
        /\ \E e \in OutgoingOver(g, p[2], "operates_in") : e.dst = p[1]}}

DebtForCountry(g, country) ==
  {n \in Sources(IncomingOver(g, <<"Country", country>>, "issued_by")) :
     n[1] = "DebtInstrument" /\ HasNode(g, n)}

ListDebtInstruments(g) == NodesOfKind(g, "DebtInstrument")

------------------------------------------------------------------------------
(* Jurisdictions and peers that name an exposed company.                   *)

\* Companies outside the exposed set whose filings name one inside, each pair once.
NetworkProximity(g, exposed) ==
  {<<e.src, e.dst>> : e \in {x \in ByRelation(g, "references") :
                                x.dst \in exposed /\ x.src \notin exposed}}

SubsidiariesIn(g, jurisdiction) == {e \in ByRelation(g, "has_subsidiary") : Prop(e.props, "jurisdiction") = jurisdiction}

ListJurisdictions(g) ==
  LET named == {Prop(e.props, "jurisdiction") : e \in ByRelation(g, "has_subsidiary")} \ {None}
  IN  [j \in named |-> Cardinality(Sources(SubsidiariesIn(g, j)))]

\* The subsidiaries of a company there, cited to the first of their filings.
JurisdictionExposure(g, jurisdiction) ==
  LET there == SubsidiariesIn(g, jurisdiction)
      of(c) == {e \in there : e.src = c}
  IN  [direct |-> [c \in Sources(there) |->
                     [subsidiaries |-> {e.dst : e \in of(c)},
                      source |-> Prop(Kept(g.edges, of(c))[1].props, "source_uri")]],
       network |-> NetworkProximity(g, Sources(there))]

------------------------------------------------------------------------------
(* Sectors.                                                                *)

GicsLevels == <<"sector", "industry_group", "industry", "sub_industry">>

\* The sector of an in_sector edge: the curated one, or the name of its target.
SectorOf(g, e) == IF Prop(e.props, "sector") # None THEN e.props.sector ELSE NameOf(g, e.dst)

ClassificationTerms(g, e) ==
  {NameOf(g, e.dst)} \cup
    {e.props[level] : level \in (Range(GicsLevels) \cup {"code"}) \cap DOMAIN e.props}

ListSectors(g) ==
  LET edges == ByRelation(g, "in_sector")
  IN  [s \in {SectorOf(g, e) : e \in edges} |->
         Cardinality({e.src : e \in {x \in edges : SectorOf(g, x) = s}})]

\* Each sector's members by sub-industry, an uncurated one by its target's name.
GicsBreakdown(g) ==
  LET edges == ByRelation(g, "in_sector")
      sub(e) == IF Prop(e.props, "sub_industry") # None THEN e.props.sub_industry ELSE NameOf(g, e.dst)
      of(s) == {e \in edges : SectorOf(g, e) = s}
  IN  [s \in {SectorOf(g, e) : e \in edges} |->
         [companies |-> Cardinality({e.src : e \in of(s)}),
          sub_industries |-> [i \in {sub(e) : e \in of(s)} |-> {e.src : e \in {x \in of(s) : sub(x) = i}}]]]

\* A term matches at any level; the level shown is that of the first edge that
\* names it at one.
SectorExposure(g, term) ==
  LET matching == {e \in ByRelation(g, "in_sector") : term \in ClassificationTerms(g, e)}
      level(e) == Kept(GicsLevels, {l \in Range(GicsLevels) : Prop(e.props, l) = term})
      levelled == Kept(g.edges, {e \in matching : level(e) # <<>>})
  IN  [direct |-> Sources(matching),
       level |-> IF levelled = <<>> THEN None ELSE level(levelled[1])[1],
       network |-> NetworkProximity(g, Sources(matching))]

CompaniesInSector(g, sector) ==
  {e.src : e \in {x \in ByRelation(g, "in_sector") : SectorOf(g, x) = sector}}

------------------------------------------------------------------------------
(* Market tiers and commodities.                                           *)

\* A tier's code is its key in capitals, which is the same name here.
TierCode(g, n) == IF NodeProp(g, n, "code") # None THEN NodeProp(g, n, "code") ELSE n[2]

ListMarketTiers(g) ==
  LET edges == ByRelation(g, "in_market_tier")
  IN  {[tier |-> TierCode(g, t), companies |-> Cardinality({e.src : e \in {x \in edges : x.dst = t}})] :
         t \in {e.dst : e \in edges}}

\* A tier is asked for by its key or its code: the first such node, and no two
\* answer to one name as nothing writes a code that is not of its key.
MarketTierExposure(g, tier) ==
  {c \in DOMAIN g.nodes :
     \E t \in NodesOfKind(g, "MarketTier") :
       /\ tier \in {t[2], NodeProp(g, t, "code")}
       /\ c \in Sources(IncomingOver(g, t, "in_market_tier"))}

AffectedSectors(g, commodity) ==
  {SectorOf(g, e) : e \in OutgoingOver(g, commodity, "affects_sector")}

ListCommodities(g) == [c \in NodesOfKind(g, "Commodity") |-> AffectedSectors(g, c)]

\* Asked for by its slug or by its name, which are one name here.
CommodityExposure(g, commodity) ==
  UNION {CompaniesInSector(g, s) : s \in AffectedSectors(g, <<"Commodity", commodity>>)}

------------------------------------------------------------------------------
(* People.                                                                 *)

PeopleAt(g, company) ==
  {e.dst : e \in {x \in ByRelation(g, "employs") : x.src = company}}
    \cup {e.src : e \in {x \in ByRelation(g, "previously_at") : x.dst = company}}

\* Companies two people share, and people two companies share.
CoExecutives(g) ==
  LET companies == {n \in DOMAIN g.nodes : PeopleAt(g, n) # {}}
      at(p) == {c \in companies : p \in PeopleAt(g, c)}
  IN  [groups |-> {<<c, PeopleAt(g, c)>> : c \in {x \in companies : Cardinality(PeopleAt(g, x)) >= 2}},
       bridges |-> {<<p, at(p)>> : p \in {x \in UNION {PeopleAt(g, c) : c \in companies} :
                                            Cardinality(at(x)) >= 2}}]

------------------------------------------------------------------------------
(* Funds.                                                                  *)

FundHoldings(g, fund, clearance, day) ==
  LET held == Visible(AsOf(OutgoingOver(g, fund, "holds"), day), clearance)
  IN  [c \in {e.dst : e \in held} |-> Numbered((CHOOSE e \in held : e.dst = c).props, "value")]

ListFunds(g) == {[fund |-> n, resolved |-> Numbered(g.nodes[n], "resolved")] : n \in NodesOfKind(g, "Fund")}

\* The sum of what is held, as the number of the units.
Worth(book, companies) == Cardinality(UNION {{c} \X (1..book[c]) : c \in companies})

ExposedKeys(g, pathway, term) ==
  CASE pathway = "sector" -> SectorExposure(g, term).direct
    [] pathway = "market_tier" -> MarketTierExposure(g, term)
    [] pathway = "commodity" -> CommodityExposure(g, term)
    [] pathway = "jurisdiction" -> DOMAIN JurisdictionExposure(g, term).direct
    [] pathway = "country" -> ExposureToCountry(g, term).direct
    [] OTHER -> {}

PortfolioExposure(g, fund, pathway, term, clearance, day) ==
  LET book == FundHoldings(g, fund, clearance, day)
      exposed == DOMAIN book \cap ExposedKeys(g, pathway, term)
  IN  [exposed |-> [c \in exposed |-> book[c]],
       exposed_value |-> Worth(book, exposed),
       total_value |-> Worth(book, DOMAIN book)]

\* Each holding falls into the bucket of the first of its edges.
PortfolioProfile(g, fund, clearance, day) ==
  LET book == FundHoldings(g, fund, clearance, day)
      sectors(c) == Kept(g.edges, OutgoingOver(g, c, "in_sector"))
      tiers(c) == Kept(g.edges, OutgoingOver(g, c, "in_market_tier"))
      sectored == {c \in DOMAIN book : sectors(c) # <<>>}
      tiered == {c \in DOMAIN book : tiers(c) # <<>>}
  IN  [total_value |-> Worth(book, DOMAIN book),
       by_sector |-> [s \in {SectorOf(g, sectors(c)[1]) : c \in sectored} |->
                        {c \in sectored : SectorOf(g, sectors(c)[1]) = s}],
       by_market_tier |-> [t \in {TierCode(g, tiers(c)[1].dst) : c \in tiered} |->
                             {c \in tiered : TierCode(g, tiers(c)[1].dst) = t}]]

------------------------------------------------------------------------------
(* The panels of the jobs that enrich the graph.  Each is disconnected     *)
(* until its job has left a run node.                                      *)

HasRun(g, kind) == NodesOfKind(g, kind) # {}

Panel(g, rels, clearance, day) ==
  [rel \in rels |-> Kept(g.edges, Visible(AsOf(ByRelation(g, rel), day), clearance))]

ScreeningOverview(g, clearance, day) ==
  IF ~HasRun(g, "ScreeningRun") THEN [connected |-> FALSE]
  ELSE [connected |-> TRUE,
        hits |-> Panel(g, {"pep", "sanctioned", "screening_candidate"}, clearance, day)]

ResolutionOverview(g, clearance, day) ==
  IF ~HasRun(g, "AnchorRun") THEN [connected |-> FALSE]
  ELSE [connected |-> TRUE, anchors |-> Panel(g, {"has_lei", "lei_candidate"}, clearance, day)]

Ownership == {"owns", "beneficial_owner_of", "consolidates"}

OwnershipOverview(g, clearance) ==
  LET all == {e \in EdgeSet(g) : e.rel \in Ownership}
      visible == Visible(all, clearance)
  IN  IF all = {} /\ ~HasRun(g, "OwnershipRun") THEN [connected |-> FALSE]
      ELSE [connected |-> TRUE,
            shown |-> [rel \in Ownership |-> Cardinality({e \in visible : e.rel = rel})],
            restricted |-> Cardinality(all \ visible)]

CompanyOwners(g, company, clearance, day) ==
  LET all == AsOf({e \in Incoming(g, company) : e.rel \in Ownership}, day)
      visible == Visible(all, clearance)
  IN  [connected |-> all # {}, owners |-> Kept(g.edges, visible), restricted |-> Cardinality(all \ visible)]

\* Companies by market, and how many of them an exchange listed.
CoverageOverview(g) ==
  LET companies == NodesOfKind(g, "Company")
      listed(set) == {c \in set : NodeProp(g, c, "in_universe") = "yes"}
      runs == {g.nodes[n].market : n \in NodesOfKind(g, "CoverageRun")}
      markets == runs \cup ({NodeProp(g, c, "market") : c \in companies} \ {None})
      of(m) == {c \in companies : NodeProp(g, c, "market") = m}
  IN  IF runs = {} /\ listed(companies) = {}
      THEN [connected |-> FALSE, total |-> Cardinality(companies)]
      ELSE [connected |-> TRUE, total |-> Cardinality(companies),
            in_universe |-> Cardinality(listed(companies)),
            by_market |-> [m \in markets |-> [companies |-> Cardinality(of(m)),
                                              in_universe |-> Cardinality(listed(of(m)))]]]

------------------------------------------------------------------------------
(* What the API serves to everybody, over all that can be asked of a graph.*)
(* A graph that is no store answers nothing: the handlers guard for it.    *)

Events(g) ==
  LET terms == {NameOf(g, n) : n \in DOMAIN g.nodes} \cup DOMAIN ListSectors(g) \cup DOMAIN ListJurisdictions(g)
  IN  {"sector", "market_tier", "commodity", "jurisdiction", "country"} \X terms

EntityAnswers(g, clearance) ==
  [entities |-> ListEntities(g, None),
   profiles |-> [n \in DOMAIN g.nodes |-> EntityProfile(g, n, clearance)],
   executives |-> CoExecutives(g)]

EventAnswers(g) ==
  [sectors |-> ListSectors(g), breakdown |-> GicsBreakdown(g), tiers |-> ListMarketTiers(g),
   jurisdictions |-> ListJurisdictions(g), commodities |-> ListCommodities(g),
   debt |-> ListDebtInstruments(g),
   exposed |-> [e \in Events(g) |-> ExposedKeys(g, e[1], e[2])],
   countries |-> [n \in NodesOfKind(g, "Country") |->
                    <<ExposureToCountry(g, n[2]), DebtForCountry(g, n[2])>>]]

FundAnswers(g, clearance, day) ==
  [funds |-> ListFunds(g),
   profiles |-> [f \in NodesOfKind(g, "Fund") |-> PortfolioProfile(g, f, clearance, day)],
   exposures |-> [q \in NodesOfKind(g, "Fund") \X Events(g) |->
                    PortfolioExposure(g, q[1], q[2][1], q[2][2], clearance, day)]]

PanelAnswers(g, clearance, day) ==
  [screening |-> ScreeningOverview(g, clearance, day), resolution |-> ResolutionOverview(g, clearance, day),
   ownership |-> OwnershipOverview(g, clearance), coverage |-> CoverageOverview(g),
   owners |-> [c \in NodesOfKind(g, "Company") |-> CompanyOwners(g, c, clearance, day)]]
=============================================================================
