---------------------------- MODULE ExposureJobs ----------------------------
(* The jobs that write what the exposure engine reads: the deterministic   *)
(* extraction after every ingestion, the curated entities of one company,  *)
(* the mentions of one document, the 13F of one fund, an exchange's list   *)
(* of issuers and a register's statements of ownership.  A job is applied  *)
(* to the graph in one step, the extraction as the sequence of its upserts: *)
(* it works on a graph of its own and saves it whole (GraphJobs has the    *)
(* saves). The names the code folds to keys are the keys here.             *)
EXTENDS GraphWalks, ExposureQueries, Registers

CONSTANTS
  Configured,  \* the tracked companies, a sequence of [company, cik, industry, path, tier]
  Corpus,      \* the documents in the order of their paths, a sequence of
               \* [node, by, names, subsidiaries, officers, directors]
  Curated,     \* reference entities of each company with some
  Inventory,   \* commodities with their sectors, and debt with its country
  Filings,     \* 13F filings, [fund, period, lines]
  Feeds,       \* lists of issuers, one market each
  Registered,  \* what the registers of ownership publish
  MaxJobs,     \* bound: jobs that change the graph
  MaxRegistryJobs  \* bound: coverage, ownership and extraction jobs side by side

VARIABLES
  published,   \* documents in the data directory, indices of Corpus
  jobs,        \* projection jobs that changed the graph
  covering,    \* bound: whether the jobs of this behaviour are the registries'
  fed,         \* history: lists ingested
  listed,      \* history: issuers listed, but for those whose node was written anew
  stated       \* history: records of ownership ingested, in order

IsList(s) == s \in Seq(Range(s))
IsOf(kind, n) == n = <<kind, n[2]>>

\* What a curated relation of a company leads to.
CuratedKind ==
  [supplies_to |-> "Company", competes_with |-> "Company", partners_with |-> "Company",
   operates_in |-> "Country", produces |-> "Product", uses_technology |-> "Technology",
   engaged_with |-> "Agency"]

\* What the configuration, the parsers and the curated files hold are lists, and
\* each name in them is of the kind that is read there; a text is searched for the
\* names of the configured companies; the lines of a 13F are worth whole dollars.
ASSUME JobsAssumption ==
  /\ \A c \in Tracked : IsOf("Company", c)
  /\ IsList(Configured) /\ \A c \in Range(Configured) : IsOf("Company", c.company)
  /\ IsList(Corpus)
  /\ \A d \in Range(Corpus) :
       /\ IsOf("Filing", d.node) \/ IsOf("Document", d.node)
       /\ \A n \in Range(d.names) : \E c \in Range(Configured) : n = c.company
       /\ \A list \in {"names", "mentions", "subsidiaries", "officers", "directors"} : IsList(d[list])
  /\ \A c \in DOMAIN Curated :
       LET entities == Curated[c]
       IN  /\ IsOf("Company", c)
           /\ \A list \in {"people", "suppliers", "others"} : IsList(entities[list])
           /\ \A p \in Range(entities.people) :
                /\ IsOf("Person", p.person) /\ IsList(p.previously)
                /\ \A n \in Range(p.previously) : IsOf("Company", n)
           /\ \A s \in Range(entities.suppliers) : IsOf("Company", s.supplier)
           /\ \A r \in Range(entities.others) :
                r.rel \in DOMAIN CuratedKind /\ IsOf(CuratedKind[r.rel], r.target)
  /\ IsList(Inventory.commodities) /\ IsList(Inventory.debt)
  /\ \A c \in Range(Inventory.commodities) : IsList(c.sectors)
  /\ \A f \in Filings :
       IsOf("Fund", f.fund) /\ IsList(f.lines) /\ \A l \in Range(f.lines) : l.value \in Nat

registryVars == <<covering, fed, listed, stated>>
jobVars == <<published, jobs, registryVars>>
projected == jobs > 0 /\ ~covering
walkVars == <<ask, frontier, seen, found, withheld>>

------------------------------------------------------------------------------
(* Upserts.                                                                *)

Put(n, props) == [op |-> "put", node |-> n, props |-> props]
Ensure(n, props) == [op |-> "ensure", node |-> n, props |-> props]
Link2(src, rel, dst, props) ==
  [op |-> "link", edge |-> [src |-> src, rel |-> rel, dst |-> dst, props |-> props]]

Each(Writes(_), s) == FlattenSeq([i \in DOMAIN s |-> Writes(s[i])])

Written(g, w) ==
  CASE w.op = "put" -> UpsertNode(g, w.node, w.props)
    [] w.op = "ensure" -> EnsureNode(g, w.node, w.props)
    [] OTHER -> UpsertEdge(g, w.edge)

Apply(g, writes) ==
  LET after[i \in 0..Len(writes)] == IF i = 0 THEN g ELSE Written(after[i - 1], writes[i])
  IN  after[Len(writes)]

Named(n) == [name |-> n[2]]

------------------------------------------------------------------------------
(* The extraction.                                                         *)

\* A tracked company is written anew, whatever its node had.
CompanyNodes(companies) ==
  Each(LAMBDA c : <<Put(c.company, Named(c.company) @@ Optional("cik", c.cik)
                                     @@ Optional("gics_code", Prop(c.path, "code")))>>, companies)

\* A company without a curated path has its SIC label as its sector, one
\* without either is left out.
SectorEdges(companies) ==
  Each(LAMBDA c : LET industry == <<"Industry", c.industry>>
                  IN  IF c.industry = None THEN <<>>
                      ELSE <<Ensure(industry, Named(industry)),
                             Link2(c.company, "in_sector", industry, c.path)>>, companies)

MarketTierEdges(companies) ==
  Each(LAMBDA c : LET tier == <<"MarketTier", c.tier>>
                  IN  IF c.tier = None THEN <<>>
                      ELSE <<Ensure(tier, Named(tier) @@ [code |-> c.tier]),
                             Link2(c.company, "in_market_tier", tier, <<>>)>>,
       companies)

DocumentsOf(documents, c) == Kept(documents, {d \in Range(documents) : d.by = c.company})

\* A filing that names another tracked company refers to it, cited to the first
\* such filing; one that names its own company does not.
ReferenceEdges(companies, documents) ==
  Each(LAMBDA c :
         Each(LAMBDA d : Each(LAMBDA n : IF n = c.company THEN <<>>
                                         ELSE <<Link2(c.company, "references", n, [source_uri |-> d.node[2]])>>,
                              d.names),
              DocumentsOf(documents, c)), companies)

\* The subsidiaries of the Exhibits 21, each key once for a company.
SubsidiaryEdges(companies, documents) ==
  Each(LAMBDA c :
         Each(LAMBDA d :
                Each(LAMBDA s : LET n == <<"Subsidiary", s.key>>
                                IN  <<Ensure(n, Named(n)),
                                      Link2(c.company, "has_subsidiary", n,
                                            [jurisdiction |-> s.jurisdiction, source_uri |-> d.node[2]])>>,
                     d.subsidiaries),
              DocumentsOf(documents, c)), companies)

\* Whoever is an officer in one filing is not a director in another, in one run.
PeopleEdges(companies, documents) ==
  Each(LAMBDA c :
         LET filings == DocumentsOf(documents, c)
             officers == UNION {Range(filings[i].officers) : i \in DOMAIN filings}
             links(people, rel) ==
               Each(LAMBDA p : IF rel = "board_member" /\ p \in officers THEN <<>>
                               ELSE <<Ensure(<<"Person", p>>, [name |-> p]),
                                      Link2(c.company, rel, <<"Person", p>>, <<>>)>>, people)
         IN  Each(LAMBDA d : links(d.officers, "employs") \o links(d.directors, "board_member"), filings),
       companies)

InstrumentEdges(inventory) ==
  Each(LAMBDA c : <<Put(<<"Commodity", c.key>>, [name |-> c.key])>>
         \o Each(LAMBDA s : <<Ensure(<<"Sector", s>>, [name |-> s]),
                              Link2(<<"Commodity", c.key>>, "affects_sector", <<"Sector", s>>, [sector |-> s])>>,
                 c.sectors), inventory.commodities)
    \o Each(LAMBDA d : <<Put(<<"DebtInstrument", d.key>>, [name |-> d.key]),
                         Ensure(<<"Country", d.country>>, [name |-> d.country]),
                         Link2(<<"DebtInstrument", d.key>>, "issued_by", <<"Country", d.country>>, <<>>)>>,
            inventory.debt)

Extraction(documents) ==
  CompanyNodes(Configured) \o SectorEdges(Configured) \o MarketTierEdges(Configured)
    \o ReferenceEdges(Configured, documents) \o SubsidiaryEdges(Configured, documents)
    \o PeopleEdges(Configured, documents) \o InstrumentEdges(Inventory)

------------------------------------------------------------------------------
(* The curated entities and the mentions.                                  *)

Reference(c, rel, n) == <<Ensure(n, Named(n)), Link2(c, rel, n, <<>>)>>

PersonWrites(c, p) ==
  Reference(c, "employs", p.person)
    \o Each(LAMBDA prior : Reference(p.person, "previously_at", prior), p.previously)

SupplierWrites(c, s) ==
  Reference(c, "relies_on_supplier", s.supplier)
    \o IF s.country = None THEN <<>>
       ELSE Reference(s.supplier, "operates_in", <<"Country", s.country>>)

\* Each product uses every technology of its company.
OtherWrites(c, r, others) ==
  Reference(c, r.rel, r.target)
    \o Each(LAMBDA t : IF r.rel = "produces" /\ t.rel = "uses_technology"
                       THEN Reference(r.target, "uses_technology", t.target) ELSE <<>>, others)

\* The company's own node is written, everything it refers to only made.
CompanyEntities(c, entities) ==
  <<Put(c, Named(c))>>
    \o Each(LAMBDA p : PersonWrites(c, p), entities.people)
    \o Each(LAMBDA s : SupplierWrites(c, s), entities.suppliers)
    \o Each(LAMBDA r : OtherWrites(c, r, entities.others), entities.others)

\* The entities a text may mention, the company itself by its name's key.
EntityNames(c, entities) ==
  {<<"Company", entities.name>>}
    \cup Range([i \in DOMAIN entities.people |-> entities.people[i].person])
    \cup Range([i \in DOMAIN entities.suppliers |-> entities.suppliers[i].supplier])
    \cup {<<"Country", s.country>> : s \in {x \in Range(entities.suppliers) : x.country # None}}
    \cup Range([i \in DOMAIN entities.others |-> entities.others[i].target])

\* A mention of an entity nothing made is an edge to no node.
Mentions(d, names) ==
  LET met == Kept(d.names \o d.mentions, names)
  IN  Each(LAMBDA n : <<Link2(d.node, "mentions", n, [source_uri |-> d.node[2]])>>, met)

------------------------------------------------------------------------------
(* 13F holdings.                                                           *)

\* What the lines of one company come to.
ValueOf(lines, c) ==
  LET sum[i \in 0..Len(lines)] ==
        IF i = 0 THEN 0 ELSE IF lines[i].company = c THEN sum[i - 1] + lines[i].value ELSE sum[i - 1]
  IN  sum[Len(lines)]

\* The lines of one company are one holding; a line of no company we hold is
\* only counted.
Holdings(g, filing) ==
  [c \in {n \in NodesOfKind(g, "Company") : \E l \in Range(filing.lines) : l.company = n} |->
     ValueOf(filing.lines, c)]

FundWrites(g, filing) ==
  LET held == Holdings(g, filing)
  IN  <<Put(filing.fund, [name |-> filing.fund[2], resolved |-> Cardinality(DOMAIN held)])>>
        \o Each(LAMBDA c : <<Link2(filing.fund, "holds", c,
                                   [value |-> held[c], valid_from |-> filing.period])>>,
                SetToSeq(DOMAIN held))

------------------------------------------------------------------------------
Extracted == Apply(TrackedOnly, Extraction(<<>>))

\* The registries are ingested into what a first extraction left.
JobsInit ==
  /\ NoWalk /\ published = {} /\ jobs = 0 /\ fed = {} /\ listed = {} /\ stated = <<>>
  /\ covering \in BOOLEAN
  /\ graph = IF covering THEN Extracted ELSE TrackedOnly

Publish ==
  /\ jobs < MaxJobs
  /\ \E i \in (DOMAIN Corpus) \ published : published' = published \cup {i}
  /\ UNCHANGED <<graph, walkVars, jobs, registryVars>>

Job(writes) ==
  /\ graph' = Apply(graph, writes)
  /\ jobs' = IF graph' = graph THEN jobs ELSE jobs + 1
  /\ jobs' <= MaxJobs
  /\ UNCHANGED <<walkVars, published, registryVars>>

Published == Those(Corpus, published)

ExtractRelationships == Job(Extraction(Published))

ProjectCompany == \E c \in DOMAIN Curated : Job(CompanyEntities(c, Curated[c]))

LinkMentions ==
  \E i \in published :
    LET d == Corpus[i]
    IN  d.by \in DOMAIN Curated /\
        Job(<<Put(d.node, [title |-> d.node[2]])>> \o Mentions(d, EntityNames(d.by, Curated[d.by])))

IngestHoldings == \E f \in Filings : Job(FundWrites(graph, f))

\* The nodes an issuer's identity leads to.
Issued(g, issuer) ==
  LET scheme == IdentityScheme(issuer.market) IN Carriers(g, scheme, AnchorOf(issuer, scheme))

RegistryJob == jobs < MaxRegistryJobs /\ jobs' = jobs + 1 /\ UNCHANGED <<walkVars, published, covering>>

RunCoverage ==
  /\ RegistryJob
  /\ \E feed \in Feeds :
       /\ graph' = IngestCoverage(graph, feed)
       /\ fed' = fed \cup {feed}
       /\ listed' = listed \cup Range(ListIssuers(feed).records)
  /\ UNCHANGED stated

\* A live run without a company to ask about ends before it begins.
RunOwnership ==
  /\ RegistryJob
  /\ \E register \in Registered :
       /\ register.provider = "psc-live" => CoveredGbCompanyNumbers(graph) # <<>>
       /\ graph' = IngestRegister(graph, register)
       /\ stated' = stated \o ListOwnership(graph, register)
  /\ UNCHANGED <<fed, listed>>

\* The extraction of a later ingestion, between the registries.
ExtractAgain ==
  /\ RegistryJob
  /\ graph' = Apply(graph, Extraction(<<>>))
  /\ listed' = {i \in listed : Issued(graph, i) \cap Tracked = {}}
  /\ UNCHANGED <<fed, stated>>

\* Bound: a behaviour projects, or walks over what WriteEdge wrote, where
\* ProjectReferences stands for the extraction, or ingests registries, which rest
\* when their jobs are done.
Projecting == ~covering /\ ask = Idle /\ (projected \/ graph.edges = <<>>)

JobsNext ==
  \/ ~covering /\ ~projected /\ published = {} /\ Next /\ UNCHANGED jobVars
  \/ Projecting /\ Publish
  \/ Projecting /\ ExtractRelationships
  \/ Projecting /\ ProjectCompany
  \/ Projecting /\ LinkMentions
  \/ Projecting /\ IngestHoldings
  \/ covering /\ RunCoverage
  \/ covering /\ RunOwnership
  \/ covering /\ ExtractAgain
  \/ covering /\ jobs = MaxRegistryJobs /\ UNCHANGED <<vars, jobVars>>

JobsSpec == JobsInit /\ [][JobsNext]_<<vars, jobVars>>

------------------------------------------------------------------------------
(* Properties.                                                             *)

\* Only a mention may lead to a node that nothing made.
EndsOnGraph ==
  \A e \in EdgeSet(graph) :
    HasNode(graph, e.src) /\ (e.rel # "mentions" => HasNode(graph, e.dst))

\* Type invariant.
JobsTypeOK ==
  /\ ~projected /\ ~covering => TypeOK
  /\ published \subseteq DOMAIN Corpus
  /\ fed \subseteq Feeds /\ (~covering => fed = {} /\ stated = <<>>)
  /\ ~covering => EndsOnGraph

Asked(g) == <<EntityAnswers(g, "public"), EventAnswers(g), FundAnswers(g, "public", NoDate),
              PanelAnswers(g, "public", NoDate)>>

\* The disk store drops the edges one of whose nodes is missing; no question of
\* the API is answered differently for it, whatever the jobs have projected.
BackendsAgree == projected => Asked(graph) = Asked(BulkLoad(graph))

\* Who is exposed to a country through a supplier is the same asked from the
\* country's side (exposure_to_country) and from the company's
\* (company_country_exposures, which raises the alerts).
ExposureIsSymmetric ==
  projected =>
    \A c \in DOMAIN graph.nodes :
      CompanyCountryExposures(graph, c) =
        {[country |-> p[1], via |-> p[2].via] : p \in
           UNION {{n} \X {x \in ExposureToCountry(graph, n[2]).exposed : x.company = c} :
                    n \in NodesOfKind(graph, "Country")}}

\* The menu, the breakdown and the exposure count one sector alike, and a bucket
\* of a fund's profile is inside what the event on that sector exposes of it.
SectorViewsAgree ==
  projected =>
    /\ \A s \in DOMAIN ListSectors(graph) :
         /\ GicsBreakdown(graph)[s].companies = ListSectors(graph)[s]
         /\ CompaniesInSector(graph, s) \subseteq SectorExposure(graph, s).direct
         /\ Cardinality(CompaniesInSector(graph, s)) = ListSectors(graph)[s]
    /\ \A f \in NodesOfKind(graph, "Fund") :
         LET profile == PortfolioProfile(graph, f, "public", NoDate)
             touched(s) == PortfolioExposure(graph, f, "sector", s, "public", NoDate)
         IN  \A s \in DOMAIN profile.by_sector :
               /\ profile.by_sector[s] \subseteq DOMAIN touched(s).exposed
               /\ touched(s).exposed_value <= profile.total_value

\* No job on the snapshot takes back an exposure that another, or an earlier run of itself, has
\* shown: evidence is only added.
DirectExposureGrows ==
  [][projected => \A e \in Events(graph) :
       ExposedKeys(graph, e[1], e[2]) \subseteq ExposedKeys(graph', e[1], e[2])]_<<vars, jobVars>>

\* Whatever jobs have run, in any order, every question has one answer: on
\* either backend, from either end of a relation, in a list or in a total.
AnswersSound == JobsTypeOK /\ BackendsAgree /\ ExposureIsSymmetric /\ SectorViewsAgree

------------------------------------------------------------------------------
(* The registries.                                                         *)

\* No two companies of the listed universe have one CIK or one ISIN, whichever
\* of a list, a register and the tracked companies was first.
OneNodePerIssuer ==
  \A n \in NodesOfKind(graph, "Company"), scheme \in {"cik", "isin"} :
    LET identities == {a[2] : a \in {x \in Range(AnchorsOf(graph, n)) : x[1] = scheme}}
        twins == UNION {Carriers(graph, scheme, v) : v \in identities}
    IN  NodeProp(graph, n, "in_universe") = "yes" =>
          \A m \in twins : NodeProp(graph, m, "in_universe") = "yes" => m = n

\* Each share class that a list named leads to its company, the second as the first,
\* and the company is listed, until the extraction writes it anew.
ShareClassesResolve ==
  \A i \in listed : \E n \in Issued(graph, i) :
    /\ NodeProp(graph, n, "in_universe") = "yes"
    /\ i.ticker # None => Contains(AnchorsOf(graph, n), <<"ticker", i.ticker>>)

\* Whoever is in an index is a company that a list of the index named.
MembersAreListed ==
  \A e \in EdgeSet(graph) : e.rel = "constituent_of" =>
    \E feed \in fed : \E m \in Range(ListIndexMemberships(feed)), i \in Range(ListIssuers(feed).records) :
      /\ m.index = e.dst[2] /\ e.src \in Issued(graph, i)
      /\ m.isin = AnchorOf(i, "isin") \/ (m.symbol # None /\ m.symbol = i.ticker)

OwnershipEdges(g) == {e \in EdgeSet(g) : e.rel \in OwnershipRelations}

\* The node n may stand for the party.
Names(g, n, party) ==
  IF party.anchor = NoAnchor THEN n = SurrogateKey(party) ELSE n \in Bearers(g, n[1], party.anchor)

States(e, record) ==
  e.rel = RelationOf(record) /\ Names(graph, e.src, record.holder) /\ Names(graph, e.dst, record.subject)

\* An edge is one statement as its register made it, for the same clearance and the
\* same time, and never the mixture of two; and no statement is without an edge.
OwnersTraceable ==
  /\ \A e \in OwnershipEdges(graph) : \E record \in Range(stated) :
       /\ States(e, record)
       /\ e.props.access_tier = TierOf(record) /\ e.props.source = record.source
       /\ DateProp(e.props, "valid_from") = record.from /\ DateProp(e.props, "valid_to") = record.to
       /\ e.props.share = record.share
  /\ \A record \in Range(stated) : \E e \in OwnershipEdges(graph) : States(e, record)

\* An edge says that its holder was found exactly where that is no placeholder.
FoundIsEarned ==
  \A e \in OwnershipEdges(graph) : e.props.holder_resolved = "yes" <=> ~Placeholder(graph, e.src)

\* A register makes no placeholder for a company that is on the graph already.
EnrichedNotDuplicated ==
  \A s \in DOMAIN graph.nodes : Placeholder(graph, s) =>
    \A a \in Range(AnchorsOf(graph, s)) : \A n \in Bearers(graph, "Company", a) :
      Placeholder(graph, n) \/ Place(graph, s) < Place(graph, n)

\* The lists and the registers find one another by their identifiers in whatever
\* order they are ingested, and what they say is kept as they say it.
RegistersSound ==
  covering => /\ EndsOnGraph /\ OneNodePerIssuer /\ ShareClassesResolve /\ MembersAreListed
              /\ OwnersTraceable /\ FoundIsEarned /\ EnrichedNotDuplicated
=============================================================================
