------------------------------ MODULE Universe ------------------------------
(* coverage/: the lists of the exchanges become issuer records, and the    *)
(* records Company nodes. A list is a sequence of rows whose cells are     *)
(* trimmed and upper-cased already, None where a cell is blank or its      *)
(* column is missing; an anchor is a pair <<scheme, value>>.                         *)
EXTENDS GraphStore

Or(a, b) == IF a # None THEN a ELSE b
Optional(name, value) == IF value = None THEN <<>> ELSE name :> value
Present(anchors) == SelectSeq(anchors, LAMBDA a : a[2] # None)
Distinct(s) == FoldLeft(LAMBDA acc, x : IF Contains(acc, x) THEN acc ELSE Append(acc, x), <<>>, s)

Issuer(market, name, ticker, exchange, source, anchors) ==
  [market |-> market, name |-> name, ticker |-> ticker, exchange |-> exchange,
   source |-> source, anchors |-> Present(anchors)]

\* The first anchor of a scheme.
AnchorOf(issuer, scheme) ==
  LET of == SelectSeq(issuer.anchors, LAMBDA a : a[1] = scheme)
  IN  IF of = <<>> THEN None ELSE Head(of)[2]

------------------------------------------------------------------------------
(* The lists. What is left out is counted by reason.                       *)

IsRealExchange(exchange) == exchange \notin {None, "OTC"}

\* A row too short for its columns is not even counted.
ParseCompanyTickersExchange(list) ==
  LET rows == SelectSeq(list.rows, LAMBDA r : ~r.short)
      keyed == SelectSeq(rows, LAMBDA r : r.cik # None)
      kept == SelectSeq(keyed, LAMBDA r : IsRealExchange(r.exchange))
      issuer(r) == Issuer("US", r.name, r.ticker, r.exchange, "sec-company-tickers",
                          <<<<"cik", r.cik>>, <<"ticker", r.ticker>>>>)
  IN  IF list.columns
      THEN [records |-> [i \in DOMAIN kept |-> issuer(kept[i])],
            excluded |-> [no_cik |-> Len(rows) - Len(keyed),
                          otc_or_blank_exchange |-> Len(keyed) - Len(kept)]]
      ELSE [records |-> <<>>, excluded |-> [malformed |-> Len(list.rows)]]

\* Without a series column, or in a blank cell, a row counts as equity.
ParseNseEquityList(list) ==
  LET equity == SelectSeq(list.rows, LAMBDA r : r.series \in {None, "EQ", "BE"})
      kept == SelectSeq(equity, LAMBDA r : r.isin # None)
  IN  IF list.columns
      THEN [rows |-> kept, drops |-> [nse_non_equity_series |-> Len(list.rows) - Len(equity),
                                      nse_blank_isin |-> Len(equity) - Len(kept)]]
      ELSE [rows |-> <<>>, drops |-> [nse_malformed |-> 1]]

\* A list that was not supplied drops nothing.
ParseBseScripList(list) ==
  LET active == SelectSeq(list.rows, LAMBDA r : r.status \in {None, "active"})
      equity == SelectSeq(active, LAMBDA r : r.instrument \in {None, "equity"})
      kept == SelectSeq(equity, LAMBDA r : r.isin # None)
  IN  CASE ~list.supplied -> [rows |-> <<>>, drops |-> <<>>]
        [] list.supplied /\ ~list.readable -> [rows |-> <<>>, drops |-> [bse_malformed |-> 1]]
        [] OTHER -> [rows |-> kept, drops |-> [bse_inactive |-> Len(list.rows) - Len(active),
                                               bse_non_equity |-> Len(active) - Len(equity),
                                               bse_blank_isin |-> Len(equity) - Len(kept)]]

NoRow == [symbol |-> None, id |-> None, code |-> None, name |-> None]

\* The first row of an ISIN, NoRow when the exchange does not list it.
RowOf(rows, isin) ==
  LET of == SelectSeq(rows, LAMBDA r : r.isin = isin) IN IF of = <<>> THEN NoRow ELSE Head(of)

\* One record for an ISIN with the symbols of both exchanges; NSE goes first, and
\* its name stands, blank or not, where it lists the company.
UnifyIndiaIssuers(nseRows, bseRows) ==
  LET isins(rows) == [i \in DOMAIN rows |-> rows[i].isin]
      order == Distinct(isins(nseRows) \o isins(bseRows))
      issuer(isin) ==
        LET nse == RowOf(nseRows, isin)
            bse == RowOf(bseRows, isin)
            onNse == Contains(isins(nseRows), isin)
            onBse == Contains(isins(bseRows), isin)
            ticker == Or(nse.symbol, bse.id)
            name == IF onNse THEN nse.name ELSE bse.name
            venue == CASE onNse /\ onBse -> "NSE & BSE" [] onNse /\ ~onBse -> "NSE" [] OTHER -> "BSE"
        IN  Issuer("IN", Or(name, Or(ticker, isin)), ticker, venue, "nse-bse-equity-list",
                   <<<<"isin", isin>>, <<"ticker", ticker>>, <<"bse_code", bse.code>>>>)
  IN  [i \in DOMAIN order |-> issuer(order[i])]

\* Without a column of names a company goes by its ticker.
ParseLseCompanyList(list) ==
  LET kept == SelectSeq(list.rows, LAMBDA r : r.isin # None)
      venue(r) == IF r.segment = "aim" THEN "LSE AIM" ELSE "LSE Main Market"
      name(r) == IF list.named THEN r.name ELSE Or(r.tidm, r.isin)
      issuer(r) == Issuer("GB", name(r), r.tidm, venue(r), "lse-company-list",
                          <<<<"isin", r.isin>>, <<"ticker", r.tidm>>, <<"sedol", r.sedol>>,
                            <<"company_number", r.number>>>>)
  IN  IF list.columns
      THEN [records |-> [i \in DOMAIN kept |-> issuer(kept[i])],
            excluded |-> [gb_blank_isin |-> Len(list.rows) - Len(kept)]]
      ELSE [records |-> <<>>, excluded |-> [gb_malformed |-> 1]]

\* A constituent is known by its ISIN or its symbol.
ParseIndexConstituents(rows) == SelectSeq(rows, LAMBDA r : r.isin # None \/ r.symbol # None)

ListIssuers(feed) ==
  CASE feed.market = "US" -> ParseCompanyTickersExchange(feed.sec)
    [] feed.market = "IN" ->
         LET nse == ParseNseEquityList(feed.nse)
             bse == ParseBseScripList(feed.bse)
         IN  [records |-> UnifyIndiaIssuers(nse.rows, bse.rows), excluded |-> nse.drops @@ bse.drops]
    [] feed.market = "GB" -> ParseLseCompanyList(feed.lse)

\* The SEC publishes no index.
ListIndexMemberships(feed) ==
  IF feed.market = "US" THEN <<>> ELSE ParseIndexConstituents(feed.constituents)

------------------------------------------------------------------------------
(* The nodes. A node these jobs make has its place in the store's order    *)
(* among its properties; one that was there before has none.               *)

Place(g, n) == IF "place" \in DOMAIN g.nodes[n] THEN g.nodes[n].place ELSE 0
AnchorsOf(g, n) == IF "anchors" \in DOMAIN g.nodes[n] THEN g.nodes[n].anchors ELSE <<>>
Oldest(g, nodes) == CHOOSE n \in nodes : \A m \in nodes : Place(g, n) <= Place(g, m)

IdentityScheme(market) == IF market = "US" THEN "cik" ELSE "isin"

\* The companies an index of one scheme knows by a value: a CIK is a property of
\* its own, the others are anchors.
Carriers(g, scheme, value) ==
  {n \in NodesOfKind(g, "Company") :
     IF scheme = "cik" THEN NodeProp(g, n, "cik") = value
     ELSE Contains(AnchorsOf(g, n), <<scheme, value>>)}

MultiValued == {"ticker", "figi"}

\* Mutant: every scheme has one value.
MergeAnchorsOnce(existing, incoming) ==
  FoldLeft(LAMBDA acc, a : IF \E b \in Range(acc) : b[1] = a[1] THEN acc ELSE Append(acc, a),
           <<>>, existing \o incoming)

\* An identity is written once, tickers gather: each share class has its own.
MergeAnchors(existing, incoming) ==
  FoldLeft(LAMBDA acc, a : IF \E b \in Range(acc) : b[1] = a[1] /\ (a[1] \in MultiValued => b = a)
                           THEN acc ELSE Append(acc, a),
           <<>>, existing \o incoming)

HasGics(props) == Prop(props, "gics_sector") # None \/ Prop(props, "gics_code") # None
Unclassified(props) == IF HasGics(props) THEN <<>> ELSE [gics_status |-> "unresolved"]
Listed(issuer) == [market |-> issuer.market, in_universe |-> "yes", coverage_source |-> issuer.source]

\* A node that is there keeps its name, its source, its sector and its ticker.
Enrich(g, n, issuer) ==
  LET old == g.nodes[n]
  IN  UpsertNode(g, n, Listed(issuer) @@ Optional("exchange", issuer.exchange)
                         @@ [anchors |-> MergeAnchors(AnchorsOf(g, n), issuer.anchors)]
                         @@ old @@ Optional("ticker", issuer.ticker) @@ Unclassified(old))

Create(g, n, issuer) ==
  LET old == IF HasNode(g, n) THEN g.nodes[n] ELSE [place |-> Cardinality(DOMAIN g.nodes)]
      existing == IF HasNode(g, n) THEN AnchorsOf(g, n) ELSE <<>>
  IN  UpsertNode(g, n, [name |-> Or(issuer.name, n[2]), source |-> issuer.source] @@ Listed(issuer)
                         @@ Optional("ticker", issuer.ticker) @@ Optional("exchange", issuer.exchange)
                         @@ Optional("cik", AnchorOf(issuer, "cik"))
                         @@ [anchors |-> MergeAnchors(existing, issuer.anchors)]
                         @@ Unclassified(old) @@ old)

MarketKey(market, value) == <<"Company", market \o "-" \o value>>

\* Enrich the company the identity leads to, or mint a node of the market's.
CoverIssuer(acc, issuer) ==
  LET value == AnchorOf(issuer, IdentityScheme(issuer.market))
      known == Carriers(acc.graph, IdentityScheme(issuer.market), value)
  IN  IF known # {}
      THEN [acc EXCEPT !.graph = Enrich(@, Oldest(@, known), issuer), !.enriched = @ + 1]
      ELSE [acc EXCEPT !.graph = Create(@, MarketKey(issuer.market, value), issuer), !.created = @ + 1]

\* The listed issuer a constituent is: the first with its ISIN, else with its symbol.
Member(issuers, m) ==
  LET byIsin == SelectSeq(issuers, LAMBDA i : m.isin # None /\ AnchorOf(i, "isin") = m.isin)
      bySymbol == SelectSeq(issuers, LAMBDA i : m.symbol # None /\ i.ticker = m.symbol)
  IN  SubSeq(byIsin \o bySymbol, 1, IF byIsin \o bySymbol = <<>> THEN 0 ELSE 1)

\* Links of the constituents this run lists, and one node for each index; what an
\* earlier run linked stays.
IngestIndexMemberships(g, feed, issuers) ==
  LET rows == ListIndexMemberships(feed)
      placed == SelectSeq(rows, LAMBDA m : Member(issuers, m) # <<>>)
      company(m) == LET i == Head(Member(issuers, m))
                        scheme == IdentityScheme(i.market)
                    IN  Oldest(g, Carriers(g, scheme, AnchorOf(i, scheme)))
      link(acc, m) == UpsertEdge(acc, [src |-> company(m), rel |-> "constituent_of",
                                       dst |-> <<"Index", m.index>>, props |-> [source |-> feed.market]])
      count(of, index) == Len(SelectSeq(of, LAMBDA m : m.index = index))
      node(acc, m) == UpsertNode(acc, <<"Index", m.index>>,
                        [name |-> m.index, market |-> feed.market,
                         constituents |-> count(placed, m.index),
                         constituents_unresolved |-> count(rows, m.index) - count(placed, m.index)])
  IN  FoldLeft(node, FoldLeft(link, g, placed), rows)

\* One run of a market's coverage: issuers, indices, and the run's own node.
IngestCoverage(g, feed) ==
  LET list == ListIssuers(feed)
      covered == FoldLeft(CoverIssuer, [graph |-> g, enriched |-> 0, created |-> 0], list.records)
      indexed == IngestIndexMemberships(covered.graph, feed, list.records)
      universe == {n \in NodesOfKind(indexed, "Company") :
                     NodeProp(indexed, n, "market") = feed.market
                       /\ NodeProp(indexed, n, "in_universe") = "yes"}
  IN  UpsertNode(indexed, <<"CoverageRun", feed.market>>,
                 [name |-> feed.market, market |-> feed.market, considered |-> Len(list.records),
                  enriched |-> covered.enriched, created |-> covered.created,
                  excluded |-> list.excluded, universe_total |-> Cardinality(universe)])
=============================================================================
