----------------------------- MODULE MCExposure -----------------------------
EXTENDS ExposureJobs
A == <<"Company", "acme">>
B == <<"Company", "bolt">>
C == <<"Company", "core">>
S == <<"Company", "company-lei-1">>
P == <<"Person", "person-ann">>
BothTracked == {A, B}
Unanchored == {S, P}
Open(src, rel, dst) == [src |-> src, rel |-> rel, dst |-> dst, props |-> [access_tier |-> "public"]]
Closed(src, rel, dst) ==
  [src |-> src, rel |-> rel, dst |-> dst,
   props |-> [access_tier |-> "legitimate-interest", valid_from |-> 2, valid_to |-> 2]]
\* A cycle, a common subsidiary, a hidden and a dated owner, a chain to a root.
Owning == {Open(B, "owns", A), Closed(A, "consolidates", B), Open(S, "owns", A), Open(B, "owns", S),
           Closed(P, "beneficial_owner_of", A), Closed(P, "beneficial_owner_of", B),
           Open(A, "owns", S)}
Naming == {Open(A, "references", B), Open(C, "references", B), Open(A, "references", C)}

\* One company with a curated sector, one whose sub-industry is its SIC label.
Config == <<[company |-> A, cik |-> "1", industry |-> "chips", tier |-> "em",
             path |-> [sector |-> "tech", industry_group |-> "semis", sub_industry |-> "chips", code |-> "45"]],
            [company |-> B, cik |-> None, industry |-> "tech", tier |-> "dm", path |-> [sector |-> "tech"]]>>
Texts == <<[node |-> <<"Filing", "f1">>, by |-> A, names |-> <<A, B>>, mentions |-> <<<<"Company", "acme inc">>, C>>,
            subsidiaries |-> <<[key |-> "acme-tw", jurisdiction |-> "taiwan"]>>,
            officers |-> <<>>, directors |-> <<"ann", "bob">>],
           [node |-> <<"Filing", "f2">>, by |-> A, names |-> <<B>>, mentions |-> <<>>,
            subsidiaries |-> <<[key |-> "acme-tw", jurisdiction |-> "japan"]>>,
            officers |-> <<"ann">>, directors |-> <<>>],
           [node |-> <<"Filing", "f3">>, by |-> B, names |-> <<A>>, mentions |-> <<>>,
            subsidiaries |-> <<[key |-> "bolt-tw", jurisdiction |-> "taiwan"]>>,
            officers |-> <<"bob">>, directors |-> <<>>]>>
Known == A :> [name |-> "acme inc",
               people |-> <<[person |-> <<"Person", "ann">>, previously |-> <<B>>]>>,
               suppliers |-> <<[supplier |-> C, country |-> "taiwan"], [supplier |-> B, country |-> None]>>,
               others |-> <<[rel |-> "competes_with", target |-> C],
                            [rel |-> "operates_in", target |-> <<"Country", "japan">>],
                            [rel |-> "produces", target |-> <<"Product", "wafer">>],
                            [rel |-> "uses_technology", target |-> <<"Technology", "euv">>]>>]
Stock == [commodities |-> <<[key |-> "oil", sectors |-> <<"tech", "energy">>]>>,
          debt |-> <<[key |-> "jgb", country |-> "japan"]>>]
Fund == <<"Fund", "fund-1">>
Books == {[fund |-> Fund, period |-> 1, lines |-> <<[company |-> A, value |-> 2], [company |-> B, value |-> 1],
                                                  [company |-> A, value |-> 1], [company |-> <<"Company", "unheld">>, value |-> 5]>>],
          [fund |-> Fund, period |-> 2, lines |-> <<[company |-> B, value |-> 4], [company |-> C, value |-> 1]>>]}

\* Two share classes of the tracked company, another issuer that renames, and rows
\* that are left out; a list whose columns have changed.
SecRow(cik, name, ticker, exchange) ==
  [cik |-> cik, name |-> name, ticker |-> ticker, exchange |-> exchange, short |-> FALSE]
Sec(rows) == [market |-> "US", sec |-> [columns |-> TRUE, rows |-> rows]]
NseRow(isin, symbol, series) == [isin |-> isin, symbol |-> symbol, series |-> series, name |-> symbol]
BseRow(isin, id, status) ==
  [isin |-> isin, id |-> id, code |-> "500", name |-> None, status |-> status, instrument |-> "equity", symbol |-> None]
LseRow(isin, tidm, number) ==
  [isin |-> isin, tidm |-> tidm, number |-> number, name |-> tidm, sedol |-> None, segment |-> "aim"]
InIndex(index, isin, symbol) == [index |-> index, isin |-> isin, symbol |-> symbol]
Lists ==
  {Sec(<<SecRow("1", "acme", "ACA", "NYSE"), SecRow("1", "acme", "ACB", "NYSE"), SecRow("2", "zed", "ZED", "NASDAQ"),
         SecRow("3", "shell", "SHL", "OTC"), SecRow(None, "blank", "BLK", "NYSE")>>),
   Sec(<<SecRow("2", "zed two", "ZDT", "NYSE")>>),
   [market |-> "IN",
    nse |-> [columns |-> TRUE, rows |-> <<NseRow("in1", "INA", "EQ"), NseRow("in1", "INB", "BE"), NseRow("in4", "BND", "GB"),
                                          NseRow(None, "BLK", "EQ")>>],
    bse |-> [supplied |-> TRUE, readable |-> TRUE,
             rows |-> <<BseRow("in1", "INA", "active"), BseRow("in2", "INC", None), BseRow("in3", "OLD", "delisted")>>],
    constituents |-> <<InIndex("nifty", "in1", None), InIndex("nifty", None, "INC"), InIndex("nifty", "in3", "OLD"),
                       InIndex("nifty", None, None)>>],
   [market |-> "GB",
    lse |-> [columns |-> TRUE, named |-> TRUE, rows |-> <<LseRow("gb1", "BRT", "100"), LseRow("gb2", "CRN", None), LseRow(None, "BLK", None)>>],
    constituents |-> <<InIndex("ftse", "gb9", "BRT")>>]}

Right(right, band) == [right |-> right, band |-> band]
Psc(kind, name, natures, number, registry, from, to) ==
  [kind |-> kind, name |-> name, natures |-> natures, number |-> number, registry |-> registry,
   notified |-> from, ceased |-> to]
ByShares == <<Right("influence", 0), Right("shares", 1), Right("voting", 2), Right("other", 0)>>
Ann == Psc("individual", "ann", ByShares, None, None, 1, 2)
AnnAgain == Psc("individual", "ann", ByShares, None, None, 3, 0)
Hidden2 == Psc("super-secure", None, <<>>, None, None, 1, 0)
Holding == Psc("corporate", "bridge", <<Right("shares", 3)>>, "200", "uk", 1, 0)
Foreign == Psc("legal-person", None, <<Right("voting", 1)>>, "77", "abroad", 0, 0)
Nobody == Psc("statement", None, <<>>, None, None, 0, 0)
Odd == Psc("other", None, <<>>, None, None, 0, 0)
Relating(type, child, parent, status) ==
  [type |-> type, child |-> child, parent |-> parent, status |-> status,
   periods |-> <<[type |-> "document", start |-> 1, end |-> 0], [type |-> "accounting", start |-> 2, end |-> 3]>>]
Control(subject, person, entity, share) ==
  [subject |-> subject, person |-> person, entity |-> entity, share |-> share, interest |-> "shareholding",
   start |-> 1, end |-> 0]
Publications ==
  {[provider |-> "psc",
    lists |-> <<[number |-> "100", name |-> "brunt", items |-> <<Ann, AnnAgain, Hidden2, Holding, Nobody, Odd>>],
                [number |-> "200", name |-> None, items |-> <<Foreign>>], [number |-> None, name |-> None, items |-> <<Ann>>]>>],
   [provider |-> "psc-live", answers |-> "100" :> <<AnnAgain, Foreign>>],
   [provider |-> "gleif-l2",
    payloads |-> <<<<Relating("direct", "lei2", "lei1", "ACTIVE"), Relating("ultimate", "lei2", "lei1", None),
                     Relating("direct", "lei3", "lei2", "LAPSED"), Relating("other", "lei1", "lei3", None)>>>>],
   [provider |-> "bods",
    export |-> [entities |-> [e1 |-> [name |-> "acme", identifiers |-> <<<<"cik", "1">>>>],
                              e2 |-> [name |-> "inca", identifiers |-> <<<<"isin", "in1">>, <<"lei", "lei2">>>>],
                              e3 |-> [name |-> "brunt", identifiers |-> <<<<"isin", "gb1">>>>],
                              e4 |-> [name |-> "plain", identifiers |-> <<>>]],
                persons |-> [p1 |-> "ann"],
                controls |-> <<Control("e2", None, "e1", [exact |-> 30]), Control("e3", "p1", None, [minimum |-> 25, maximum |-> 50]),
                               Control("e4", None, "e3", [minimum |-> 75]), Control("e9", "p1", None, <<>>),
                               Control("e1", "p9", "e9", <<>>)>>]]}
=============================================================================
