---------------------------- MODULE MCServingApi ----------------------------
EXTENDS ServingApi

MCLimit == [free |-> 1, pro |-> 2, enterprise |-> 3]
MCAsked == {{}, {"enterprise"}, {"admin", "enterprise"}}

\* Companies that share tickers but for their punctuation, names but for
\* their suffix, and identifiers; rows that only one method places.
Name(core, suffix) == [core |-> core, suffix |-> suffix]
Ticker(letters, marks) == [letters |-> letters, marks |-> marks]
Company(key, tickers, isins, sedols, name) ==
  [key |-> key, tickers |-> tickers, isins |-> isins, sedols |-> sedols, name |-> name]
Position(ticker, isin, sedol, name) == [ticker |-> ticker, isin |-> isin, sedol |-> sedol, name |-> name]

Alpha == Company("alpha", {Ticker("BRKB", "."), Ticker("GOOG", "")}, {"isin1"}, {}, Name("alpha", "inc"))
Beta == Company("beta", {Ticker("BRKB", "")}, {}, {"sedol1"}, Name("alpha", ""))
Gamma == Company("gamma", {Ticker("GOOGL", "")}, {"isin1"}, {"sedol1"}, Name("gamma", ""))
MCUniverses == {<<Alpha, Beta, Gamma>>, <<Beta, Gamma, Alpha>>, <<>>}
MCBooks ==
  { << Position(Ticker("BRKB", ""), Absent, Absent, Absent),
       Position(Ticker("BRKB", "."), Absent, Absent, Absent),
       Position(Ticker("BRKB", "-"), Absent, Absent, Absent),
       Position(Absent, Absent, Absent, Absent) >>,
    << Position(Ticker("ZZ", ""), "isin1", Absent, Absent),
       Position(Absent, "isin9", "sedol1", Absent),
       Position(Absent, Absent, Absent, Name("alpha", "")),
       Position(Absent, Absent, Absent, Name("alpha", "corp")),
       Position(Absent, Absent, Absent, Name("delta", "")) >> }

\* One document of every tier that matters, and one that comes back withheld.
Document(id, terms, props) == [id |-> id, terms |-> terms, props |-> props]
MCDocuments ==
  {Document("a", {"rate"}, [title |-> "t"]), Document("a", {"court"}, [access_tier |-> "restricted-authority"]),
   Document("b", {"rate", "court"}, [access_tier |-> "public"]),
   Document("c", {"rate", "court"}, [access_tier |-> "internal"])}
MCQueries == {{"rate"}, {"rate", "court"}}
MCSimilarity == [x \in MCQueries \X {"a", "b", "c"} |-> IF x[2] = "a" THEN 30 ELSE IF x[2] = "b" THEN -20 ELSE 0]

\* Two disclosures that reword, move, add and drop statements, in sections
\* one of which is management's outlook.
Sentence(key, text, cats) == [key |-> key, text |-> text, cats |-> cats, prose |-> TRUE]
Guidance == Sentence("k1", "lowered", {"guidance", "financial"})
Court == Sentence("k2", "court", {"litigation", "risk"})
CourtReworded == [Court EXCEPT !.text = "Court"]
Product == Sentence("k3", "launched after a settlement", {"litigation", "product"})
Plain == Sentence("k4", "plain", {})
Contents == [Court EXCEPT !.prose = FALSE, !.key = "k9", !.text = "contents"]
Disclosure(id, outlook, notes) ==
  [id |-> id, dated |-> TRUE,
   sections |-> <<[title |-> "outlook", sentences |-> outlook], [title |-> "notes", sentences |-> notes]>>]
Old == Disclosure("old", <<Guidance, Plain>>, <<Court, Contents>>)
New == Disclosure("new", <<CourtReworded, Guidance>>, <<Product, Court, Plain>>)
Input(current, previous, countries, question) ==
  [current |-> current, previous |-> previous, countries |-> countries, question |-> question]
MCInputs ==
  {Input(New, <<Old>>, {"india"}, "risks"), Input(Old, <<New>>, {}, "upside"), Input(Old, <<>>, {}, "risks"),
   Input([Old EXCEPT !.sections = <<>>], <<Old>>, {}, "risks"),
   Input([Old EXCEPT !.sections = <<>>], <<>>, {}, "risks")}

\* The last leaves a provider out and routes to one that nobody configured.
MCUpdates ==
  {[keys |-> [hosted |-> "k1", local |-> "keep"], route |-> "hosted"],
   [keys |-> [hosted |-> "keep", local |-> "keep"], route |-> "local"],
   [keys |-> [hosted |-> "keep"], route |-> "unlisted"]}
Raw(ids, severity, confidence) == [ids |-> ids, severity |-> severity, confidence |-> confidence]
MCReplies ==
  {[shape |-> "malformed"], [shape |-> "failed"],
   [shape |-> "concerns", concerns |-> <<Raw({1, 9}, "high", 99), Raw({}, "low", 10), Raw({9}, "dire", -5)>>],
   [shape |-> "concerns", concerns |-> <<Raw({9}, "dire", 50)>>]}

MCSymmetry == Permutations(Workers) \union Permutations(Callers)
=============================================================================
