---------------------------- MODULE Intelligence ----------------------------
(***************************************************************************)
(* The deterministic intelligence layer (intelligence/): what is read off  *)
(* two disclosures of one source. A document is its id, its sections, each *)
(* a title and its sentences, and whether it carries a date and a title; a *)
(* sentence is its normalised key, its wording, the categories its cues    *)
(* name and whether it reads as prose. Confidences and strengths are in    *)
(* hundredths.                                                             *)
(***************************************************************************)
EXTENDS Integers, Selections, SequencesExt

CONSTANTS
  MaxPerBucket,   \* claims kept of one kind
  PoolLimit,      \* evidence items handed to a model
  OpportunityAsks \* the questions that ask for opportunities

ASSUME IntelligenceAssumption == MaxPerBucket \in Nat /\ PoolLimit \in Nat

CategoryCues == <<"executive", "m&a", "capital_allocation", "litigation", "regulatory", "supply_chain",
                  "guidance", "product", "financial", "opportunity", "risk">>
Materiality == <<"guidance", "executive", "m&a", "litigation", "regulatory", "supply_chain",
                 "capital_allocation", "risk", "product", "opportunity", "financial", "general">>
MaterialCategories == {"guidance", "executive", "m&a", "litigation", "regulatory", "supply_chain",
                       "capital_allocation", "risk", "product"}
EventCategories == {"product", "m&a", "executive", "regulatory", "litigation", "guidance",
                    "capital_allocation", "supply_chain"}
MaxConfidence == 80

Rank(order, x) == CHOOSE i \in 1 .. Len(order) + 1 : (i <= Len(order) /\ order[i] = x) \/ i = Len(order) + 1

FirstCue(wanted) ==
  LET named == Those(CategoryCues, {i \in DOMAIN CategoryCues : CategoryCues[i] \in wanted})
  IN IF named = <<>> THEN "general" ELSE named[1]
PrimaryCategory(sentence) == FirstCue(sentence.cats)

\* The prose of a document, section by section.
Rows(document) ==
  FlattenSeq([i \in DOMAIN document.sections |->
    [j \in DOMAIN document.sections[i].sentences |->
       [section |-> document.sections[i].title, sentence |-> document.sections[i].sentences[j]]]])
Prose(document) ==
  LET rows == Rows(document) IN Those(rows, {i \in DOMAIN rows : rows[i].sentence.prose})

Claim(document, row, category) ==
  [text |-> row.sentence.text, section |-> row.section, document |-> document.id, category |-> category]

-----------------------------------------------------------------------------
(* changes.py                                                              *)

StatementIndex(document) ==
  LET rows == Prose(document) IN FirstOfEach(rows, [i \in DOMAIN rows |-> rows[i].sentence.key])
Stated(document) == {row.sentence.key : row \in Range(StatementIndex(document))}

OneSided(kind, document, other) ==
  LET stated == StatementIndex(document)
      rows == Those(stated, {i \in DOMAIN stated : stated[i].sentence.key \notin Stated(other)})
  IN [i \in DOMAIN rows |->
        LET category == PrimaryCategory(rows[i].sentence)
        IN [kind |-> kind, category |-> category, key |-> rows[i].sentence.key,
            evidence |-> Claim(document, rows[i], category)]]

ByMateriality(changes) ==
  Sorted(changes, [i \in DOMAIN changes |->
                     2 * Rank(Materiality, changes[i].category) - (IF changes[i].kind = "added" THEN 1 ELSE 0)])

Diff(current, previous) ==
  ByMateriality(OneSided("added", current, previous) \o OneSided("removed", previous, current))

Material(changes) == \E c \in Range(changes) : c.category \in MaterialCategories

-----------------------------------------------------------------------------
(* events.py and summarizer.py                                             *)

ExtractEvents(document) ==
  LET prose == Prose(document)
      rows == Those(prose, {i \in DOMAIN prose : PrimaryCategory(prose[i].sentence) \in EventCategories})
      first == FirstOfEach(rows, [i \in DOMAIN rows |-> rows[i].sentence.text])
  IN [i \in DOMAIN first |->
        LET category == PrimaryCategory(first[i].sentence)
        IN [category |-> category, key |-> first[i].sentence.key,
            evidence |-> Claim(document, first[i], category)]]

Buckets ==
  [risks |-> {"risk", "supply_chain", "litigation", "regulatory"},
   opportunities |-> {"opportunity", "product"},
   management_commentary |-> {"guidance", "executive"},
   financial_highlights |-> {"financial", "capital_allocation", "guidance"},
   events |-> {"product", "m&a", "executive", "regulatory", "capital_allocation", "litigation"}]

\* Sections whose title alone makes a sentence management commentary.
CommentarySections == {"outlook"}
Cued(bucket, row) == bucket = "management_commentary" /\ row.section \in CommentarySections

BucketCategory(bucket, row) ==
  IF row.sentence.cats \intersect Buckets[bucket] # {}
    THEN FirstCue(row.sentence.cats \intersect Buckets[bucket]) ELSE PrimaryCategory(row.sentence)

Bucket(document, bucket) ==
  LET fits(row) == row.sentence.cats \intersect Buckets[bucket] # {} \/ Cued(bucket, row)
      prose == Prose(document)
      fitting == Those(prose, {i \in DOMAIN prose : fits(prose[i])})
      rows == AtMost(FirstOfEach(fitting, [i \in DOMAIN fitting |-> fitting[i].sentence.text]), MaxPerBucket)
  IN [i \in DOMAIN rows |-> Claim(document, rows[i], BucketCategory(bucket, rows[i]))]

\* One point of every section, the first sentence as the overview.
Summarise(document) ==
  LET rows == Prose(document)
      claim(row) == Claim(document, row, PrimaryCategory(row.sentence))
      points == AtMost(FirstOfEach(rows, [i \in DOMAIN rows |-> rows[i].section]), MaxPerBucket)
  IN [overview |-> IF rows = <<>> THEN <<>> ELSE <<claim(rows[1])>>,
      key_points |-> [i \in DOMAIN points |-> claim(points[i])],
      buckets |-> [b \in DOMAIN Buckets |-> Bucket(document, b)]]

-----------------------------------------------------------------------------
(* analyst.py                                                              *)

Focus(question) == IF question \in OpportunityAsks THEN "opportunity" ELSE "risk"

RuleOf(severity, base) == [severity |-> severity, base |-> base]
RiskRules ==
  [c \in MaterialCategories |->
     CASE c \in {"guidance", "regulatory"} -> RuleOf("high", 72)
       [] c \in {"litigation", "supply_chain"} -> RuleOf("high", 70)
       [] c \in {"executive", "risk"} -> RuleOf("medium", 60)
       [] c \in {"capital_allocation", "m&a"} -> RuleOf("medium", 58)
       [] c = "product" -> RuleOf("low", 50)]
OpportunityRules ==
  [c \in {"opportunity", "product", "m&a", "capital_allocation"} |->
     IF c = "capital_allocation" THEN RuleOf("low", 50) ELSE RuleOf("medium", 55)]
Rules(focus) == IF focus = "opportunity" THEN OpportunityRules ELSE RiskRules
Severities == <<"high", "medium", "low">>

Capped(confidence) == IF confidence > MaxConfidence THEN MaxConfidence ELSE confidence

MaterialOf(changeSets) == FlattenSeq(Those(changeSets, {i \in DOMAIN changeSets : Material(changeSets[i])}))
AsItem(event) == [kind |-> "event", category |-> event.category, key |-> event.key, evidence |-> event.evidence]

\* What the analyst considers: the changes of the material sets, then events.
Considered(changeSets, events) == MaterialOf(changeSets) \o [i \in DOMAIN events |-> AsItem(events[i])]

ConcernKey(item) == <<item.category, item.key>>

GraphClaim(country) ==
  [text |-> country, section |-> "entity graph", document |-> "reference-entities", category |-> "supply_chain"]

GeopoliticalConcerns(focus, countries) ==
  IF focus # "risk" THEN <<>>
  ELSE [i \in DOMAIN SetToSeq(countries) |->
          [category |-> "supply_chain", severity |-> "medium", confidence |-> 55,
           key |-> SetToSeq(countries)[i], evidence |-> {GraphClaim(SetToSeq(countries)[i])}]]

ReferenceConcerns(focus, changeSets, events, countries) ==
  LET items == Considered(changeSets, events)
      ruled == Those(items, {i \in DOMAIN items : items[i].category \in DOMAIN Rules(focus)})
      first == FirstOfEach(ruled, [i \in DOMAIN ruled |-> ConcernKey(ruled[i])])
      rule(i) == Rules(focus)[first[i].category]
      concerns == [i \in DOMAIN first |->
        [category |-> first[i].category, severity |-> rule(i).severity, key |-> first[i].key,
         confidence |-> Capped(rule(i).base + (IF first[i].kind = "added" THEN 5 ELSE 0)),
         evidence |-> {first[i].evidence}]]
      all == concerns \o GeopoliticalConcerns(focus, countries)
  IN Sorted(all, [i \in DOMAIN all |-> (MaxConfidence + 1) * Rank(Severities, all[i].severity) - all[i].confidence])

-----------------------------------------------------------------------------
(* llm_analyst.py                                                          *)

\* The numbered evidence: categorised changes of material sets, and events.
BuildEvidence(changeSets, events) ==
  LET items == Considered(changeSets, events)
      telling == Those(items, {i \in DOMAIN items : items[i].kind = "event" \/ items[i].category # "general"})
  IN AtMost(FirstOfEach(telling, [i \in DOMAIN telling |-> telling[i].evidence.text]), PoolLimit)

\* Mutant: a concern is kept if it cites anything at all.
GroundedAnything(raw, pool) == raw.ids # {}

Grounded(raw, pool) == raw.ids \intersect DOMAIN pool # {}

LlmConcerns(raws, pool) ==
  LET first == AtMost(raws, 6)
      kept == Those(first, {i \in DOMAIN first : Grounded(first[i], pool)})
  IN [i \in DOMAIN kept |->
        [severity |-> IF kept[i].severity \in Range(Severities) THEN kept[i].severity ELSE "medium",
         confidence |-> Capped(IF kept[i].confidence < 0 THEN 0 ELSE kept[i].confidence),
         evidence |-> {pool[n].evidence : n \in kept[i].ids \intersect DOMAIN pool}]]

-----------------------------------------------------------------------------
(* signals.py and reliability.py                                           *)

RiskKinds == {"risk", "regulatory", "litigation"}

Emerging(changes) == {i \in DOMAIN changes : changes[i].category \in RiskKinds /\ changes[i].kind = "added"}

Signals(changeSets, events, countries, types) ==
  LET changes == MaterialOf(changeSets)
      of(category) == {c \in Range(changes) : c.category = category}
      risks == Cardinality(Emerging(changes)) + Cardinality({i \in DOMAIN events : events[i].category \in RiskKinds})
      signal(type, strength) == [type |-> type, strength |-> Capped(strength)]
      lowered == \E c \in of("guidance") : c.evidence.text = "lowered"
  IN  (IF of("guidance") = {} THEN {} ELSE {signal("management_confidence", IF lowered THEN 62 ELSE 55)})
      \union (IF risks = 0 THEN {} ELSE {signal("emerging_risk", 55 + 5 * (IF risks < 3 THEN risks ELSE 3))})
      \union (IF of("supply_chain") = {} THEN {} ELSE {signal("supply_chain_stress", 60)})
      \union (IF "job_posting" \in types THEN {signal("hiring", 50)} ELSE {})
      \union (IF "patent" \in types THEN {signal("patent_momentum", 50)} ELSE {})
      \union (IF of("capital_allocation") = {} THEN {} ELSE {signal("capital_allocation", 55)})
      \union (IF countries = {} THEN {} ELSE {signal("geopolitical", 50 + 5 * Cardinality(countries))})

SuccessRate(count, attempts) == IF attempts = 0 THEN 0 ELSE (100 * count) \div attempts

ScoreSource(authority, documents, errors) ==
  LET count == Len(documents)
      share(have) == IF count = 0 THEN 0 ELSE (100 * Cardinality(have)) \div count
      structured == {i \in DOMAIN documents : Len(documents[i].sections) >= 2}
      dated == {i \in DOMAIN documents : documents[i].dated}
      score == (50 * authority + 20 * share(structured) + 15 * share(dated)
                + 15 * SuccessRate(count, count + errors)) \div 100
  IN [score |-> score, tier |-> IF score >= 85 THEN "high" ELSE IF score >= 70 THEN "medium" ELSE "low"]
=============================================================================
