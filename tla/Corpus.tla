------------------------------- MODULE Corpus -------------------------------
(***************************************************************************)
(* The documents the API serves (search/ and the document routes). The     *)
(* engine is loaded from the catalog when the process starts; summaries    *)
(* are read from the intelligence store at every request, and ingestion    *)
(* goes on in another process. A document is its id, its terms and its     *)
(* metadata, which may carry an access tier.                               *)
(***************************************************************************)
EXTENDS Integers, Sequences, SequencesExt, FiniteSets

CONSTANTS
  Documents,    \* what ingestion may write; an id may come back changed
  Queries,      \* sets of terms
  Similarity,   \* <<query, id>> -> the cosine of the hashed vectors, in hundredths
  Depths        \* the top_k asked for

Store == INSTANCE GraphStore

ASSUME CorpusAssumption ==
  /\ \A d \in Documents : /\ {"id", "terms", "props"} \subseteq DOMAIN d
                          /\ "access_tier" \in DOMAIN d.props => d.props.access_tier # Store!None
  /\ \A query \in Queries : IsFiniteSet(query) /\ query # {}
  /\ \A query \in Queries, d \in Documents : Similarity[<<query, d.id>>] \in Int
  /\ Depths \subseteq Nat \ {0}

VARIABLES
  catalog,      \* the stored documents, in their order
  engine,       \* HybridRetrievalEngine._documents, in insertion order
  summaries     \* the ids that have a stored summary

corpusVars == <<catalog, engine, summaries>>

CorpusInit == catalog = <<>> /\ engine = <<>> /\ summaries = {}

Put(documents, d) ==
  IF \E i \in DOMAIN documents : documents[i].id = d.id
    THEN [i \in DOMAIN documents |-> IF documents[i].id = d.id THEN d ELSE documents[i]]
    ELSE Append(documents, d)

Publish(d) ==
  /\ catalog' = Put(catalog, d)
  /\ summaries' = summaries \union {d.id}
  /\ UNCHANGED engine

\* load_engine, at the start of the process.
LoadEngine ==
  /\ engine' = catalog
  /\ UNCHANGED <<catalog, summaries>>

CorpusNext == LoadEngine \/ \E d \in Documents : Publish(d)

-----------------------------------------------------------------------------

\* The public read surface gives every caller the public clearance.
DocumentVisible(d) == Store!CanSee(d, "public")
VisibleDocuments == {i \in DOMAIN engine : DocumentVisible(engine[i])}

Blended(query, d) ==
  LET similarity == Similarity[<<query, d.id>>]
  IN (100 * Cardinality(query \intersect d.terms)) \div Cardinality(query)
       + (IF similarity > 0 THEN similarity ELSE 0)

\* The order of the answers to a query: by score, ties in the engine's order.
\* Documents are named by their places in the engine.
Before(query, i, j) ==
  \/ Blended(query, engine[i]) > Blended(query, engine[j])
  \/ Blended(query, engine[i]) = Blended(query, engine[j]) /\ i < j

\* The best top_k of the documents at these places that score at all.
Retrieve(places, query, topK) ==
  LET scoring == {i \in places : Blended(query, engine[i]) > 0}
  IN {i \in scoring : Cardinality({j \in scoring : Before(query, j, i)}) < topK}

\* The clearance is applied to what the engine returned.
PublicRetrieve(query, topK) == Retrieve(DOMAIN engine, query, topK) \intersect VisibleDocuments

\* Mutant: the document behind a summary is looked for among the visible.
BackingVisible(id) == {engine[i] : i \in {j \in VisibleDocuments : engine[j].id = id}}

Backing(id) == {d \in Range(engine) : d.id = id}

SummaryServed(id) == id \in summaries /\ \A d \in Backing(id) : DocumentVisible(d)

-----------------------------------------------------------------------------

CorpusTypeOK ==
  /\ Range(catalog) \subseteq Documents /\ Range(engine) \subseteq Documents
  /\ \A i, j \in DOMAIN engine : engine[i].id = engine[j].id => i = j

IsPublic(d) == "access_tier" \notin DOMAIN d.props \/ d.props.access_tier = "public"

\* What a query returns is the beginning of what it would return if the
\* other documents did not exist: they cost places, never change the order.
PublicAnswersAreAPrefix ==
  \A query \in Queries, topK \in Depths :
    LET alone == Retrieve({i \in DOMAIN engine : IsPublic(engine[i])}, query, topK)
        shown == PublicRetrieve(query, topK)
    IN /\ shown \subseteq alone
       /\ \A i \in shown, j \in alone : Before(query, j, i) => j \in shown

\* Every public document that ranks above a returned one is returned, and a
\* public one that scores is dropped only if so many score as well as it does.
NothingBetterIsDropped ==
  \A query \in Queries, topK \in Depths :
    LET score(i) == Blended(query, engine[i])
        ranked == {i \in DOMAIN engine : score(i) > 0}
        shown == PublicRetrieve(query, topK)
    IN \A i \in ranked : IsPublic(engine[i]) =>
         /\ (\E j \in shown : score(i) > score(j)) => i \in shown
         /\ i \notin shown => Cardinality({j \in ranked : score(j) >= score(i)}) > topK

\* No summary is served of a document the engine holds and the caller may
\* not see, even if the stored summary is newer than the engine.
SummariesFollowTheEngine ==
  \A id \in summaries : SummaryServed(id) => \A d \in Range(engine) : d.id = id => IsPublic(d)

\* What the public reads, whatever ingestion has written since the start.
PublicAnswersSound == CorpusTypeOK /\ PublicAnswersAreAPrefix /\ NothingBetterIsDropped /\ SummariesFollowTheEngine
=============================================================================
