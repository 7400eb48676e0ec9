-------------------------------- MODULE Llm --------------------------------
(***************************************************************************)
(* The model gateway (llm/) and the analyst route. Its configuration is a  *)
(* file that is read at every use and that a save truncates and then       *)
(* writes: a reader in between finds it unreadable and takes the defaults. *)
(* The admin's update reads, merges and saves without a lock.              *)
(***************************************************************************)
EXTENDS Intelligence

CONSTANTS
  Admins,       \* threads serving the admin's updates
  Analysts,     \* threads serving analyses
  Providers,    \* names of providers: the defaults', and whatever an update names or routes to
  Local,        \* the self-hosted ones, which need no key
  DefaultRoute, \* the provider the defaults route the complex tier to
  Updates,      \* the bodies of the updates: providers, each with a key or "keep", and a route
  Inputs,       \* what an analysis reads: the current and the previous disclosure, countries, question
  Replies,      \* what a model may answer
  MaxUpdates    \* bound: updates begun

IsList(s) == s \in Seq(Range(s))

\* What a parsed disclosure is. A statement has six words and a verb among them,
\* so its key is not the name of a country.
IsDisclosure(d, countries) ==
  /\ IsList(d.sections)
  /\ \A n \in DOMAIN d.sections :
       LET sentences == d.sections[n].sentences
       IN IsList(sentences) /\ \A m \in DOMAIN sentences : sentences[m].prose => sentences[m].key \notin countries

\* What there is to configure, to read and to be answered: an analysis is of one
\* disclosure and at most one before it, and a reply is no JSON, JSON of another
\* shape, or a list of concerns.
ASSUME LlmAssumption ==
  /\ DefaultRoute \in Providers /\ Local \subseteq Providers /\ MaxUpdates \in Nat
  /\ \A update \in Updates : update.route \in Providers
  /\ \A i \in Inputs :
       /\ IsFiniteSet(i.countries) /\ IsDisclosure(i.current, i.countries)
       /\ i.previous = <<>> \/ (i.previous = <<i.previous[1]>> /\ IsDisclosure(i.previous[1], i.countries))
  /\ \A reply \in Replies :
       /\ reply.shape \in {"malformed", "failed", "concerns"}
       /\ reply.shape = "concerns" =>
            IsList(reply.concerns) /\ \A n \in DOMAIN reply.concerns : reply.concerns[n].confidence \in Int

VARIABLES
  file,         \* the configuration file: [state |-> "missing" | "torn" | "saved", ...]
  updates,      \* what each admin thread is doing
  analyses,     \* what each analyst thread is doing
  input,        \* what this company's analyses read
  wanted,       \* (history) the keys the updates so far ask for
  clean,        \* (history) whether no update overlapped another or was cut short
  begun         \* updates begun

llmVars == <<file, updates, analyses, input, wanted, clean, begun>>

NoKeys == [p \in Providers |-> ""]
Defaults == [keys |-> NoKeys, route |-> DefaultRoute]
Torn == [state |-> "torn"]
Waits == [op |-> "waits"]

\* An unreadable file reads as the defaults; a provider it lacks is merged in.
LoadConfig ==
  IF file.state # "saved" THEN Defaults
  ELSE [keys |-> [p \in Providers |-> IF p \in DOMAIN file.keys THEN file.keys[p] ELSE ""], route |-> file.route]

LlmInit ==
  /\ file = [state |-> "missing"]
  /\ updates = [a \in Admins |-> Waits]
  /\ analyses = [n \in Analysts |-> Waits]
  /\ input \in Inputs
  /\ wanted = NoKeys /\ clean = TRUE /\ begun = 0

\* Mutant: a key that is not mentioned is cleared.
MergedKeyCleared(config, update, p) == IF update.keys[p] = "keep" THEN "" ELSE update.keys[p]

\* "None = keep existing; "" = clear; str = set".
MergedKey(config, update, p) == IF update.keys[p] = "keep" THEN config.keys[p] ELSE update.keys[p]

Merge(config, update) ==
  [state |-> "saved", route |-> update.route, keys |-> [p \in DOMAIN update.keys |-> MergedKey(config, update, p)]]

AdminPut(a, update) ==
  /\ updates[a].op = "waits" /\ begun < MaxUpdates
  /\ updates' = [updates EXCEPT ![a] = [op |-> "truncate", config |-> Merge(LoadConfig, update)]]
  /\ wanted' = [p \in Providers |-> IF p \notin DOMAIN update.keys THEN ""
                                    ELSE IF update.keys[p] = "keep" THEN wanted[p] ELSE update.keys[p]]
  /\ clean' = (clean /\ \A b \in Admins : updates[b].op = "waits")
  /\ begun' = begun + 1
  /\ UNCHANGED <<file, analyses, input>>

Truncate(a) ==
  /\ updates[a].op = "truncate"
  /\ file' = Torn
  /\ updates' = [updates EXCEPT ![a].op = "write"]
  /\ UNCHANGED <<analyses, input, wanted, clean, begun>>

\* A write over another's longer one leaves the end of that one behind it.
Write(a) ==
  /\ updates[a].op = "write"
  /\ file' \in {updates[a].config} \union (IF file = Torn THEN {} ELSE {Torn})
  /\ updates' = [updates EXCEPT ![a] = Waits]
  /\ UNCHANGED <<analyses, input, wanted, clean, begun>>

\* The process stops, perhaps between the truncation and the write.
Stop ==
  /\ \E a \in Admins : updates[a].op # "waits"
  /\ updates' = [a \in Admins |-> Waits]
  /\ analyses' = [n \in Analysts |-> Waits]
  /\ clean' = FALSE
  /\ UNCHANGED <<file, input, wanted, begun>>

-----------------------------------------------------------------------------

Available(config) == config.keys[config.route] # "" \/ config.route \in Local
ChangeSets == IF input.previous = <<>> THEN <<>> ELSE <<Diff(input.current, input.previous[1])>>
Events == ExtractEvents(input.current)
Pool == BuildEvidence(ChangeSets, Events)
Reply(n, by, concerns) == analyses' = [analyses EXCEPT ![n] = [op |-> "report", by |-> by, concerns |-> concerns]]
FallBack(n) == Reply(n, "reference", ReferenceConcerns(Focus(input.question), ChangeSets, Events, input.countries))

AskAnalyst(n) ==
  /\ analyses[n].op = "waits"
  /\ IF Available(LoadConfig) /\ Pool # <<>>
       THEN analyses' = [analyses EXCEPT ![n] = [op |-> "asks"]]
       ELSE FallBack(n)
  /\ UNCHANGED <<file, updates, input, wanted, clean, begun>>

\* The route is resolved once more; no key, no connection, no JSON and no
\* concern with evidence are LLMErrors, a reply of another shape is not.
Complete(n) ==
  /\ analyses[n].op = "asks"
  /\ IF LoadConfig.route \notin Local /\ LoadConfig.keys[LoadConfig.route] = ""
       THEN FallBack(n)
       ELSE \E reply \in Replies :
              CASE reply.shape = "malformed" -> analyses' = [analyses EXCEPT ![n] = [op |-> "raised", by |-> reply]]
                [] reply.shape = "failed" -> FallBack(n)
                [] reply.shape = "concerns" ->
                     IF LlmConcerns(reply.concerns, Pool) = <<>> THEN FallBack(n)
                     ELSE Reply(n, "llm", LlmConcerns(reply.concerns, Pool))
  /\ UNCHANGED <<file, updates, input, wanted, clean, begun>>

AnalysisRead(n) ==
  /\ analyses[n].op \in {"report", "raised"}
  /\ analyses' = [analyses EXCEPT ![n] = Waits]
  /\ UNCHANGED <<file, updates, input, wanted, clean, begun>>

LlmNext ==
  \/ Stop
  \/ \E a \in Admins : Truncate(a) \/ Write(a) \/ \E update \in Updates : AdminPut(a, update)
  \/ \E n \in Analysts : AskAnalyst(n) \/ Complete(n) \/ AnalysisRead(n)

-----------------------------------------------------------------------------

LlmTypeOK ==
  /\ DOMAIN LoadConfig.keys = Providers /\ LoadConfig.route \in Providers
  /\ \A n \in Analysts : analyses[n].op \in {"waits", "asks", "report", "raised"}

\* Updates that come one after the other and are not cut short lose no key:
\* what is stored is what they asked for, a key they keep among it.
KeysKept == clean /\ (\A a \in Admins : updates[a].op = "waits") => LoadConfig.keys = wanted

\* Every concern of a report, whoever reasoned, cites evidence of this
\* company's changes and events or of its supply chain, with a confidence
\* that is never certainty; no two of the analyst's own are about one thing.
ConcernsAreCited ==
  \A n \in Analysts :
    analyses[n].op = "report" =>
      LET evidence == {c.evidence : c \in Range(FlattenSeq(ChangeSets)) \union Range(Events)} \union {GraphClaim(c) : c \in input.countries}
          concerns == analyses[n].concerns
      IN /\ \A c \in Range(concerns) : /\ c.evidence # {} /\ c.confidence <= MaxConfidence
                                       /\ c.evidence \subseteq evidence
         /\ analyses[n].by = "reference" =>
              \A i, j \in DOMAIN concerns : concerns[i].category = concerns[j].category /\ concerns[i].key = concerns[j].key => i = j

\* The changes turn what the previous disclosure states into what the current
\* one does, and each is cited from the side that has it.
DiffsExplainTheChange ==
  input.previous # <<>> =>
    LET previous == input.previous[1]
        changes == Range(Diff(input.current, previous))
        of(kind) == {c.key : c \in {x \in changes : x.kind = kind}}
    IN /\ (Stated(previous) \ of("removed")) \union of("added") = Stated(input.current)
       /\ of("added") \intersect Stated(previous) = {} /\ of("removed") \intersect Stated(input.current) = {}
       /\ \A c \in changes : c.evidence.document = (IF c.kind = "added" THEN input.current ELSE previous).id

\* A summary quotes its document: every claim is a sentence of the section it
\* names, filed under a category the sentence has and the bucket is about.
SummariesQuote ==
  input.current.sections # <<>> =>
  LET document == input.current
      summary == Summarise(document)
      quoted(claim) == {row \in Range(Prose(document)) : row.section = claim.section /\ row.sentence.text = claim.text}
  IN \A b \in DOMAIN Buckets : \A claim \in Range(summary.buckets[b]) :
       /\ quoted(claim) # {}
       /\ \E row \in quoted(claim) :
            claim.category \in Buckets[b] \intersect row.sentence.cats \/ (Cued(b, row) /\ row.sentence.cats \intersect Buckets[b] = {})

\* A risk emerges only from something new: a statement added since the
\* previous disclosure, or an event; no signal is ever certain.
SignalsHaveCause ==
  LET signals == Signals(ChangeSets, Events, input.countries, {"patent"})
      new == {c \in Range(FlattenSeq(ChangeSets)) : c.kind = "added"} \union Range(Events)
  IN /\ \A s \in signals : s.strength <= MaxConfidence
     /\ (\E s \in signals : s.type = "emerging_risk") => \E c \in new : c.category \in RiskKinds

\* Another failed attempt never makes a source look better, and one that
\* brought nothing has no reliability but its authority.
FailuresNeverHelp ==
  LET documents == <<input.current>> \o input.previous
  IN input.previous # <<>> => \A authority \in {0, 50, 100}, errors \in 0 .. 3 :
       /\ ScoreSource(authority, documents, errors + 1).score <= ScoreSource(authority, documents, errors).score
       /\ ScoreSource(authority, <<>>, errors).score <= authority \div 2

\* Every conclusion rests on the disclosures, and on no more than they carry.
ReportsGrounded ==
  /\ LlmTypeOK /\ ConcernsAreCited /\ DiffsExplainTheChange
  /\ SummariesQuote /\ SignalsHaveCause /\ FailuresNeverHelp
=============================================================================
