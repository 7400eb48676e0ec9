-------------------------------- MODULE Feeds --------------------------------
(***************************************************************************)
(* The three cached feeds the API serves from memory: prices, news and     *)
(* country macro. A request reads the clock, decides, fetches over the     *)
(* network without a lock and then writes the cache, so fetches overlap    *)
(* and may end in another order than they began. A thread may be delayed   *)
(* anywhere in between, and stamps what its clock said at the start. Times *)
(* are kept as ages, which stop counting at Horizon.                       *)
(***************************************************************************)
EXTENDS Integers, FiniteSets, Functions

CONSTANTS
  Readers,       \* request threads
  Books,         \* the sets of symbols the routes ask for at once
  Holdings,      \* symbol -> GICS sector, for the holdings of the book
  SectorEtf,     \* GICS sector -> the symbol of its proxy
  Moves,         \* symbol -> the day's move its quote reports
  NewsKeys,      \* the news feeds: global and the countries
  TTL,           \* of every cache
  MinInterval,   \* between two calls to the news source
  MaxFetch       \* bound: how long a request lasts after it has read the clock,
                 \* its delays and the clients' timeout

ASSUME FeedsAssumption ==
  /\ TTL \in Nat /\ MinInterval \in Nat \ {0} /\ MaxFetch \in Nat
  /\ IsFiniteSet(Readers) /\ IsFiniteSet(DOMAIN Holdings)
  /\ \A s \in DOMAIN Holdings : Moves[s] \in Int

VARIABLES
  quotes,      \* symbol -> age of the quote in the cache
  fetchedAt,   \* age of _fetched_at, the one stamp of the price cache
  covered,     \* (history) the symbols the stamping fetch brought
  headlines,   \* news feed -> [stamp, data]: ages of its entry and its articles
  lastCall,    \* age of _last_call
  newsCalls,   \* (history) the recent calls to the news source: by whom, for how long
               \* its clock reading has been made; but not those let through again
  reopened,    \* (history) the threads since whose last call another has taken _last_call back
  tile,        \* the macro entry of a country: [stamp, complete], or Nothing
  shown,       \* whether the last macro answer was complete
  sources,     \* "up" when every macro fetcher answers
  asks         \* what each thread is doing

prices == <<quotes, fetchedAt, covered>>
news == <<headlines, lastCall, newsCalls, reopened>>
macro == <<tile, shown, sources>>
feedVars == <<prices, news, macro, asks>>

Never == -1                             \* a stamp still None
Horizon == TTL + MaxFetch + MinInterval
Older(age) == IF age = Never \/ age = Horizon THEN age ELSE age + 1
Nothing == [stamp |-> Never, complete |-> FALSE]
Idle == [op |-> "idle"]
Turns(t, ask) == asks' = [asks EXCEPT ![t] = ask]

Update(f, g) == [x \in DOMAIN f \union DOMAIN g |-> IF x \in DOMAIN g THEN g[x] ELSE f[x]]

FeedsInit ==
  /\ quotes = <<>> /\ fetchedAt = Never /\ covered = {}
  /\ headlines = <<>> /\ lastCall = Never /\ newsCalls = {} /\ reopened = {}
  /\ tile = Nothing /\ shown = FALSE /\ sources = "up"
  /\ asks = [t \in Readers |-> Idle]

\* As the clock read so long ago tells it.
ExpiredThen(stamp, ago) == stamp = Never \/ stamp - ago > TTL
Expired(stamp) == ExpiredThen(stamp, 0)

-----------------------------------------------------------------------------
(* Prices: one stamp for every quote in the cache.                         *)

\* An answer: the ages of its quotes, how long ago its clock was read, and
\* the quotes brought by the fetch whose stamp it relied on.
Serve(t, wanted, cache, lag, own) ==
  Turns(t, [op |-> "priced", lag |-> lag, own |-> own,
            quotes |-> [s \in wanted \intersect DOMAIN cache |-> cache[s]]])

Stale(ask) == ExpiredThen(fetchedAt, ask.age) \/ \E s \in ask.wanted : s \notin DOMAIN quotes

ReadPriceClock(t, wanted) ==
  /\ asks[t].op = "idle"
  /\ Turns(t, [op |-> "asking", wanted |-> wanted, age |-> 0])
  /\ UNCHANGED <<prices, news, macro>>

AskQuotes(t) ==
  /\ asks[t].op = "asking"
  /\ IF Stale(asks[t]) THEN Turns(t, [asks[t] EXCEPT !.op = "pricing"])
     ELSE Serve(t, asks[t].wanted, quotes, asks[t].age, covered)
  /\ UNCHANGED <<prices, news, macro>>

StampAge(ask) == ask.age

\* The source answers for some of the symbols, as of some moment since.
QuotesFetched(t) ==
  /\ asks[t].op = "pricing"
  /\ \E got \in SUBSET asks[t].wanted, age \in 0 .. asks[t].age :
       LET cache == Update(quotes, [s \in got |-> age]) IN
         /\ quotes' = cache
         /\ IF got = {} THEN UNCHANGED <<fetchedAt, covered>>
            ELSE fetchedAt' = StampAge(asks[t]) /\ covered' = got
         /\ Serve(t, asks[t].wanted, cache, asks[t].age, got)
  /\ UNCHANGED <<news, macro>>

PricesAnswered(t) ==
  /\ asks[t].op = "priced"
  /\ Turns(t, Idle)
  /\ UNCHANGED <<prices, news, macro>>

HeldIn(sector) == {s \in DOMAIN Holdings : Holdings[s] = sector}

\* The portfolio's day: the average is over the priced holdings.
Summarize(priced) ==
  [connected |-> priced # {}, averaged |-> priced,
   gainers |-> {s \in priced : Moves[s] > 0}, losers |-> {s \in priced : Moves[s] < 0}]

\* A row for every sector of the book: its change is the average over its priced
\* holdings, compared if there are any and the proxy has a quote.
SectorRows(priced, etfs) ==
  {[sector |-> x, holdings |-> HeldIn(x), averaged |-> HeldIn(x) \intersect priced,
    compared |-> HeldIn(x) \intersect priced # {} /\ x \in DOMAIN SectorEtf /\ SectorEtf[x] \in etfs] :
     x \in Range(Holdings)}

PricesNext == \E t \in Readers : \/ \E book \in Books : ReadPriceClock(t, book)
                                 \/ AskQuotes(t) \/ QuotesFetched(t) \/ PricesAnswered(t)

-----------------------------------------------------------------------------
(* News: one entry for every feed, one gate for the source.                *)

Fresh(ask) == ask.key \in DOMAIN headlines /\ headlines[ask.key].stamp - ask.age <= TTL
Gated(ask) == lastCall # Never /\ lastCall - ask.age < MinInterval

ReadNewsClock(t, key) ==
  /\ asks[t].op = "idle"
  /\ Turns(t, [op |-> "timed", key |-> key, age |-> 0])
  /\ UNCHANGED <<prices, news, macro>>

\* A fresh entry, or a gate that is closed, answers from the cache.
AskNews(t) ==
  /\ asks[t].op = "timed"
  /\ IF Fresh(asks[t]) THEN Turns(t, [op |-> "read", entry |-> headlines[asks[t].key], lag |-> asks[t].age])
     ELSE IF Gated(asks[t]) THEN Turns(t, Idle)
     ELSE Turns(t, [op |-> "calling", key |-> asks[t].key, age |-> asks[t].age, again |-> t \in reopened])
  /\ UNCHANGED <<prices, news, macro>>

\* Mutant: a thread that has passed the gate does not close it.
GateLeft(ask) == lastCall

\* _last_call is the reading the gate was passed with, however old by now.
GateStamp(ask) == ask.age

\* The gate is closed, and the source called. A late thread takes the stamp
\* back behind that of another: whoever called since may pass the gate again.
CallNews(t) ==
  /\ asks[t].op = "calling"
  /\ lastCall' = GateStamp(asks[t])
  /\ newsCalls' = IF asks[t].again THEN newsCalls ELSE newsCalls \union {[by |-> t, age |-> asks[t].age]}
  /\ reopened' = IF lastCall # Never /\ lastCall < asks[t].age THEN Readers \ {t} ELSE reopened \ {t}
  /\ Turns(t, [op |-> "reading", key |-> asks[t].key, age |-> asks[t].age])
  /\ UNCHANGED <<prices, headlines, macro>>

\* Articles of some moment since the clock was read, or none.
NewsFetched(t) ==
  /\ asks[t].op = "reading"
  /\ \/ UNCHANGED headlines
     \/ \E age \in 0 .. asks[t].age :
          headlines' = Update(headlines, [k \in {asks[t].key} |-> [stamp |-> StampAge(asks[t]), data |-> age]])
  /\ Turns(t, Idle)
  /\ UNCHANGED <<prices, lastCall, newsCalls, reopened, macro>>

NewsRead(t) ==
  /\ asks[t].op = "read"
  /\ Turns(t, Idle)
  /\ UNCHANGED <<prices, news, macro>>

NewsNext == \E t \in Readers : \/ \E key \in NewsKeys : ReadNewsClock(t, key)
                               \/ AskNews(t) \/ CallNews(t) \/ NewsFetched(t) \/ NewsRead(t)

-----------------------------------------------------------------------------
(* Macro: an assembled tile is kept for the TTL, with its gaps if it has   *)
(* any; it is stamped when it has been assembled.                          *)

\* Mutant: every answer from the cache renews the entry.
CachedRenewed(entry) == [entry EXCEPT !.stamp = 0]

Cached(entry) == entry

AskMacro(t) ==
  /\ asks[t].op = "idle"
  /\ IF Expired(tile.stamp)
       THEN Turns(t, [op |-> "assembling", age |-> 0, gaps |-> sources = "down"]) /\ UNCHANGED <<tile, shown>>
       ELSE tile' = Cached(tile) /\ shown' = tile.complete /\ UNCHANGED asks
  /\ UNCHANGED <<prices, news, sources>>

\* With gaps only if a source was down at some time of the assembly.
MacroAssembled(t) ==
  /\ asks[t].op = "assembling"
  /\ \E complete \in IF asks[t].gaps THEN BOOLEAN ELSE {TRUE} :
       tile' = [stamp |-> 0, complete |-> complete] /\ shown' = complete
  /\ Turns(t, Idle)
  /\ UNCHANGED <<prices, news, sources>>

SourcesChange ==
  /\ sources' = IF sources = "up" THEN "down" ELSE "up"
  /\ asks' = [t \in Readers |-> IF asks[t].op = "assembling" THEN [asks[t] EXCEPT !.gaps = TRUE] ELSE asks[t]]
  /\ UNCHANGED <<prices, news, tile, shown>>

MacroNext == SourcesChange \/ \E t \in Readers : AskMacro(t) \/ MacroAssembled(t)

-----------------------------------------------------------------------------
\* Time passes at any point of a request, up to the bound.
Tick ==
  /\ \A t \in Readers : "age" \in DOMAIN asks[t] => asks[t].age < MaxFetch
  /\ quotes' = [s \in DOMAIN quotes |-> Older(quotes[s])]
  /\ fetchedAt' = Older(fetchedAt)
  /\ headlines' = [k \in DOMAIN headlines |-> [stamp |-> Older(headlines[k].stamp), data |-> Older(headlines[k].data)]]
  /\ lastCall' = Older(lastCall)
  /\ newsCalls' = {[c EXCEPT !.age = @ + 1] : c \in {d \in newsCalls : d.age + 1 < MinInterval + MaxFetch}}
  /\ tile' = [tile EXCEPT !.stamp = Older(@)]
  /\ asks' = [t \in Readers |-> IF "age" \in DOMAIN asks[t] THEN [asks[t] EXCEPT !.age = @ + 1] ELSE asks[t]]
  /\ UNCHANGED <<covered, reopened, shown, sources>>

FeedsNext == PricesNext \/ NewsNext \/ MacroNext \/ Tick
FeedsSpec == FeedsInit /\ [][FeedsNext]_feedVars

-----------------------------------------------------------------------------

FeedsTypeOK ==
  /\ \A s \in DOMAIN quotes : quotes[s] \in 0 .. Horizon
  /\ fetchedAt \in Never .. Horizon /\ lastCall \in Never .. Horizon
  /\ covered \subseteq DOMAIN quotes
  /\ tile.stamp \in Never .. Horizon /\ tile.complete \in BOOLEAN

\* A quote brought by the fetch that made the stamp is served within its
\* lifetime, however fetches overlap and whatever they fail to bring.
OwnFetchKeepsFresh ==
  \A t \in Readers :
    asks[t].op = "priced" =>
      \A s \in DOMAIN asks[t].quotes \intersect asks[t].own : asks[t].quotes[s] - asks[t].lag <= TTL

\* Whatever part of the book has quotes, the benchmark's rows have every
\* holding in exactly one of them, and average what the summary averages.
BenchmarkAgreesWithSummary ==
  LET priced == DOMAIN quotes \intersect DOMAIN Holdings
      table == SectorRows(priced, DOMAIN quotes)
      summary == Summarize(priced)
  IN /\ UNION {r.holdings : r \in table} = DOMAIN Holdings
     /\ UNION {r.averaged : r \in table} = summary.averaged
     /\ \A r, other \in table : r.holdings \intersect other.holdings # {} => r = other
     /\ Cardinality(summary.gainers) + Cardinality(summary.losers) <= Cardinality(summary.averaged)
     /\ summary.connected = \E r \in table : r.averaged # {}

\* Headlines served as fresh were no older than the lifetime of the cache
\* when the request read the clock, however long their own fetch took.
FreshNewsIsFresh ==
  \A t \in Readers : asks[t].op = "read" => asks[t].entry.data - asks[t].lag <= TTL

\* The gate is checked and closed in two steps, and closed with a clock
\* reading that may be old by then. Of the calls whose readings lie within
\* one interval, each thread makes at most one, but for those it makes after
\* a late thread has taken the stamp back since its last.
CallsBounded ==
  \A since \in 0 .. MaxFetch :
    Cardinality({c \in newsCalls : c.age \in since .. since + MinInterval - 1}) <= Cardinality(Readers)

\* The caches, however their fetches overlap: stamps no fresher than what they
\* stamp, totals that add up, the source called within its bound but for what
\* a late stamp lets through again.
CachesSound ==
  FeedsTypeOK /\ OwnFetchKeepsFresh /\ BenchmarkAgreesWithSummary /\ FreshNewsIsFresh /\ CallsBounded

\* Once the sources stay up, the macro tile is complete for good, although a
\* tile with gaps is cached as long as any other.
MacroRecovers == <>[](sources = "up") => <>[]shown
=============================================================================
