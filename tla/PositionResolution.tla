------------------------- MODULE PositionResolution -------------------------
(***************************************************************************)
(* coverage/resolve.py: the companies a book's positions name. A universe  *)
(* is the sequence of Company nodes in the store's order; a ticker is its  *)
(* letters and its punctuation, which folding drops; a name is its core    *)
(* and its corporate suffix, the two things org_score tells apart at the   *)
(* floor. Identifiers are upper-cased and stripped already.                *)
(***************************************************************************)
EXTENDS Integers, Sequences, SequencesExt, FiniteSets

CONSTANT Absent     \* a column the row does not have

Exact == 100                  \* org_score, in hundredths
SameCore == 97
NameFloor == 97

\* The first node that carries the identifier: setdefault over the nodes.
FirstWith(universe, Carries(_)) ==
  LET hits == {i \in DOMAIN universe : Carries(universe[i])}
  IN IF hits = {} THEN "none" ELSE universe[CHOOSE i \in hits : \A j \in hits : i <= j].key

Fold(ticker) == ticker.letters

ByExactTicker(universe, ticker) == FirstWith(universe, LAMBDA c : ticker \in c.tickers)
ByFoldedTicker(universe, ticker) == FirstWith(universe, LAMBDA c : \E t \in c.tickers : Fold(t) = Fold(ticker))

\* Mutant: only the folded index is asked.
ByTickerFolded(universe, ticker) == ByFoldedTicker(universe, ticker)

ByTicker(universe, ticker) ==
  IF ByExactTicker(universe, ticker) # "none" THEN ByExactTicker(universe, ticker)
  ELSE ByFoldedTicker(universe, ticker)

ByIsin(universe, isin) == FirstWith(universe, LAMBDA c : isin \in c.isins)
BySedol(universe, sedol) == FirstWith(universe, LAMBDA c : sedol \in c.sedols)

OrgScore(a, b) == IF a = b THEN Exact ELSE IF a.core = b.core THEN SameCore ELSE 0

\* The best score wins, the first of equals; below the floor nobody does.
ByName(universe, name) ==
  LET score(i) == OrgScore(name, universe[i].name)
      best == {i \in DOMAIN universe : \A j \in DOMAIN universe : score(j) <= score(i)}
      first == CHOOSE i \in best : \A j \in best : i <= j
  IN IF universe # <<>> /\ score(first) >= NameFloor THEN universe[first].key ELSE "none"

Hit(universe, position, method) ==
  CASE method = "ticker" -> IF position.ticker = Absent THEN "none" ELSE ByTicker(universe, position.ticker)
    [] method = "isin" -> IF position.isin = Absent THEN "none" ELSE ByIsin(universe, position.isin)
    [] method = "sedol" -> IF position.sedol = Absent THEN "none" ELSE BySedol(universe, position.sedol)
    [] method = "name" -> IF position.name = Absent THEN "none" ELSE ByName(universe, position.name)

Methods == <<"ticker", "isin", "sedol", "name">>

\* The first method that hits decides; a row none of them places is unresolved.
ResolvePosition(universe, position) ==
  LET hits == {i \in DOMAIN Methods : Hit(universe, position, Methods[i]) # "none"}
      first == CHOOSE i \in hits : \A j \in hits : i <= j
  IN IF hits = {} THEN [company |-> "none", method |-> "unresolved"]
     ELSE [company |-> Hit(universe, position, Methods[first]), method |-> Methods[first]]

\* A row without any identifier is a footer, not a holding. The positions are
\* a function on the numbers of the rows that are kept, in their order.
ParseBrokerageCsv(rows) ==
  LET kept == {i \in DOMAIN rows : \E column \in DOMAIN rows[i] : rows[i][column] # Absent}
  IN [i \in kept |-> rows[i]]

ResolvePositions(universe, positions) ==
  LET resolved == [i \in DOMAIN positions |-> ResolvePosition(universe, positions[i])]
      by(method) == Cardinality({i \in DOMAIN resolved : resolved[i].method = method})
  IN [total |-> Cardinality(DOMAIN positions), positions |-> resolved, by |-> [m \in ToSet(Methods) |-> by(m)],
      resolved |-> Cardinality({i \in DOMAIN resolved : resolved[i].company # "none"}),
      unresolved |-> by("unresolved")]

\* What an upload keeps: one holding for every company, in the rows' order.
HoldingsOf(report) ==
  LET resolvedTo(i) == report.positions[i].company
      kept == {i \in DOMAIN report.positions :
                 /\ resolvedTo(i) # "none"
                 /\ \A j \in DOMAIN report.positions : j < i => resolvedTo(j) # resolvedTo(i)}
  IN [i \in kept |-> resolvedTo(i)]
=============================================================================
