\* Two processes side by side, one company that may be onboarded later; and
\* three entities, all nodes of the graph, with any five judgements, some of
\* them dated before the last one of their pair.
CONSTANTS
  Companies = {"acme"}
  People = {jo}
  Tracked = {}
  Processes = {p1, p2}
  Jobs <- AllJobs
  MaxPeriod = 2
  MaxRuns = 3
  MaxKills = 1
  N = 3
  InGraph <- FirstThree
  IdRank <- Reversed
  MaxScore = 1
  MaxDate = 2
  MaxDecisions = 5
SPECIFICATION MCSpec
INVARIANTS
  TypeOK EnrichDontDuplicate ConfirmationsJudged
  ResolutionTypeOK MergeResistant SameEdgesSettled
PROPERTIES EdgesLostOnlyToStaleSave BookmarksStable
SYMMETRY Symmetry
CHECK_DEADLOCK FALSE
