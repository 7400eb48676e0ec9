\* Only the worker's due runs, under a fair worker: a source whose filings may
\* each be amended once, two of one company and one of another, so that the
\* discovery of a pair can fail beside a pair that is ingested.
CONSTANTS
  Sources = {"sec", "unreg"}
  Known = {"sec"}
  Companies = {"apple", "msft"}
  MaxFilings = 2
  Filings <- AppleTwice
  Cadence <- Daily
  MaxAttempts = 2
  Modes = {"due"}
  MaxVersion = 2
  FaultBudget = 2
  MayBeKilled = TRUE
SPECIFICATION FairSpec
INVARIANTS HalfWrittenIsDueOrDead ChangeSetsGrounded
PROPERTIES RecordedRunIsStored DueRunKeepsProjections RunsEnd CatchesUp
