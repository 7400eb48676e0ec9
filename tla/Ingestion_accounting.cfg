\* Two registered sources and one unknown, full and due runs, kills.
CONSTANTS
  Sources = {"sec", "ir", "unreg"}
  Known = {"sec", "ir"}
  Companies = {"apple"}
  MaxFilings = 2
  Filings <- TwoOne
  Cadence <- Weekly
  MaxAttempts = 2
  Modes = {"due", "full"}
  MaxVersion = 1
  FaultBudget = 2
  MayBeKilled = TRUE
SPECIFICATION Spec
INVARIANTS TypeOK EveryTargetAccounted
PROPERTY KeepsPromise
