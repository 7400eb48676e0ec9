\* A kill may fall into the write of the snapshot.
CONSTANTS
  Sources = {"sec"}
  Known = {"sec"}
  Companies = {"apple"}
  MaxFilings = 2
  Filings <- Two
  Cadence <- Weekly
  MaxAttempts = 1
  Modes = {"due"}
  MaxVersion = 1
  FaultBudget = 1
  MayBeKilled = TRUE
SPECIFICATION Spec
INVARIANT SnapshotReadable
