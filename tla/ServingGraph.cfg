\* Two openers, two snapshots, a clock that may stand still between writes.
CONSTANTS
  Openers = {api, worker}
  MaxSaves = 2
  MaxTime = 3
  MaxCrashes = 1
  MaxOpens = 1
SPECIFICATION Spec
INVARIANT ServedFaithfully
PROPERTY OpensSound
CHECK_DEADLOCK FALSE
