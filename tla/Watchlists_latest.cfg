\* The worker alone, one watchlist, one notification more than an item may have.
CONSTANTS
  Users = {u1}
  Requests = {r1}
  Ids = {1}
  ItemSets <- CompanyOnly
  Contents <- Material
  PerItemLimit = 2
  MaxWatchlists = 1
  MaxSaves = 3
  MaxStarts = 1
SPECIFICATION Spec
PROPERTIES NewChangesNotify
CHECK_DEADLOCK FALSE
