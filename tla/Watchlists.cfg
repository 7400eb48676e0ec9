\* Two requests and the worker over three watchlists, one document with a change.
CONSTANTS
  Users = {u1}
  Requests = {r1, r2}
  Ids <- OneToThree
  ItemSets <- TopicOnly
  Contents <- Material
  PerItemLimit = 2
  MaxWatchlists = 1
  MaxSaves = 1
  MaxStarts = 3
SPECIFICATION Spec
INVARIANT ListsSound
PROPERTIES ReadStaysRead WorkerCatchesUp
CHECK_DEADLOCK FALSE
