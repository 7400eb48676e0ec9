CONSTANTS
  Readers = {t1, t2}
  Books <- MCBooks
  Holdings <- MCHoldings
  SectorEtf <- MCSectorEtf
  Moves <- MCMoves
  NewsKeys = {"global", "india"}
  TTL = 1
  MinInterval = 2
  MaxFetch = 1
  Feeders = {"prices", "news", "macro"}
SPECIFICATION MCSpec
INVARIANT CachesSound
PROPERTY MacroRecoversIfAsked
