CONSTANTS
  Statements <- Owning
  CoMentions <- Naming
  Surrogates <- Unanchored
  MaxEdges = 4
  Tracked <- BothTracked
  Companies <- BothTracked
  Clearances = {"public", "legitimate-interest"}
  Days = {0, 1, 2}
  MaxDepth = 3
  MaxHops = 2
  MaxNetworkHops = 2
  AskedHops = {0, 2, 5}
  Configured <- Config
  Corpus <- Texts
  Curated <- Known
  Inventory <- Stock
  Filings <- Books
  MaxJobs = 3
  Feeds <- Lists
  Registered <- Publications
  MaxRegistryJobs = 4
SPECIFICATION JobsSpec
INVARIANTS ChainsSound GroupsSound AnswersSound RegistersSound
PROPERTY DirectExposureGrows
