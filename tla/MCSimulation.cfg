SPECIFICATION Spec
CONSTANTS
  Roster <- Rosters
  MarketMakers = {"maker"}
  NoiseTraders = {"random"}
  BasePrice = 10
  Tick = 1
  TickRange = 1
  MaxQuantity = 2
  SeedOffset = 2
  Quote = 2
  MaxInventory = 1
  EdgeTicks = 1
  SkewUnit = 2
  History <- Events
  SnapshotInterval = 3
  MaxSteps <- Steps
  Warmup = 1
  MaxEpisodes = 2
CHECK_DEADLOCK FALSE
INVARIANTS BooksExact QuotesCurrent WashesOnlyShort SeriesEnd RewardsAddUp
