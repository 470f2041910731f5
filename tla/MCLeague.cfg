CONSTANTS
  MaxSize = 2
  SnapshotInterval = 3
  RolloutSteps = 4
  TotalSteps = 7
  EpisodeLength = 2
  NumEpisodes = 2
  Heuristics <- Defaults
  MaxRuns = 4
SPECIFICATION Spec
INVARIANTS PoolKept PlaysItsPast EvaluatedAsNamed
CHECK_DEADLOCK FALSE
