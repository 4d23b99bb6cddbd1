SPECIFICATION FairSpec
CONSTANTS
  p1 = p1
  p2 = p2
  i1 = i1
  i2 = i2
  NoProvider = NoProvider
  Providers <- MCTwoProviders
  Items <- MCItems
  Analyzers <- MCAnalyzers
  AnalyzerOf <- MCAnalyzerOf
  Chain <- MCChainWithFallback
  Slots <- MCSlots
  BASE_COOLDOWN = 1
  MAX_COOLDOWN = 1
  FAILURE_THRESHOLD = 2
  SOFT = 3
  HARD = 6
  MaxRuns = 1
  MaxDays = 1
  MaxCrashes = 1
  DatabaseMayFail = FALSE
INVARIANTS TypeOK CompletedRunIsCharged
PROPERTIES BreakerSpec RunEnds
