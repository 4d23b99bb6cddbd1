SPECIFICATION Spec
CONSTANTS
  p1 = p1
  p2 = p2
  i1 = i1
  i2 = i2
  NoProvider = NoProvider
  Providers <- MCOneProvider
  Items <- MCItems
  Analyzers <- MCAnalyzers
  AnalyzerOf <- MCAnalyzerOf
  Chain <- MCChain
  Slots <- MCOneReviewSlot
  BASE_COOLDOWN = 1
  MAX_COOLDOWN = 1
  FAILURE_THRESHOLD = 2
  SOFT = 2
  HARD = 2
  MaxRuns = 2
  MaxDays = 2
  MaxCrashes = 1
  DatabaseMayFail = TRUE
SYMMETRY MCSymmetry
INVARIANTS NoCostTwice OvershootBounded
