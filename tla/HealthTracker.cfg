SPECIFICATION FairSpec
CONSTANTS
  p1 = p1
  c1 = c1
  c2 = c2
  c3 = c3
  c4 = c4
  NoCall = NoCall
  Providers <- MCProviders
  Callers <- MCCallers
  ReportCallers <- MCReportCallers
  BASE_COOLDOWN = 1
  MAX_COOLDOWN = 10
  FAILURE_THRESHOLD = 3
INVARIANTS TypeOK TripsAtThreshold ProbeWaitsForCooldown
PROPERTIES OpenUntilProbed RecoversWithProvider
