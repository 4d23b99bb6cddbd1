SPECIFICATION Spec
CONSTANTS
  a = a
  b = b
  c1 = c1
  c2 = c2
  None = None
  Run = run
  Rebuilders = {p1}
  Repos <- MCRepos
  Commits <- MCCommits
  Legacy <- MCLegacy
  MAX_DEEP_REPORTS_PER_WEEK = 1
  WeekLength = 1
  MaxTime = 4
  MaxStages = 2
  MaxRebuilds = 2
  MaxFaults = 1
SYMMETRY MCSymmetry
INVARIANTS TypeOK VersionIsComplete
PROPERTIES PacedReports CompletedIsKept
CHECK_DEADLOCK FALSE
