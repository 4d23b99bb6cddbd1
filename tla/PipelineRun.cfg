SPECIFICATION FairSpec
CONSTANTS
  github = github
  rss = rss
  NumTriggers = 2
  Analyzers <- MCAnalyzers
  StepMayFail = TRUE
  TailMayFail = TRUE
  MaxEscapes = 1
  MaxCrashes = 1
INVARIANTS TypeOK CompletedIsAccounted RunningIsHeld
PROPERTIES EndedIsFinal TriggersGetTheLock
