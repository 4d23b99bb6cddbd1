SPECIFICATION Spec
CONSTANTS
  github = github
  rss = rss
  NumTriggers = 2
  Analyzers <- MCAnalyzers
  StepMayFail = FALSE
  TailMayFail = FALSE
  MaxEscapes = 0
  MaxCrashes = 0
PROPERTIES QueuedTriggersCollect
