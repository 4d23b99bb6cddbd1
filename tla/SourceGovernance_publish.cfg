SPECIFICATION Spec
CONSTANTS
  feed = feed
  find = find
  Configured <- MCNone
  Found <- MCFind
  Outcomes <- MCGoodPoor
  Limit = 1
  MaxDays = 3
  MaxRuns = 4
  MaxUpsets = 0
PROPERTIES OnlyPassedPublishes
