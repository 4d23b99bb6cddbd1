SPECIFICATION Spec
CONSTANTS
  feed = feed
  find = find
  Configured <- MCFeed
  Found <- MCFind
  Outcomes <- MCGoodDown
  Limit = 1
  MaxDays = 3
  MaxRuns = 4
  MaxUpsets = 1
INVARIANTS TypeOK TrialIsServed SwitchedOffIsNotCollected
PROPERTIES StoppedStaysStopped
