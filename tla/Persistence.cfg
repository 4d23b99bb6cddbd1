SPECIFICATION Spec
CONSTANTS
  NumItems = 3
  UrlOf <- MCUrlOf
  SourceOf <- MCSourceOf
  TagsOf <- MCTagsOf
  OtherRowids = {1, 9}
  MaxRuns = 2
  MaxFaults = 1
  MaxCrashes = 2
  Released = {0, 6, 10}
INVARIANTS TypeOK TagDamageIsBounded ApprovedInOneRun EveryItemHasLastWord SummaryBalances StartsAreSafe NothingMigratedIsLost
