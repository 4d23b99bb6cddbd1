SPECIFICATION FairSpec
CONSTANTS
  m1 = m1
  index = index
  data = data
  NumRuns = 3
  Manuals <- MCManuals
  Files <- MCFiles
  MaxFailures = 1
  MaxCrashes = 1
INVARIANTS TypeOK AtMostOneLiveTimer QueuedHasLiveBuild
PROPERTIES SiteNeverRegresses PublicationSpec QueuedIsPublished
