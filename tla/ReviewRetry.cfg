SPECIFICATION Spec
CONSTANTS
  repo = repo
  post = post
  paper = paper
  UrlOf <- MCUrlOf
  TrialUrls <- MCTrial
  RegistryMayFail = TRUE
INVARIANTS TypeOK EveryItemJudged RetriesAreBounded
