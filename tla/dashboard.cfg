SPECIFICATION FairSpec
CONSTANTS
  Calls = {call}
  Dashboards = {tab}
  QueueMax = 2
  MaxRecent = 0
  WritesFail = TRUE
  MaxRestarts = 1
  MaxBreaks = 1
INVARIANTS
  TypeOK
  FailureIsShown
  NothingIsMissed
PROPERTIES
  DecidedLeaves
