SPECIFICATION FairSpec
CONSTANTS
  NumJobs = 3
  MaxAttempts = 2
  MaxPerRun = 2
  StopAfter = 2
  Overrides <- FirstOverridden
  MaxFaults = 2
INVARIANTS TypeOK StreamDelivers
PROPERTIES OutcomesKept ApprovedSettles KeepsContract
