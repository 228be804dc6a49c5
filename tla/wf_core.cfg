SPECIFICATION Spec
CONSTANTS
  Jobs = {j1}
  NumBatches = 1
  MaxRuns = 2
  MaxFaults = 1
  MaxAttempts = 1
  Actors <- Unlocked
INVARIANTS TypeOK WorkOrder ReviewJobsTracked
PROPERTIES RecordedWorkKept CompletionIsJudged ProcessingStartsReviewed
