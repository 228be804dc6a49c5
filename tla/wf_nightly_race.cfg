SPECIFICATION Spec
CONSTANTS
  Jobs = {j1}
  NumBatches = 1
  MaxRuns = 2
  MaxFaults = 0
  MaxAttempts = 1
  Actors <- NightlyToo
PROPERTY CompletedSearchPreserved
