SPECIFICATION FairSpec
CONSTANTS
  Jobs = {j1}
  NumBatches = 2
  MaxRuns = 2
  MaxFaults = 0
  MaxAttempts = 1
  Actors <- Refreshers
PROPERTY FinalizationHappens
