SPECIFICATION FairSpec
CONSTANTS
  Jobs = {j1}
  NumBatches = 1
  MaxRuns = 1
  MaxFaults = 2
  MaxAttempts = 2
  Actors <- Repeats
INVARIANT Inv
PROPERTY UnfinishedJobsFinish
