SPECIFICATION Spec
CONSTANTS
  Jobs = {j1}
  NumBatches = 2
  MaxRuns = 1
  MaxFaults = 0
  MaxAttempts = 1
  Actors <- Editors
INVARIANTS Inv ExclusionStops
PROPERTIES CompletionIsJudged ProcessingStartsReviewed
