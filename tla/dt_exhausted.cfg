SPECIFICATION Spec
CONSTANTS
  NumJobs = 1
  MaxAttempts = 2
  MaxPerRun = 0
  StopAfter = 0
  Overrides <- NoOverrides
  MaxFaults = 2
INVARIANT ExhaustedAreTerminal
