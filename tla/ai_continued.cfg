SPECIFICATION FairSpec
CONSTANTS
  j1 = j1
  j2 = j2
  j3 = j3
  Tasks <- TwoJobs
  Rpm = 2
  InputTpm = 3
  MaxConcurrency = 1
  Window = 2
  MaxAttempts = 2
  FallbackAttempts = 1
  HasFallback = TRUE
  MaxRepairs = 1
  MaxStarted = 1
  PromptTokens <- Prompts
  RepairTokens <- Repaired
  Usages <- Reported
  Delays <- Pauses12
  MaxFaults = 1
INVARIANTS TypeOK BudgetKept NothingAbandoned
PROPERTIES ExtractedKept JobsExtracted KeepsContract
