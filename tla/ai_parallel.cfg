SPECIFICATION Spec
CONSTANTS
  j1 = j1
  j2 = j2
  j3 = j3
  Tasks <- ThreeJobs
  Rpm = 2
  InputTpm = 3
  MaxConcurrency = 2
  Window = 2
  MaxAttempts = 2
  FallbackAttempts = 1
  HasFallback = TRUE
  MaxRepairs = 1
  MaxStarted = 0
  PromptTokens <- Prompts
  RepairTokens <- Repaired
  Usages <- Reported
  Delays <- Pauses12
  MaxFaults = 1
SYMMETRY Symmetric
INVARIANTS RpmRespected TpmRespected CyclesBounded
PROPERTY PausesHonoured
