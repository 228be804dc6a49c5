SPECIFICATION FairSpec
CONSTANTS
  w1 = w1
  w2 = w2
  p1 = p1
  b1 = b1
  Workers <- TwoWorkers
  Portals <- OnePortal
  Borrowers <- OneBorrower
  MaxInvocations = 3
  MaxCrashes = 2
  MaxLost = 1
INVARIANTS TypeOK LiveNotInterrupted OneRunAtATime
PROPERTIES HistoryKept RunsAreClosed
CHECK_DEADLOCK FALSE
