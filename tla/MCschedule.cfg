SPECIFICATION FairSpec
CONSTANTS
  a1 = a1
  a2 = a2
  j1 = j1
  j2 = j2
  NoTime = NoTime
  Jobs = {j1, j2}
  Apis = {a1, a2}
  MaxRequests <- Requested
  NextRun <- OddAndEvery
  Batch = 1
  DbAhead = 0
  ApiAhead <- Skewed
  MaxAhead = 2
  MaxTime = 4
  MaxFaults <- OneFailure
INVARIANTS TypeOK ScheduleCoherent OccurrenceOnce NoReplay
PROPERTIES OccurrenceKept OverdueFires
CHECK_DEADLOCK FALSE
