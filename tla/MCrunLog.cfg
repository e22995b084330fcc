SPECIFICATION FairSpec
CONSTANTS
  MaxAttempt = 2
  MaxLines <- Lines
  LogMaxBatch = 2
  StreamBatch = 1
  StreamStarts <- Starts
  MaxFaults <- LogFaults
INVARIANTS TypeOK FlushedBeforeEnd BufferBounded StreamTimely FollowTruthful
PROPERTY StreamEnds
CHECK_DEADLOCK FALSE
