SPECIFICATION Spec
CONSTANTS
  w1 = w1
  w2 = w2
  r1 = r1
  NoWorker = NoWorker
  NoRun = NoRun
  Workers = {w1}
  Slots = {1}
  Runs = {r1}
  MaxRetries <- NoRetry
  Batch = 1
  MaxCopies = 1
  MaxFaults <- NoFaults
INVARIANT FileIsOutput
