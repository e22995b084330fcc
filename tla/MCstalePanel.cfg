SPECIFICATION FairSpec
CONSTANTS
  r1 = r1
  r2 = r2
  j1 = j1
  j2 = j2
  All = All
  None = None
  Runs = {r1}
  Jobs = {j1}
  JobOf <- OneJob
  Existing = {r1}
  Last = 3
  Tasks = {1, 2}
  MaxClicks = 1
  MaxFaults <- NoFailure
PROPERTY PanelCatchesUp
CHECK_DEADLOCK FALSE
