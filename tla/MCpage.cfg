SPECIFICATION FairSpec
CONSTANTS
  r1 = r1
  r2 = r2
  j1 = j1
  j2 = j2
  All = All
  None = None
  Runs = {r1, r2}
  Jobs = {j1, j2}
  JobOf <- OneRunEach
  Existing = {r1}
  Last = 3
  Tasks = {1, 2}
  MaxClicks = 2
  MaxFaults <- OneFailure
INVARIANTS TypeOK LogFaithful
PROPERTIES MetaBelongs TableCatchesUp PanelFollows LogCatchesUp
CHECK_DEADLOCK FALSE
