SPECIFICATION FairSpec
CONSTANTS
  p1 = p1
  p2 = p2
  p3 = p3
  Nobody = Nobody
  Ghost = Ghost
  Pods = {p1, p2, p3}
  Image <- Rollout
  MaxFaults <- StartupFaults
INVARIANTS TypeOK AppliedInOrder TurnsTaken SchemaReady
PROPERTY AllServe
CHECK_DEADLOCK FALSE
