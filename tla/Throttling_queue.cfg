SPECIFICATION Spec
CONSTANTS
  r1 = r1
  r2 = r2
  r3 = r3
  Requests <- ThreeRequests
  Batches = {0, 1, 2}
  Thresholds = {0, 1}
  StatInterval = 1
  MaxQueueing = 2
  Tolerance = 1
  MaxTime = 5
  SetBack = 2
SYMMETRY Symmetry
INVARIANTS TypeOK Spacing QueueIsGrants SkewNoticed
