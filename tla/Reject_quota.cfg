SPECIFICATION Spec
CONSTANTS
  r1 = r1
  r2 = r2
  r3 = r3
  r4 = r4
  Nobody = Nobody
  Callers <- Requests3
  SampleCount = 3
  Window = 2
  StartTime = 4
  MaxTime = 8
  Threshold = 1
  Statistic = "own"
SYMMETRY Symmetry
INVARIANTS TypeOK QuotaKept CountIsGrants
