SPECIFICATION Spec
CONSTANTS
  g1 = g1
  g2 = g2
  r1 = r1
  r2 = r2
  Goroutines = {g1, g2}
  Resources = {r1, r2}
  Requests <- Few
  RuleLists <- SomeLists
  Pattern <- SomePattern
  OneResourceLimit = 2
  DefaultMaxResourceAmount = 1
  MaxCalls = 2
  MaxUpdates = 1
  MaxAges = 1
  MaxFailures = 1
INVARIANTS AnsweredByFirst ReportedOnce NodesBounded
PROPERTIES ResponsesArrive
CHECK_DEADLOCK FALSE
