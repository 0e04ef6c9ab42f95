SPECIFICATION Spec
CONSTANTS
  p1 = p1
  p2 = p2
  r1 = r1
  r2 = r2
  Nobody = Nobody
  Managers = {"flow", "breaker", "hotspot", "mock", "gray", "isolation", "system"}
  Updaters = {p1, p2}
  Resources = {r1, r2}
  Wholes <- WholesOf2
  Lists <- ListsOfOne
  MaxLoads = 3
INVARIANTS RunsWhatWasLoaded StatisticOwnedOnce FoundById
PROPERTIES StatisticsSurvive
CHECK_DEADLOCK FALSE
