SPECIFICATION RestrictionsSpec
CONSTANTS
  r1 = r1
  r2 = r2
  r3 = r3
  w1 = w1
  w2 = w2
  o1 = o1
  a = a
  b = b
  Requests <- ThreeRequests
  Workers <- TwoWorkers
  Operators <- OneOperator
  Pauses <- LongPauses
  Backoffs <- MCBackoffs
  Lease = 2
  Lead = 1
  ClearStreak = 1
  Scenarios <- MCScenarios
  Checkers <- TwoWorkers
  Routes <- TwoRoutes
  CheckLease = 2
  Timeout = 1
  Interval = 3
  Cooldown = 3
  Retry = 1
  Tries = 2
  MaxTime = 3
  CheckScenarios <- MCCheckScenarios
  Evaluators <- TwoWorkers
  PausedRoutes <- TwoRoutes
  Window = 2
  Pause = 2
  MinRequests <- MCMinRequests
  LastMinute = 4
  HealthScenarios <- MCHealthScenarios
CHECK_DEADLOCK FALSE
INVARIANTS OneProbePerFailure OneSourceCall BlockIsEarned ReleaseStands
PROPERTIES RouteReopens
