SPECIFICATION ForwardSpec
CONSTANTS
  cheap = cheap
  dear = dear
  reserve = reserve
  q1 = q1
  q2 = q2
  q3 = q3
  Routes <- MCRoutes
  Reserve <- MCReserve
  Price <- MCPrice
  Premium = 0
  Requests <- MCRequests
  SessionOf <- OneSession
  RetryKeyOf <- MCRetryKey
  Policies <- MCPolicies
  Pauses <- MCPauses
  Hold = 2
  Lead = 0
  Emergency = 2
  Scenarios <- MCScenarios
  PlanScenarios <- MCPlans
CHECK_DEADLOCK FALSE
INVARIANTS OneRecoveryProbe RetriesAreEarned  ConversationKept ResultsFollowCalls
PROPERTIES PauseIsEarned AffinityKept
