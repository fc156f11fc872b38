SPECIFICATION Spec
CONSTANTS
  j1 = j1
  j2 = j2
  g1 = g1
  g2 = g2
  n1 = n1
  n2 = n2
  s1 = s1
  s2 = s2
  a1 = a1
  a2 = a2
  Jobs <- MCJobs
  Accounts = {a1, a2}
  First = a1
  Scenarios <- MCScenarios
  Groups <- MCGroups
  Ratios = {1, 2}
  Notices = {n1, n2}
  Subscribers = {s1, s2}
  Wants <- MCWants
  MinChangePct = 60
  Windows = 2
CHECK_DEADLOCK FALSE
INVARIANTS CredentialKept SessionBelongs ToldOnce
PROPERTIES SnapshotsConverge
