SPECIFICATION FairSpec
CONSTANTS
  q1 = q1
  q2 = q2
  e1 = e1
  Requests <- MCRequests
  Editors <- MCEditors
  Prices <- MCPrices
  First = 2
  Discount = 1
  Quota = 2
  MaxAttempts = 2
  PageSize = 2
  MaxUpsets = 1
  MaxChanges = 1
  MaxRows = 3
INVARIANT QuotaExact
PROPERTY RepricingEnds
CHECK_DEADLOCK FALSE
