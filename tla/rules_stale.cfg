SPECIFICATION StoreSpec
CONSTANTS
  k1 = k1
  k2 = k2
  r1 = r1
  r2 = r2
  r3 = r3
  Keys <- OneKey
  Readers <- MCReaders
  Uncacheable <- MCUncacheable
  MaxWrites = 2
  MaxInvalidations = 2
  Sources = {"s1", "s2"}
  Ensurers = {"e1", "e2"}
  Legacy = "legacy"
  Limit = 1
  Ratios = {1, 2}
  CreateAnswers = {"created", "refused", "lost"}
  Budgets <- MCBudgets
  MaxRows = 2
  MaxKeys = 3
  Askers = {"a1", "a2"}
  MaxListings = 2
  MaxEpoch = 2
  Clients = {"c1", "c2"}
  MaxRules = 3
CHECK_DEADLOCK FALSE
INVARIANT EditsTakeEffect
