SPECIFICATION Spec
CONSTANTS
  s1 = s1
  s2 = s2
  Sessions = {s1}
  RootTerms <- MCRootTerms
  ChildTerms <- MCChildTerms
  Requests <- MCRequests
  Calls = {"delegate", "request", "approve"}
  MaxDepth = 2
  MaxRoots = 1
  MaxMandates = 2
  Horizon = 0
INVARIANTS DelegatedBudgetIsReserved
CHECK_DEADLOCK FALSE
