SPECIFICATION Spec
CONSTANTS
  s1 = s1
  s2 = s2
  Sessions = {s1, s2}
  RootTerms <- MCChargedTerms
  ChildTerms <- MCChildTerms
  Requests <- MCRequests
  Calls = {"mcp", "request", "approve", "reject", "webhook"}
  MaxDepth = 2
  MaxRoots = 1
  MaxMandates = 1
  Horizon = 0
INVARIANTS UsedWithinLimit
PROPERTIES LargeChargesAreReviewed
SYMMETRY SessionSymmetry
CHECK_DEADLOCK FALSE
