SPECIFICATION Spec
CONSTANTS
  s1 = s1
  s2 = s2
  Sessions = {s1, s2}
  RootTerms <- MCRootTerms
  ChildTerms <- MCChildTerms
  Requests <- MCRequests
  Calls = {"delegate", "cascade", "activate"}
  MaxDepth = 2
  MaxRoots = 1
  MaxMandates = 3
  Horizon = 1
INVARIANTS TypeOK AllocationIsSumOfChildren NeverWiderThanAncestors DryRunAgrees
SYMMETRY SessionSymmetry
CHECK_DEADLOCK FALSE
