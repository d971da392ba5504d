SPECIFICATION Spec
CONSTANTS
  c1 = c1
  c2 = c2
  c3 = c3
  p1 = p1
  p2 = p2
  Callers = {c1, c2, c3}
  Processes = {p1, p2}
  ProcessOf <- MCProcessOf
  Limit = 1
  Window = 3
  TtlGrace = 0
  MaxDelay = 1
  Production = {p1}
  Faults = {"down", "stuck", "lost"}
  MaxTime = 5
  MaxCalls = 3
INVARIANTS WithinLimitPerStore WithinLimitOverall
SYMMETRY CallerSymmetry
CHECK_DEADLOCK FALSE
