SPECIFICATION FairSpec
CONSTANTS
  a = a
  b = b
  s1 = s1
  s2 = s2
  NoOp = NoOp
  Ops = {a, b}
  Amount <- MCAmount
  Kind <- MCKind
  KindOfA = "ORDER"
  KindOfB = "REFUND"
  Review = {a}
  Limit = 4
  Sessions = {s1, s2}
  Calls = {"request", "approve", "reject", "verify", "webhook", "sweep"}
  EventTypes = {"payment.captured"}
  Faults = {"timeout"}
  MaxCalls <- MCMaxCalls
  CallsOfA = 4
  CallsOfB = 1
  MaxDeliveries = 2
INVARIANTS DispatchIsBacked FirstVerdictIsFinal
PROPERTIES GrowsWithinLimit EveryHandlerEnds
CHECK_DEADLOCK FALSE
