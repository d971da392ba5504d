SPECIFICATION Spec
CONSTANTS
  a = a
  b = b
  s1 = s1
  s2 = s2
  NoOp = NoOp
  Ops = {a}
  Amount <- MCAmount
  Kind <- MCKind
  KindOfA = "ORDER"
  KindOfB = "ORDER"
  Review = {}
  Limit = 3
  Sessions = {s1, s2}
  Calls = {"request", "webhook"}
  EventTypes = {"order.paid", "payment.captured"}
  Faults = {}
  MaxCalls <- MCMaxCalls
  CallsOfA = 1
  CallsOfB = 1
  MaxDeliveries = 1
INVARIANTS SpendWithinLimit
CHECK_DEADLOCK FALSE
