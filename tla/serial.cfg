SPECIFICATION Spec
CONSTANTS
  a = a
  b = b
  s1 = s1
  s2 = s2
  NoOp = NoOp
  Ops = {a, b}
  Amount <- MCAmount
  Kind <- MCKind
  KindOfA = "ORDER"
  KindOfB = "REFUND"
  Review = {b}
  Limit = 2
  Sessions = {s1}
  Calls = {"request", "mcp", "approve", "reject", "webhook", "sweep"}
  EventTypes = {"payment.captured", "payment.failed"}
  Faults = {"crash", "timeout", "refused", "fetch"}
  MaxCalls <- MCMaxCalls
  CallsOfA = 2
  CallsOfB = 2
  MaxDeliveries = 4
INVARIANTS TypeOK FailedEventsAreLateCaptures
PROPERTIES ImplementsLedger TerminalIsFinal
CHECK_DEADLOCK FALSE
