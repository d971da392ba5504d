SPECIFICATION FairSpec
CONSTANTS
  a = a
  b = b
  s1 = s1
  s2 = s2
  NoOp = NoOp
  Ops = {a, b}
  Amount <- MCAmount
  Kind <- MCKind
  KindOfA = "ORDER"
  KindOfB = "BARE"
  Review = {}
  Limit = 2
  Sessions = {s1, s2}
  Calls = {"request", "mcp", "sweep"}
  EventTypes = {}
  Faults = {"timeout", "refused"}
  MaxCalls <- MCMaxCalls
  CallsOfA = 2
  CallsOfB = 2
  MaxDeliveries = 0
INVARIANTS OneObjectPerKey UnreviewedDenialWithoutEffects
PROPERTIES ImplementsLedger EveryReservationEnds
CHECK_DEADLOCK FALSE
