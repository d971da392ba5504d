SPECIFICATION Spec
CONSTANTS
  p = p
  q = q
  m1 = m1
  m2 = m2
  d = d
  s1 = s1
  s2 = s2
  Payments = {p, q}
  Local = {p}
  Price <- MCPrice
  Refunds = {m1, m2, d}
  PaymentOf <- MCPaymentOf
  Amount <- MCAmount
  ByMandate = {m1, m2}
  Named = {m1, m2}
  Sessions = {s1, s2}
  MaxDeliveries = 3
INVARIANTS CreditedOnce GivenUpUncredited
CHECK_DEADLOCK FALSE
