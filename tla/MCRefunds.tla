------------------------------ MODULE MCRefunds ------------------------------
(* The instances of RefundWebhooks that TLC checks: payment p of an order   *)
(* of the mandate and payment q of someone else's; the refunds m1 and m2    *)
(* are operations of the mandate, d is made at the dashboard, and its       *)
(* events carry no event_id.                                               *)
EXTENDS RefundWebhooks
CONSTANTS p, q, m1, m2, d, s1, s2

MCPaymentOf == [r \in Refunds |-> IF r = m2 THEN q ELSE p]
MCPrice == [x \in Payments |-> 3]
MCAmount == [r \in Refunds |-> 1]
==============================================================================
