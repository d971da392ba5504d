-------------------------------- MODULE MCMcp --------------------------------
(* The instances of McpGateway that TLC checks: a shopping agent a whose    *)
(* older mandate allows payment links and whose newer one allows anything,  *)
(* and a support agent b with a mandate for refunds.                       *)
EXTENDS McpGateway, TLC
CONSTANTS a, b, s1, s2

MCAgentType == [x \in Agents |-> IF x = a THEN "SHOPPING" ELSE "SUPPORT"]
MCOwner == <<a, b, a>>
MCWhitelist == <<{"CREATE_PAYMENT_LINK"}, {"CREATE_REFUND"}, {}>>

Call(key, id, tool, args) == Rpc(key, id, "tools/call", tool, args, 1)

KeyOfA == Key(a, "raw")
KeyOfB == Key(b, "stored_hash")

ListTools == Rpc(KeyOfA, NoAgent, "tools/list", "none", {}, 0)
CreateOrder == Call(Key(a, "id"), NoAgent, "payments_create_order", {"amount", "currency"})
CreateRefund == Call(KeyOfB, NoAgent, "payments_create_refund", {"amount", "payment_id"})
Mismatch == Call(KeyOfA, b, "payments_create_refund", {"amount", "payment_id"})
ById == Call(NoKey, b, "payments_create_refund", {"amount"})

MCCalls == {ListTools, CreateOrder, CreateRefund, ById, Mismatch,
            [CreateOrder EXCEPT !.args = {"payment_id"}], [CreateOrder EXCEPT !.args = {}],
            [CreateOrder EXCEPT !.method = "ping"],
            Call(Key(a, "other"), NoAgent, "payouts_create", {}),
            Call(KeyOfA, NoAgent, "payouts_create", {"amount"}),
            Call(KeyOfB, NoAgent, "payments_fetch_order", {}),
            Call(KeyOfA, NoAgent, "payments_fetch_all_orders", {}),
            Call(KeyOfB, NoAgent, "payments_capture_payment", {"amount"})}
==============================================================================
