-------------------------------- MODULE MCChat --------------------------------
(* The instance of AgentChat that TLC checks: a procurement agent whose     *)
(* model asks for an order and a payment link, which its mandates do not    *)
(* allow, and whose mandates the coordinator charges within and above the  *)
(* cap of the one that is granted.                                         *)
EXTENDS AgentChat, TLC
CONSTANTS procure, s1, s2

MCAgentType == procure :> "PROCUREMENT"
MCGrants == <<Mandate(procure, {"CREATE_ORDER"}, 6500, "granted")>>

(* Every question beside every mutation, about a product by a word that     *)
(* every branch knows and by one that only purchases know.                 *)
MCQuestions == {{"inspect"}, {"browse"}, {"ask"}, {"refund", "refund_question"}}
MCMutations == {"buy", "refund", "payment_link"}
MCPrompts ==
  {Prompt({"buy"}, {}, 1, 0), Prompt({"buy", "buy_question"}, {"75,000"}, 5, 5000)}
    \cup {Prompt(cues \cup {mutation}, {word}, 1, 0) :
            cues \in MCQuestions \cup {{}}, mutation \in MCMutations, word \in {"mat", "ultrasharp"}}

Order(product) == Call("create_purchase_order", product, 1, Omitted)
Link(amount) == Call("create_payment_link_for_customer", NoProduct, 1, amount)
Lookup == Call("lookup_transaction", NoProduct, 1, Omitted)

MCModelCalls == {<<Order("mat"), Lookup, Link(1500)>>, <<Order("none"), Link(0)>>}
SessionSymmetry == Permutations(Sessions)

MCOrders == {<<"keyboard", 1>>, <<"mouse", 1>>}
===============================================================================
