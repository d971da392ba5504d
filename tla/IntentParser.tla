---------------------------- MODULE IntentParser ----------------------------
(***************************************************************************)
(* The intent parser of the mock model (packages/agents/adapter.py) with    *)
(* the agents' tools and the catalog (tools.py).  A prompt is what the      *)
(* parser finds in it: the cues, groups of keywords that stand for an       *)
(* intent, the words that name a product, a quantity and an amount in       *)
(* rupees.                                                                 *)
(***************************************************************************)
EXTENDS Integers, Sequences, FiniteSetsExt

Cues == {"greeting", "limits", "inspect", "browse", "ask", "refund", "refund_question",
         "buy", "buy_question", "payment_link"}

(* The keywords of a refund question are keywords of a refund, and a        *)
(* greeting is the whole prompt.                                           *)
PossibleCues ==
  {cues \in SUBSET Cues : /\ "refund_question" \in cues => "refund" \in cues
                          /\ "greeting" \in cues => cues = {"greeting"}}

Price == [keyboard |-> 6500, mouse |-> 8999, mat |-> 1500, monitor |-> 75000, server |-> 450000]
Products == DOMAIN Price
NoProduct == "none"

(* The branches know a product by different words.  A word stands for those *)
(* that are in the same lists: "keyboard" for "keychron", "mouse" for       *)
(* "logitech", "mat" for "desk mat" and "felt", "dell" for "4k", "server"   *)
(* for "workstation" and "gpu", "ultrasharp" for "screen", "rackmount" for  *)
(* "ai rack".                                                              *)
AskWords == {"keyboard", "mouse", "mx master", "mat", "monitor", "dell", "server"}

RefundWords == [keyboard |-> {"keyboard"}, mouse |-> {"mouse"}, mat |-> {"mat"},
                monitor |-> {"monitor"}]

BuyWords == [mat |-> {"mat", "wool"}, mouse |-> {"mouse", "mx master", "mx"},
             monitor |-> {"monitor", "dell", "ultrasharp", "75,000"},
             server |-> {"server", "rackmount", "450,000"}]

Words == {"keyboard"} \cup UNION {BuyWords[product] : product \in DOMAIN BuyWords}

(* The amounts that the refund branch looks for before it looks for words. *)
FixedAmounts == {25000, 2500, 1500, 5000}

Prompt(cues, words, quantity, amount) ==
  [cues |-> cues, words |-> words, quantity |-> quantity, amount |-> amount]

(* quantity is what the digits say to a purchase: 100 or 5 where they occur *)
(* in the prompt, the prices among the words included.  amount is what they *)
(* say to a refund: the first amount of its list that occurs in them, 5000  *)
(* in "75,000", else the number that is read, 0 for none.                  *)
IsPrompt(p) ==
  /\ p \in [cues : PossibleCues, words : SUBSET Words, quantity : {1, 5, 100}, amount : Nat]
  /\ p.words \cap {"75,000", "450,000"} # {} => p.quantity # 1
  /\ "75,000" \in p.words => p.amount \in FixedAmounts

(* A tool call; amount is 0 when the model gives 0 and Omitted when it      *)
(* gives none.                                                             *)
Omitted == -1
Call(tool, product, quantity, amount) ==
  [tool |-> tool, product |-> product, quantity |-> quantity, amount |-> amount]

Financial == {"create_purchase_order", "create_payment_link_for_customer", "issue_customer_refund"}
------------------------------------------------------------------------------
(* The first of the rows whose indices are met. *)
FirstRow(rows, met) == rows[Min(met)]

Row(needs, unless, tool) == [needs |-> needs, unless |-> unless, tool |-> tool]

(* Mutation: the refund is tried before the questions about refunds. *)
IntentsRefundFirst(words) ==
  <<Row({"refund"}, {}, "issue_customer_refund"), Row({}, {}, "reply")>>

(* The order of the branches of _parse_semantic_intent.  A question about a *)
(* product is answered only if one of the words for it is known there;     *)
(* otherwise the branches below it are tried.                              *)
Intents(words) ==
  <<Row({"greeting"}, {}, "reply"),
    Row({"limits"}, {}, "reply"),
    Row({"inspect"}, {}, "lookup_transaction"),
    Row({"browse"}, {}, "browse_catalog"),
    Row({"ask"}, IF words \cap AskWords = {} THEN {"ask"} ELSE {}, "reply"),
    Row({"refund", "refund_question"}, {}, "reply"),
    Row({"refund"}, {}, "issue_customer_refund"),
    Row({"buy"}, {"buy_question"}, "create_purchase_order"),
    Row({"payment_link"}, {}, "create_payment_link_for_customer"),
    Row({}, {}, "reply")>>

IntentOf(p) ==
  LET rows == Intents(p.words) IN
  FirstRow(rows, {i \in 1..Len(rows) : /\ rows[i].needs \subseteq p.cues
                                       /\ rows[i].unless \cap p.cues = {}}).tool

(* What is bought is a keyboard unless the prompt names something else. *)
Bought(p) ==
  LET products == <<"mat", "mouse", "monitor", "server", "keyboard">>
  IN  FirstRow(products, {5} \cup {i \in 1..4 : p.words \cap BuyWords[products[i]] # {}})

(* A product that is named has its price, whatever amount is stated, unless *)
(* it is one of the fixed ones.                                            *)
RefundAmount(p) ==
  LET products == <<"keyboard", "mouse", "mat", "monitor">>
      met == {i \in 1..4 : \/ p.words \cap RefundWords[products[i]] # {}
                           \/ p.amount = Price[products[i]]}
  IN
  CASE p.amount \in FixedAmounts -> p.amount
    [] p.amount \notin FixedAmounts /\ met # {} -> Price[FirstRow(products, met)]
    [] OTHER -> IF p.amount > 0 THEN p.amount ELSE 1000

(* _parse_semantic_intent: at most one call, none for a reply.  The digits  *)
(* of an invoice are not read.                                             *)
ParsedCalls(p) ==
  LET tool == IntentOf(p) IN
  CASE tool = "reply" -> <<>>
    [] tool = "create_purchase_order" -> <<Call(tool, Bought(p), p.quantity, Omitted)>>
    [] tool = "create_payment_link_for_customer" -> <<Call(tool, NoProduct, 1, 4500)>>
    [] tool = "issue_customer_refund" -> <<Call(tool, NoProduct, 1, RefundAmount(p))>>
    [] OTHER -> <<Call(tool, NoProduct, 1, Omitted)>>
==============================================================================
