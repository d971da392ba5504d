------------------------------- MODULE MCTree -------------------------------
(* The instances of MandateTree that TLC checks: one kind of root mandate   *)
(* and the delegations asked of it, some within its terms and some beyond. *)
EXTENDS MandateTree, TLC
CONSTANTS s1, s2

(* key is the idempotency key. *)
Order(amount, key) == [amount |-> amount, type |-> "CREATE_ORDER", currency |-> "INR",
                       approved |-> FALSE, key |-> key]

(* Two within the terms of the root; one above its cap; one not on its      *)
(* whitelist.                                                              *)
MCRequests == {Order(1, 1), Order(1, 2), Order(2, 3), [Order(1, 4) EXCEPT !.type = "CREATE_REFUND"]}

Offer(limit, cap, types, until, threshold) ==
  [limit |-> limit, cap |-> cap, types |-> types, until |-> until,
   threshold |-> threshold, currency |-> ""]

(* Every charge to the root mandate needs a review. *)
MCRootTerms == {[Offer(2, 1, {"CREATE_ORDER"}, 0, 1) EXCEPT !.currency = "INR"]}

(* Charges below 2 need none. *)
MCChargedTerms == {[Offer(2, 2, {"CREATE_ORDER"}, 0, 2) EXCEPT !.currency = "INR"]}

(* Two delegations within these terms, the second of which asks for fewer   *)
(* reviews, and one beyond the cap, the whitelist and the validity each.    *)
MCChildTerms ==
  {Offer(2, 1, {}, 0, 0), Offer(1, 1, {"CREATE_ORDER"}, 0, 2),
   Offer(1, 2, {}, 0, 0), Offer(1, 1, {"CREATE_REFUND"}, 0, 0), Offer(1, 1, {}, 1, 0)}

SessionSymmetry == Permutations(Sessions)
==============================================================================
