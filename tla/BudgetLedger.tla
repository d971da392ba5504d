---------------------------- MODULE BudgetLedger ----------------------------
(***************************************************************************)
(* What the control plane promises about one mandate's budget, whoever     *)
(* carries the promise out:                                                *)
(*   - "A financial operation is committed exactly once or released        *)
(*     exactly once" (README.md, section 5);                               *)
(*   - "concurrent authorized operations must never commit more than the   *)
(*     mandate's aggregate budget" (README.md, core safety property).      *)
(*                                                                         *)
(* Each operation is reserved at most once, and a reservation ends in one  *)
(* commit or one release.  The two columns of the mandate row move only    *)
(* with those steps.  OperationPipeline is the detailed system.            *)
(***************************************************************************)
EXTENDS Integers, FiniteSets

CONSTANTS
  Ops,      \* the operations charged to the mandate
  Amount,   \* Amount[o]: the amount of operation o
  Limit     \* the mandate's aggregate_spend_limit

LedgerConstants ==
  /\ IsFiniteSet(Ops)
  /\ Amount \in [Ops -> Nat]
  /\ Limit \in Nat

VARIABLES
  phase,      \* phase[o]: how far operation o has come
  reserved,   \* the column reserved_spend
  spend       \* the column current_aggregate_spend

vars == <<phase, reserved, spend>>

Phase == {"none", "held", "committed", "released"}

In(p) == {o \in Ops : phase[o] = p}

(* The sum of the amounts of the operations in S, as the number of their   *)
(* currency units: a sum that needs no recursion.                          *)
Total(S) == Cardinality(UNION {{o} \X (1..Amount[o]) : o \in S})
------------------------------------------------------------------------------
Init ==
  /\ phase = [o \in Ops |-> "none"]
  /\ reserved = 0
  /\ spend = 0

(* A new operation gets its share of the budget, if there is room for it. *)
Reserve(o) ==
  /\ phase[o] = "none"
  /\ spend + reserved + Amount[o] <= Limit
  /\ phase' = [phase EXCEPT ![o] = "held"]
  /\ reserved' = reserved + Amount[o]
  /\ UNCHANGED spend

(* Reservations end: those of the operations in C are spent, those of the  *)
(* operations in R are given back.                                         *)
Settle(C, R) ==
  /\ phase' = [o \in Ops |->
                 IF o \in C THEN "committed" ELSE IF o \in R THEN "released" ELSE phase[o]]
  /\ reserved' = reserved - Total(C) - Total(R)
  /\ spend' = spend + Total(C)

(* Reserved and spent within one database transaction. *)
Spend(o) ==
  /\ phase[o] = "none"
  /\ spend + reserved + Amount[o] <= Limit
  /\ phase' = [phase EXCEPT ![o] = "committed"]
  /\ spend' = spend + Amount[o]
  /\ UNCHANGED reserved

(* Reserved and given back within one database transaction. *)
Abandon(o) ==
  /\ phase[o] = "none"
  /\ phase' = [phase EXCEPT ![o] = "released"]
  /\ UNCHANGED <<reserved, spend>>

Next ==
  \/ \E o \in Ops : Reserve(o) \/ Spend(o) \/ Abandon(o)
  \/ \E C, R \in SUBSET In("held") : C \cap R = {} /\ C \cup R # {} /\ Settle(C, R)

Spec == Init /\ [][Next]_vars
------------------------------------------------------------------------------
TypeOK ==
  /\ phase \in [Ops -> Phase]
  /\ reserved \in Nat
  /\ spend \in Nat

(* The columns say what the operations say: reserved_spend is the sum of   *)
(* the reservations in flight and current_aggregate_spend the sum of the   *)
(* committed amounts, so no amount is counted twice, dropped or stolen.    *)
ColumnsMatchOperations ==
  /\ reserved = Total(In("held"))
  /\ spend = Total(In("committed"))

(* The mandate is never overspent, counting what is reserved. *)
WithinLimit == spend + reserved <= Limit
==============================================================================
