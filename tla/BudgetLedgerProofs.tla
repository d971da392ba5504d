-------------------------- MODULE BudgetLedgerProofs --------------------------
(***************************************************************************)
(* The promises of BudgetLedger, for any finite set of operations, any     *)
(* amounts and any limit.                                                  *)
(***************************************************************************)
EXTENDS BudgetLedger, FiniteSetTheorems, TLAPS

(* The currency units of an operation, and of a set of operations. *)
UnitsOf(o) == {o} \X (1..Amount[o])
Units(S) == UNION {UnitsOf(o) : o \in S}
------------------------------------------------------------------------------
(* Sums over sets of operations. *)

(* The units of finitely many operations are finitely many. *)
LEMMA UnitsFinite ==
  ASSUME LedgerConstants, NEW S \in SUBSET Ops
  PROVE  IsFiniteSet(Units(S))
<1> DEFINE f == [o \in S |-> UnitsOf(o)]
           T == {UnitsOf(o) : o \in S}
<1>1. IsFiniteSet(S)
  BY FS_Subset DEF LedgerConstants
<1>2. f \in Surjection(S, T)
  BY DEF Surjection, UnitsOf
<1>3. IsFiniteSet(T)
  BY <1>1, <1>2, FS_Surjection
<1>4. ASSUME NEW o \in Ops PROVE IsFiniteSet(UnitsOf(o))
  <2>1. IsFiniteSet({o}) BY FS_Singleton
  <2>2. IsFiniteSet(1..Amount[o]) BY FS_Interval DEF LedgerConstants
  <2> QED BY <2>1, <2>2, FS_Product DEF UnitsOf
<1>5. \A U \in T : IsFiniteSet(U)
  BY <1>4
<1> QED BY <1>3, <1>5, FS_UNION DEF Units

(* A total is a natural number. *)
LEMMA TotalType ==
  ASSUME LedgerConstants, NEW S \in SUBSET Ops
  PROVE  Total(S) \in Nat
BY UnitsFinite, FS_CardinalityType DEF Total, Units, UnitsOf

(* Nothing amounts to nothing. *)
LEMMA TotalEmpty == Total({}) = 0
BY FS_EmptySet DEF Total

(* One operation amounts to its amount. *)
LEMMA TotalOne ==
  ASSUME LedgerConstants, NEW o \in Ops
  PROVE  Total({o}) = Amount[o]
<1>1. Amount[o] \in Nat
  BY DEF LedgerConstants
<1>2. IsFiniteSet({o}) /\ Cardinality({o}) = 1
  BY FS_Singleton
<1>3. IsFiniteSet(1..Amount[o]) /\ Cardinality(1..Amount[o]) = Amount[o]
  BY <1>1, FS_Interval
<1>4. Cardinality({o} \X (1..Amount[o])) = Amount[o]
  <2>1. Cardinality({o} \X (1..Amount[o])) = Cardinality({o}) * Cardinality(1..Amount[o])
    BY <1>2, <1>3, FS_Product
  <2>2. Cardinality({o} \X (1..Amount[o])) = 1 * Amount[o]
    BY <2>1, <1>2, <1>3
  <2> QED BY <2>2, <1>1
<1>5. UNION {{x} \X (1..Amount[x]) : x \in {o}} = {o} \X (1..Amount[o])
  OBVIOUS
<1> QED BY <1>4, <1>5 DEF Total

(* Disjoint sets of operations add up. *)
LEMMA TotalDisjoint ==
  ASSUME LedgerConstants, NEW S \in SUBSET Ops, NEW T \in SUBSET Ops, S \cap T = {}
  PROVE  Total(S \cup T) = Total(S) + Total(T)
<1>1. IsFiniteSet(Units(S)) /\ IsFiniteSet(Units(T))
  BY UnitsFinite
<1>2. Units(S) \cap Units(T) = {}
  BY DEF Units, UnitsOf
<1>3. Units(S \cup T) = Units(S) \cup Units(T)
  BY DEF Units
<1>4. Cardinality(Units(S)) \in Nat /\ Cardinality(Units(T)) \in Nat
  BY <1>1, FS_CardinalityType
<1>5. Cardinality(Units(S \cup T)) = Cardinality(Units(S)) + Cardinality(Units(T))
  <2>1. Cardinality(Units(S) \cup Units(T)) =
          Cardinality(Units(S)) + Cardinality(Units(T)) - Cardinality(Units(S) \cap Units(T))
    BY <1>1, FS_Union
  <2>2. Cardinality(Units(S) \cap Units(T)) = 0
    BY <1>2, FS_EmptySet
  <2>3. Cardinality(Units(S \cup T)) = Cardinality(Units(S) \cup Units(T))
    BY <1>3
  <2>4. Cardinality(Units(S \cup T)) = Cardinality(Units(S)) + Cardinality(Units(T)) - 0
    BY <2>1, <2>2, <2>3
  <2> QED BY <2>4, <1>4
<1> QED BY <1>5 DEF Total, Units, UnitsOf

(* Taking away operations takes away their amounts. *)
LEMMA TotalRemove ==
  ASSUME LedgerConstants, NEW S \in SUBSET Ops, NEW T \in SUBSET S
  PROVE  Total(S \ T) = Total(S) - Total(T)
<1>1. S = (S \ T) \cup T
  OBVIOUS
<1>2. Total((S \ T) \cup T) = Total(S \ T) + Total(T)
  BY TotalDisjoint
<1>3. Total(S) = Total(S \ T) + Total(T)
  BY <1>1, <1>2
<1>4. Total(S \ T) \in Nat /\ Total(T) \in Nat
  BY TotalType
<1> QED BY <1>3, <1>4
------------------------------------------------------------------------------
(* The inductive invariant: the columns are the sums over the phases, which *)
(* makes every release and commit leave them natural numbers.              *)
LedgerInv ==
  /\ phase \in [Ops -> Phase]
  /\ ColumnsMatchOperations
  /\ WithinLimit

(* The columns start at zero, with nothing reserved or committed. *)
LEMMA LedgerInit ==
  ASSUME LedgerConstants, Init
  PROVE  LedgerInv
<1>1. In("held") = {} /\ In("committed") = {}
  BY DEF Init, In
<1>2. ColumnsMatchOperations
  BY <1>1, TotalEmpty DEF Init, ColumnsMatchOperations
<1>3. phase \in [Ops -> Phase] /\ WithinLimit
  BY DEF Init, Phase, WithinLimit, LedgerConstants
<1> QED BY <1>2, <1>3 DEF LedgerInv

(* Granting a reservation keeps the books. *)
LEMMA ReserveKeeps ==
  ASSUME LedgerConstants, LedgerInv, NEW o \in Ops, Reserve(o)
  PROVE  LedgerInv'
<1>1. phase' \in [Ops -> Phase]
  BY DEF LedgerInv, Reserve, Phase
<1>2. In("held")' = In("held") \cup {o} /\ In("committed")' = In("committed")
  BY DEF LedgerInv, Reserve, Phase, In
<1>3. o \notin In("held")
  BY DEF Reserve, In
<1>4. Total(In("held")') = Total(In("held")) + Amount[o]
  <2>1. Total(In("held") \cup {o}) = Total(In("held")) + Total({o})
    BY <1>3, TotalDisjoint DEF In
  <2> QED BY <2>1, <1>2, TotalOne
<1>5. ColumnsMatchOperations'
  BY <1>2, <1>4 DEF LedgerInv, ColumnsMatchOperations, Reserve, Total
<1>6. WithinLimit'
  <2>1. reserved \in Nat /\ spend \in Nat /\ Amount[o] \in Nat /\ Limit \in Nat
    BY TotalType DEF LedgerInv, ColumnsMatchOperations, In, LedgerConstants
  <2> QED BY <2>1 DEF Reserve, WithinLimit
<1> QED BY <1>1, <1>5, <1>6 DEF LedgerInv

(* Ending reservations keeps the books. *)
LEMMA SettleKeeps ==
  ASSUME LedgerConstants, LedgerInv,
         NEW C \in SUBSET In("held"), NEW R \in SUBSET In("held"), C \cap R = {},
         Settle(C, R)
  PROVE  LedgerInv'
<1>0. C \in SUBSET Ops /\ R \in SUBSET Ops /\ C \cup R \in SUBSET In("held")
      /\ In("held") \in SUBSET Ops /\ In("committed") \in SUBSET Ops
  BY DEF In
<1>1. phase' \in [Ops -> Phase]
  BY DEF LedgerInv, Settle, Phase
<1>2. In("held")' = In("held") \ (C \cup R)
  BY <1>0 DEF LedgerInv, Settle, In
<1>3. In("committed")' = In("committed") \cup C
  BY <1>0 DEF LedgerInv, Settle, In
<1>4. C \cap In("committed") = {}
  BY DEF In
<1>5. Total(In("held")') = Total(In("held")) - Total(C) - Total(R)
  <2>1. Total(In("held") \ (C \cup R)) = Total(In("held")) - Total(C \cup R)
    BY <1>0, TotalRemove
  <2>2. Total(C \cup R) = Total(C) + Total(R)
    BY <1>0, TotalDisjoint
  <2>3. Total(C) \in Nat /\ Total(R) \in Nat /\ Total(In("held")) \in Nat
    BY <1>0, TotalType
  <2>4. Total(In("held")') = Total(In("held")) - (Total(C) + Total(R))
    BY <1>2, <2>1, <2>2
  <2> QED BY <2>3, <2>4
<1>6. Total(In("committed")') = Total(In("committed")) + Total(C)
  BY <1>0, <1>3, <1>4, TotalDisjoint
<1>7. ColumnsMatchOperations'
  BY <1>5, <1>6 DEF LedgerInv, ColumnsMatchOperations, Settle, Total
<1>8. WithinLimit'
  <2>1. reserved \in Nat /\ spend \in Nat /\ Total(C) \in Nat /\ Total(R) \in Nat
        /\ Limit \in Nat
    BY <1>0, TotalType DEF LedgerInv, ColumnsMatchOperations, LedgerConstants
  <2> QED BY <2>1 DEF LedgerInv, Settle, WithinLimit
<1> QED BY <1>1, <1>7, <1>8 DEF LedgerInv

(* Reserving and spending at once keeps the books. *)
LEMMA SpendKeeps ==
  ASSUME LedgerConstants, LedgerInv, NEW o \in Ops, Spend(o)
  PROVE  LedgerInv'
<1>1. phase' \in [Ops -> Phase]
  BY DEF LedgerInv, Spend, Phase
<1>2. In("committed")' = In("committed") \cup {o} /\ In("held")' = In("held")
  BY DEF LedgerInv, Spend, Phase, In
<1>3. o \notin In("committed")
  BY DEF Spend, In
<1>4. Total(In("committed")') = Total(In("committed")) + Amount[o]
  <2>1. Total(In("committed") \cup {o}) = Total(In("committed")) + Total({o})
    BY <1>3, TotalDisjoint DEF In
  <2> QED BY <2>1, <1>2, TotalOne
<1>5. ColumnsMatchOperations'
  BY <1>2, <1>4 DEF LedgerInv, ColumnsMatchOperations, Spend, Total
<1>6. WithinLimit'
  <2>1. reserved \in Nat /\ spend \in Nat /\ Amount[o] \in Nat /\ Limit \in Nat
    BY TotalType DEF LedgerInv, ColumnsMatchOperations, In, LedgerConstants
  <2> QED BY <2>1 DEF Spend, WithinLimit
<1> QED BY <1>1, <1>5, <1>6 DEF LedgerInv

(* Reserving and releasing at once leaves no trace in the books. *)
LEMMA AbandonKeeps ==
  ASSUME LedgerConstants, LedgerInv, NEW o \in Ops, Abandon(o)
  PROVE  LedgerInv'
<1>1. phase' \in [Ops -> Phase]
  BY DEF LedgerInv, Abandon, Phase
<1>2. In("committed")' = In("committed") /\ In("held")' = In("held")
  BY DEF LedgerInv, Abandon, Phase, In
<1>3. ColumnsMatchOperations' /\ WithinLimit'
  BY <1>2 DEF LedgerInv, ColumnsMatchOperations, WithinLimit, Abandon, Total
<1> QED BY <1>1, <1>3 DEF LedgerInv

(* Every step of the ledger keeps the books. *)
LEMMA LedgerStep ==
  ASSUME LedgerConstants, LedgerInv, [Next]_vars
  PROVE  LedgerInv'
<1>1. CASE UNCHANGED vars
  BY <1>1 DEF vars, LedgerInv, ColumnsMatchOperations, WithinLimit, In, Total
<1>2. ASSUME NEW o \in Ops, Reserve(o) PROVE LedgerInv'
  BY <1>2, ReserveKeeps
<1>3. ASSUME NEW o \in Ops, Spend(o) PROVE LedgerInv'
  BY <1>3, SpendKeeps
<1>4. ASSUME NEW o \in Ops, Abandon(o) PROVE LedgerInv'
  BY <1>4, AbandonKeeps
<1>5. ASSUME NEW C \in SUBSET In("held"), NEW R \in SUBSET In("held"),
             C \cap R = {}, Settle(C, R)
      PROVE  LedgerInv'
  BY <1>5, SettleKeeps
<1> QED BY <1>1, <1>2, <1>3, <1>4, <1>5 DEF Next

(* The ledger's books balance for ever and the mandate is never overspent: *)
(* what README.md, section 5, calls the key invariant, for every number of *)
(* operations, all amounts and every limit.                                *)
THEOREM LedgerSafe ==
  ASSUME LedgerConstants
  PROVE  Spec => [](ColumnsMatchOperations /\ WithinLimit)
<1>1. Init => LedgerInv
  BY LedgerInit
<1>2. LedgerInv /\ [Next]_vars => LedgerInv'
  BY LedgerStep
<1>3. LedgerInv => ColumnsMatchOperations /\ WithinLimit
  BY DEF LedgerInv
<1> QED BY <1>1, <1>2, <1>3, PTL DEF Spec
==============================================================================
