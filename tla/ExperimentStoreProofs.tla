------------------------ MODULE ExperimentStoreProofs ------------------------
(***************************************************************************)
(* What the transactions of ExperimentStore do to the budget and to the     *)
(* stages that have passed, for every set of events and every limit.  The   *)
(* sum of the live amounts is the number of coins, so that a reservation    *)
(* adds disjoint coins and a settlement removes some.                       *)
(***************************************************************************)
EXTENDS ExperimentStore, FiniteSetTheorems, TLAPS

BudgetTypeOK == budget \in [Events -> BudgetRows]
BudgetOK == IsFiniteSet(Coins(budget)) /\ WithinCostLimit

(* An amount is as many cost units as it says.                              *)
LEMMA UnitsOfOneRow ==
  ASSUME NEW e, NEW n \in Nat
  PROVE  IsFiniteSet({e} \X (1..n)) /\ Cardinality({e} \X (1..n)) = n
<1>1. IsFiniteSet(1..n) /\ Cardinality(1..n) = n
  BY FS_Interval
<1>2. IsFiniteSet({e}) /\ Cardinality({e}) = 1
  BY FS_Singleton
<1>3. /\ IsFiniteSet({e} \X (1..n))
      /\ Cardinality({e} \X (1..n)) = Cardinality({e}) * Cardinality(1..n)
  BY <1>1, <1>2, FS_Product, Zenon
<1> QED  BY <1>1, <1>2, <1>3

(* No row, no coin: a new proposal is within its limit.                     *)
LEMMA NoCoinsAtFirst ==
  ASSUME StoreInit
  PROVE  BudgetOK
<1>1. Coins(budget) = {}
  BY SMT DEF StoreInit, Coins, NoBudget, Live
<1> QED  BY <1>1, FS_EmptySet, CostAssumption DEF BudgetOK, WithinCostLimit, Spent

(* A reservation that _reserve_budget admits keeps the sum within the limit. *)
LEMMA ReserveKeepsBudget ==
  ASSUME NEW e \in Events, NEW stage \in Stages,
         NEW lifecycle, NEW before,
         BudgetTypeOK, BudgetOK, ReserveRow(e, stage, lifecycle, before)
  PROVE  BudgetOK'
<1> DEFINE new == {e} \X (1..Estimate[stage])
<1>1. Estimate[stage] \in Nat
  BY CostAssumption
<1>4. IsFiniteSet(new) /\ Cardinality(new) = Estimate[stage]
  BY <1>1, UnitsOfOneRow
<1>5. /\ budget'[e].status = "RESERVED"
      /\ budget'[e].amount = Estimate[stage]
      /\ \A x \in Events \ {e} : budget'[x] = budget[x]
      /\ budget[e].status = "ABSENT"
  BY DEF ReserveRow, BudgetTypeOK
<1>6. Coins(budget') = Coins(budget) \cup new
  <2>1. {x \in Events : budget'[x].status \in Live}
          = {x \in Events : budget[x].status \in Live} \cup {e}
    BY <1>5 DEF Live
  <2>2. e \notin {x \in Events : budget[x].status \in Live}
    BY <1>5 DEF Live
  <2> QED  BY <2>1, <2>2, <1>5, SMT DEF Coins
<1>7. Coins(budget) \cap new = {}
  BY <1>5, SMT DEF Coins, Live
<1>8. Cardinality(Coins(budget')) = Cardinality(Coins(budget)) + Estimate[stage]
  <2> HIDE DEF new
  <2>1. Cardinality(Coins(budget) \cup new)
          = Cardinality(Coins(budget)) + Cardinality(new) - Cardinality({})
    BY <1>4, <1>7, FS_Union DEF BudgetOK
  <2>2. Cardinality(Coins(budget)) \in Nat
    BY FS_CardinalityType DEF BudgetOK
  <2> QED  BY <2>1, <2>2, <1>1, <1>4, <1>6, FS_EmptySet
<1>9. IsFiniteSet(Coins(budget'))
  <2> HIDE DEF new
  <2> QED  BY <1>4, <1>6, FS_Union DEF BudgetOK
<1> QED
  BY <1>8, <1>9 DEF BudgetOK, WithinCostLimit, Spent, ReserveRow, Affordable

(* Settling a live row at no more than its amount only removes coins.       *)
LEMMA SettleKeepsBudget ==
  ASSUME NEW e \in Events, NEW newStatus, NEW amount \in Nat,
         BudgetTypeOK, BudgetOK, SettleRow(e, newStatus, amount),
         budget[e].status \in Live, amount <= budget[e].amount
  PROVE  BudgetOK'
<1>1. /\ budget'[e].amount = amount
      /\ \A x \in Events \ {e} : budget'[x] = budget[x]
  BY DEF SettleRow, BudgetTypeOK, BudgetRows
<1>2. budget[e].amount \in Nat
  BY DEF BudgetTypeOK, BudgetRows
<1>3. ASSUME NEW x \in Events, budget'[x].status \in Live
      PROVE  budget[x].status \in Live /\ 1..budget'[x].amount \subseteq 1..budget[x].amount
  BY <1>1, <1>2, <1>3
<1>4. Coins(budget') \subseteq Coins(budget)
  BY <1>3, SMT DEF Coins
<1>5. /\ IsFiniteSet(Coins(budget'))
      /\ Cardinality(Coins(budget')) <= Cardinality(Coins(budget))
  BY <1>4, FS_Subset DEF BudgetOK
<1>6. /\ Cardinality(Coins(budget)) \in Nat
      /\ Cardinality(Coins(budget')) \in Nat
  BY <1>5, FS_CardinalityType DEF BudgetOK
<1> QED  BY <1>5, <1>6, CostAssumption DEF BudgetOK, WithinCostLimit, Spent

----------------------------------------------------------------------------
(* The row of an event, as the ledger sees it.                              *)
LedgerRow(e) == [status |-> budget[e].status, amount |-> budget[e].amount]

(* The two modules count the same cost units.                               *)
LEMMA SameCount == Ledger!Cardinality(Ledger!CountedUnits) = Spent
<1>1. \A S : Ledger!Cardinality(S) = Cardinality(S)
  BY Zenon DEF Ledger!Cardinality, Cardinality
<1> DEFINE rows == [x \in Events |-> LedgerRow(x)]
<1>2. \A e \in Events : /\ rows[e].status = budget[e].status
                        /\ rows[e].amount = budget[e].amount
  BY DEF LedgerRow
<1>3. Ledger!CountedUnits
        = UNION {{e} \X (1..rows[e].amount) : e \in {x \in Events : rows[x].status \in Live}}
  BY DEF Ledger!CountedUnits, Live, LedgerRow
<1> HIDE DEF rows
<1>4. Ledger!CountedUnits = Coins(budget)
  <2>1. {x \in Events : rows[x].status \in Live}
          = {x \in Events : budget[x].status \in Live}
    BY <1>2
  <2> QED  BY <1>2, <1>3, <2>1, Zenon DEF Coins
<1> QED  BY <1>1, <1>4 DEF Spent

(* Init: a new proposal has no rows.                                        *)
LEMMA StoreInitLedger == StoreInit => Ledger!Init
BY SMT DEF StoreInit, Ledger!Init, NoBudget

(* An admitted reservation is a step of the ledger.                         *)
LEMMA ReserveIsLedgerStep ==
  ASSUME NEW e \in Events, NEW stage \in Stages, NEW lifecycle, NEW before,
         BudgetTypeOK, BudgetOK, ReserveRow(e, stage, lifecycle, before)
  PROVE  Ledger!Next
<1>1. Estimate[stage] \in Nat /\ Spent \in Nat
  BY CostAssumption, FS_CardinalityType DEF BudgetOK, Spent
<1>2. Spent + Estimate[stage] <= CostLimit
  BY DEF ReserveRow, Affordable
<1>3. Estimate[stage] \in 0..CostLimit
  BY <1>1, <1>2, CostAssumption
<1>4. Ledger!Reserve(e, Estimate[stage])
  <2>1. budget[e].status = "ABSENT" /\ [x \in Events |-> LedgerRow(x)][e].status = "ABSENT"
    BY DEF ReserveRow, LedgerRow
  <2>2. Ledger!Cardinality(Ledger!CountedUnits) + Estimate[stage] <= CostLimit
    BY <1>2, SameCount
  <2>3. [x \in Events |-> LedgerRow(x)]' = [[x \in Events |-> LedgerRow(x)] EXCEPT
           ![e] = [status |-> "RESERVED", amount |-> Estimate[stage]]]
    BY DEF ReserveRow, LedgerRow, BudgetTypeOK
  <2> QED  BY <2>1, <2>2, <2>3 DEF Ledger!Reserve, LedgerRow
<1> QED  BY <1>3, <1>4 DEF Ledger!Next

(* One live row alone is within the limit.                                  *)
LEMMA LiveAmountWithinLimit ==
  ASSUME NEW e \in Events, BudgetTypeOK, BudgetOK, budget[e].status \in Live
  PROVE  budget[e].amount \in 0..CostLimit
<1> DEFINE n == budget[e].amount
           units == {e} \X (1..n)
<1>1. n \in Nat
  BY DEF BudgetTypeOK, BudgetRows
<1>2. Cardinality(units) = n
  BY <1>1, UnitsOfOneRow
<1>3. units \subseteq Coins(budget)
  BY SMT DEF Coins
<1> HIDE DEF units
<1>4. Cardinality(units) <= Cardinality(Coins(budget))
  BY <1>3, FS_Subset DEF BudgetOK
<1>5. Cardinality(Coins(budget)) \in Nat
  BY FS_CardinalityType DEF BudgetOK
<1> QED  BY <1>1, <1>2, <1>4, <1>5, CostAssumption DEF BudgetOK, WithinCostLimit, Spent

(* So is the settlement of a reserved row.                                  *)
LEMMA SettleIsLedgerStep ==
  ASSUME NEW e \in Events, NEW newStatus \in {"CHARGED", "RELEASED", "VIOLATION"},
         NEW amount \in Nat, BudgetTypeOK, BudgetOK,
         SettleRow(e, newStatus, amount), budget[e].status = "RESERVED",
         amount <= budget[e].amount,
         newStatus # "CHARGED" => amount = budget[e].amount
  PROVE  Ledger!Next
<1>1. [x \in Events |-> LedgerRow(x)]' = [[x \in Events |-> LedgerRow(x)] EXCEPT
         ![e] = [status |-> newStatus, amount |-> amount]]
  BY DEF SettleRow, LedgerRow, BudgetTypeOK, BudgetRows
<1>2. Ledger!Settle(e, newStatus, amount)
  BY <1>1 DEF Ledger!Settle, LedgerRow
<1>3. budget[e].amount \in 0..CostLimit
  BY LiveAmountWithinLimit DEF Live
<1> QED  BY <1>2, <1>3, CostAssumption DEF Ledger!Next
=============================================================================
