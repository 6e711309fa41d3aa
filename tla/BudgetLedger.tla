----------------------------- MODULE BudgetLedger -----------------------------
(***************************************************************************)
(* What the budget events of one proposal promise to whoever approved its   *)
(* cost_limit: an amount is reserved only while the limit allows it, each    *)
(* reservation is settled once, for no more than was reserved, and a        *)
(* settlement is final.  LocalStage and BackendStage are meant to implement *)
(* this specification (KeepsLedger in ExperimentStore).                     *)
(***************************************************************************)
EXTENDS Integers, FiniteSets

CONSTANTS Events, Amounts, CostLimit  \* amounts and the limit in cost units

VARIABLE ledger  \* event -> status and amount of its row

(* The amounts that count against the limit, as sets of cost units.         *)
CountedUnits == UNION {{e} \X (1..ledger[e].amount) :
  e \in {x \in Events : ledger[x].status \in {"RESERVED", "CHARGED", "VIOLATION"}}}

Init == ledger = [e \in Events |-> [status |-> "ABSENT", amount |-> 0]]

Reserve(e, amount) ==
  /\ ledger[e].status = "ABSENT"
  /\ Cardinality(CountedUnits) + amount <= CostLimit
  /\ ledger' = [ledger EXCEPT ![e] = [status |-> "RESERVED", amount |-> amount]]

(* A charge may be lower than the reservation; a release or a violation     *)
(* keeps the reserved amount on record.                                     *)
Settle(e, status, amount) ==
  /\ ledger[e].status = "RESERVED"
  /\ amount <= ledger[e].amount
  /\ status # "CHARGED" => amount = ledger[e].amount
  /\ ledger' = [ledger EXCEPT ![e] = [status |-> status, amount |-> amount]]

Next == \E e \in Events, amount \in Amounts :
  \/ Reserve(e, amount)
  \/ \E status \in {"CHARGED", "RELEASED", "VIOLATION"} : Settle(e, status, amount)

Spec == Init /\ [][Next]_ledger
=============================================================================
