--------------------------- MODULE ExperimentStore ---------------------------
(***************************************************************************)
(* The rows the experiment manager keeps for ONE proposal in the           *)
(* scientific-memory database (paperforge/experiments.py): its approvals,   *)
(* its budget events and its runs.  Every operator with a primed variable   *)
(* is one database transaction; LocalStage and BackendStage run them from   *)
(* concurrent processes.  Rows of different proposals never meet: every     *)
(* statement of the manager selects by the proposal's identifier.          *)
(***************************************************************************)
EXTENDS Integers, FiniteSets

CONSTANTS
  Events,     \* identifiers of budget events; a run is named by its event
  Scopes,     \* approval scopes, each the set of stages it covers
  Estimate,   \* estimated_cost of each stage's bound job, in cost units
  CostLimit,  \* cost_limit of the proposal, in cost units
  Contents,   \* contents the declared metrics file of the job can have
  Missing     \* "no such file", the hash None

StaticCheck == 1
MiniExperiment == 2
FullExperiment == 3
Stages == StaticCheck..FullExperiment

ASSUME CostAssumption == /\ CostLimit \in Nat \ {0}
                         /\ Estimate \in [Stages -> Nat \ {0}]
ASSUME ScopesAssumption == Scopes \subseteq SUBSET Stages
ASSUME ContentsAssumption == Missing \notin Contents

VARIABLES
  approvals,  \* scope -> status of the approval row with that scope
  budget,     \* event -> its row of experiment_budget_events
  runs,       \* event -> the run whose metadata names that event
  status,     \* experiments.status of the proposal
  output      \* the declared metrics file in the workspace

storeVars == <<approvals, budget, runs, status, output>>

Files == Contents \cup {Missing}

(* A budget row.  "lifecycle" and "before" are the parts of its metadata    *)
(* that the backend path reads back: whether the row carries the lifecycle  *)
(* identifier, and the hash of the output when it was first reserved.       *)
BudgetRows == [status : {"ABSENT", "RESERVED", "CHARGED", "RELEASED", "VIOLATION"},
               stage : Stages, amount : Nat,
               lifecycle : BOOLEAN, before : Files]

RunRows == [status : {"ABSENT", "PASSED", "FAILED"},
            stage : Stages, verified : BOOLEAN, metrics : Files]

NoBudget == [status |-> "ABSENT", stage |-> StaticCheck, amount |-> 0,
             lifecycle |-> FALSE, before |-> Missing]
NoRun == [status |-> "ABSENT", stage |-> StaticCheck,
          verified |-> FALSE, metrics |-> Missing]

StoreInit == /\ approvals = [s \in Scopes |-> "ABSENT"]
             /\ budget = [e \in Events |-> NoBudget]
             /\ runs = [e \in Events |-> NoRun]
             /\ status = "PROPOSED"
             /\ output = Missing

StoreTypeOK ==
  /\ approvals \in [Scopes -> {"ABSENT", "APPROVED", "SUPERSEDED"}]
  /\ budget \in [Events -> BudgetRows]
  /\ runs \in [Events -> RunRows]
  /\ status \in {"PROPOSED", "APPROVED", "RUNNING", "PASSED", "FAILED"}
  /\ output \in Files

(* The amounts that count against the limit, one coin per cost unit.        *)
Live == {"RESERVED", "CHARGED", "VIOLATION"}
Coins(b) == UNION {{e} \X (1..b[e].amount) :
                     e \in {x \in Events : b[x].status \in Live}}
Spent == Cardinality(Coins(budget))

----------------------------------------------------------------------------
(* What the manager asks of the rows.                                       *)

Covered(stage) == \E s \in Scopes : approvals[s] = "APPROVED" /\ stage \in s

Passed == {runs[e].stage : e \in {x \in Events : runs[x].status = "PASSED"}}

(* Mutation: any stage that has not passed may run.                         *)
NotYetPassed(stage) == stage \in Stages \ Passed
IsNextStage(stage) == /\ stage \in Stages \ Passed
                      /\ StaticCheck..(stage - 1) \subseteq Passed

(* Mutation: an approval alone authorises the stage.                        *)
AuthorizedByApproval(stage) == Covered(stage)
Authorized(stage) == Covered(stage) /\ IsNextStage(stage)

(* The full run can be cited: the manager accepts it as claim evidence.     *)
Eligible(run) == /\ run.verified
                 /\ run.stage = FullExperiment
                 /\ run.status = "PASSED"
                 /\ run.metrics # Missing

(* Mutation: open reservations are not counted.                             *)
AffordableIfCharged(stage) ==
  Cardinality(UNION {{e} \X (1..budget[e].amount) :
                       e \in {x \in Events : budget[x].status = "CHARGED"}})
    + Estimate[stage] <= CostLimit
Affordable(stage) == Spent + Estimate[stage] <= CostLimit

----------------------------------------------------------------------------
(* Transactions.                                                            *)

(* approve: every approval of the proposal gives way to the new one.        *)
ApproveRow(scope) ==
  /\ approvals' = [s \in Scopes |->
                     IF s = scope THEN "APPROVED"
                     ELSE IF approvals[s] = "APPROVED" THEN "SUPERSEDED"
                     ELSE approvals[s]]
  /\ status' = "APPROVED"
  /\ UNCHANGED <<budget, runs, output>>

(* _reserve_budget: the sum and the insert share one IMMEDIATE transaction. *)
ReserveRow(e, stage, lifecycle, before) ==
  /\ budget[e].status = "ABSENT"
  /\ Affordable(stage)
  /\ budget' = [budget EXCEPT ![e] = [status |-> "RESERVED", stage |-> stage,
                                      amount |-> Estimate[stage],
                                      lifecycle |-> lifecycle,
                                      before |-> before]]
  /\ UNCHANGED <<approvals, runs, status, output>>

(* _settle_budget: an UPDATE by identifier, whatever the row says by now.   *)
SettleRow(e, newStatus, amount) ==
  /\ budget' = [budget EXCEPT ![e].status = newStatus, ![e].amount = amount]
  /\ UNCHANGED <<approvals, runs, status, output>>

(* The transaction of record_stage: the run and the proposal's status.      *)
InsertRun(e, run) ==
  /\ runs' = [runs EXCEPT ![e] = run]
  /\ status' = CASE run.status = "FAILED" -> "FAILED"
                 [] run.status = "PASSED" /\ run.stage = FullExperiment -> "PASSED"
                 [] OTHER -> "RUNNING"
  /\ UNCHANGED <<approvals, budget, output>>

----------------------------------------------------------------------------
(* Reserved, charged and violated amounts never exceed the approved limit   *)
(* (_reserve_budget refuses what would).                                    *)
WithinCostLimit == Spent <= CostLimit

(* The budget rows keep the promise of BudgetLedger: admitted within the     *)
(* limit, settled once, for no more than was reserved, and final after that, *)
(* although _settle_budget itself would overwrite any row.                   *)
Ledger == INSTANCE BudgetLedger WITH
  Amounts <- 0..CostLimit,
  ledger <- [e \in Events |-> [status |-> budget[e].status, amount |-> budget[e].amount]]
KeepsLedger == Ledger!Spec

(* The same promise for rows that exist already: a change is a ledger step.  *)
LedgerSteps == [][Ledger!Next]_budget

(* No stage passes before the ones it follows (static, mini, full).         *)
StagesInOrder == \A s \in Passed : StaticCheck..s \subseteq Passed
=============================================================================
