--------------------------- MODULE LocalStageProofs ---------------------------
(***************************************************************************)
(* The safety properties of LocalStage for every number of executors,       *)
(* every budget and every interleaving, kills and new approvals included.   *)
(***************************************************************************)
EXTENDS LocalStage, ExperimentStoreProofs

Settled == {"charged", "verified", "recording"}
Holding == Unsettled \cup Settled

(* A call and its budget row agree: the row is reserved until the call      *)
(* settles it and charged from then on, for the stage the call executes.    *)
CallOwnsRow(x) ==
  /\ local[x].pc \in Unsettled => budget[local[x].event].status = "RESERVED"
  /\ local[x].pc \in Settled => budget[local[x].event].status = "CHARGED"
  /\ local[x].pc \in Holding =>
       /\ budget[local[x].event].stage = local[x].stage
       /\ runs[local[x].event].status = "ABSENT"

RowsOwned == \A x \in Executors : CallOwnsRow(x)

(* No two calls work on the same row.                                       *)
RowsDistinct == \A x, y \in Executors :
  /\ local[x].pc \in Holding /\ local[y].pc \in Holding
  /\ local[x].event = local[y].event
  => x = y

ReservedAtEstimate == \A e \in Events :
  budget[e].status = "RESERVED" => budget[e].amount = Estimate[budget[e].stage]

(* The earlier stages a call found passed have not stopped being so.        *)
RecordingInOrder == \A x \in Executors :
  local[x].pc = "recording" => StaticCheck..(local[x].stage - 1) \subseteq Passed

IInv == /\ TypeOK
        /\ RowsOwned
        /\ RowsDistinct
        /\ ReservedAtEstimate
        /\ RecordingInOrder
        /\ RunsAreCharged
        /\ StagesInOrder
        /\ BudgetOK

----------------------------------------------------------------------------
(* The fields a call has at each step of its program.                       *)
LEMMA CallTypes ==
  ASSUME TypeOK, NEW x \in Executors
  PROVE  /\ local[x].pc = "idle" => local[x] = Idle
         /\ local[x].pc \in {"authorized", "hashed"} =>
              local[x] \in [pc : {"authorized", "hashed"}, stage : Stages,
                            bound : BOOLEAN, before : Files]
         /\ local[x].pc \in Holding =>
              local[x] \in [pc : Holding, stage : Stages, bound : BOOLEAN,
                            before : Files, event : Events, code : {0, 1},
                            cost : Nat, verified : BOOLEAN, metrics : Files]
         /\ local[x].pc \in {"idle", "killed", "authorized", "hashed"} \cup Holding
<1>1. local[x] \in Resting \cup Calls
  BY DEF TypeOK
<1> QED  BY <1>1, SMT DEF Calls, Resting, Idle, Killed, Holding, Unsettled, Settled

(* An approved project without rows satisfies the invariant.                *)
LEMMA InitIInv == Init => IInv
<1> SUFFICES ASSUME Init PROVE IInv
  OBVIOUS
<1>1. TypeOK
  BY CostAssumption, SMT DEF Init, Resting, StoreInit, TypeOK, StoreTypeOK, Stages,
     StaticCheck, FullExperiment, BudgetRows, RunRows, NoBudget, NoRun, Files
<1>2. BudgetOK
  BY NoCoinsAtFirst DEF Init
<1>3. RowsOwned /\ RowsDistinct /\ RecordingInOrder
  BY SMT DEF Init, Idle, RowsOwned, RowsDistinct, RecordingInOrder, CallOwnsRow,
     Unsettled, Settled, Holding
<1>4. ReservedAtEstimate /\ RunsAreCharged /\ StagesInOrder
  BY SMT DEF Init, StoreInit, NoBudget, NoRun, ReservedAtEstimate, RunsAreCharged,
     StagesInOrder, Passed
<1> QED  BY <1>1, <1>2, <1>3, <1>4 DEF IInv

(* A step that leaves the rows alone and neither takes a row for x nor      *)
(* changes which one it holds.                                              *)
LEMMA QuietStep ==
  ASSUME IInv, NEW x \in Executors, NEW call \in Resting \cup Calls,
         local' = [local EXCEPT ![x] = call],
         budget' = budget, runs' = runs, approvals' = approvals,
         status' = status, output' \in Files,
         call.pc \in Holding => /\ local[x].pc \in Holding
                                /\ call.event = local[x].event
                                /\ call.stage = local[x].stage,
         call.pc \in Unsettled => local[x].pc \in Unsettled,
         call.pc \in Settled => local[x].pc \in Settled,
         call.pc = "recording" => StaticCheck..(call.stage - 1) \subseteq Passed
  PROVE  IInv'
<1>0. Holding = Unsettled \cup Settled
  BY DEF Holding
<1>1. TypeOK'
  BY SMT DEF IInv, TypeOK, StoreTypeOK
<1>2. /\ local'[x] = call
      /\ \A y \in Executors \ {x} : local'[y] = local[y]
  BY DEF IInv, TypeOK
<1>3. RowsOwned'
  BY <1>0, <1>2, SMT DEF IInv, RowsOwned, CallOwnsRow
<1>4. RowsDistinct'
  BY <1>2, SMT DEF IInv, RowsDistinct
<1>5. RecordingInOrder'
  BY <1>2, SMT DEF IInv, RecordingInOrder, Passed
<1>6. ReservedAtEstimate' /\ RunsAreCharged' /\ StagesInOrder' /\ BudgetOK'
  BY DEF IInv, ReservedAtEstimate, RunsAreCharged, StagesInOrder, Passed,
     BudgetOK, WithinCostLimit, Spent
<1> QED  BY <1>1, <1>3, <1>4, <1>5, <1>6 DEF IInv

(* A call that returns, or whose process is killed, only gives up its row. *)
LEMMA ReturnStep ==
  ASSUME IInv, NEW x \in Executors, NEW rest \in Resting,
         local' = [local EXCEPT ![x] = rest], UNCHANGED storeVars
  PROVE  IInv'
<1>1. rest \in Resting \cup Calls /\ rest.pc \notin Holding /\ rest.pc # "recording"
  BY DEF Resting, Idle, Killed, Holding, Unsettled, Settled
<1> QED  BY <1>1, QuietStep DEF storeVars, Holding, IInv, TypeOK, StoreTypeOK

(* _authorize_stage reads the tables and writes none.                       *)
LEMMA AuthorizeStep ==
  ASSUME IInv, NEW x \in Executors, NEW stage \in Stages, NEW bound \in Bindings,
         Authorize(x, stage, bound)
  PROVE  IInv'
<1> DEFINE call == [pc |-> "authorized", stage |-> stage, bound |-> bound,
                    before |-> Missing]
<1>1. call \in Resting \cup Calls
  BY BindingsAssumption DEF Calls, Files
<1>2. call.pc \notin Holding /\ call.pc # "recording"
  BY DEF Holding, Unsettled, Settled
<1>3. local' = [local EXCEPT ![x] = call]
  BY DEF Authorize
<1> HIDE DEF call
<1> QED  BY <1>1, <1>2, <1>3, QuietStep DEF Authorize, storeVars, Holding, IInv, TypeOK, StoreTypeOK

(* Hashing the old output before the run writes nothing.                    *)
LEMMA HashBeforeStep ==
  ASSUME IInv, NEW x \in Executors, HashBefore(x)
  PROVE  IInv'
<1> DEFINE call == [local[x] EXCEPT !.pc = "hashed", !.before = output]
<1>1. local[x] \in [pc : {"authorized", "hashed"}, stage : Stages, bound : BOOLEAN,
                    before : Files] /\ output \in Files
  BY CallTypes DEF IInv, HashBefore, At, TypeOK, StoreTypeOK
<1>2. call \in Resting \cup Calls /\ call.pc = "hashed"
  BY <1>1 DEF Calls
<1>3. call.pc \notin Holding /\ call.pc # "recording"
  BY <1>2 DEF Holding, Unsettled, Settled
<1>4. local' = [local EXCEPT ![x] = call]
  BY DEF HashBefore, IInv, TypeOK
<1> HIDE DEF call
<1> QED  BY <1>1, <1>2, <1>3, <1>4, QuietStep DEF HashBefore, storeVars, Holding

(* The remaining steps without a row: the call keeps its row and its stage. *)
LEMMA HoldingStep ==
  ASSUME IInv, NEW x \in Executors, NEW pc \in Holding, NEW code \in {0, 1},
         NEW cost \in Nat, NEW verified \in BOOLEAN, NEW metrics \in Files,
         local[x].pc \in Holding,
         local' = [local EXCEPT ![x] = [local[x] EXCEPT !.pc = pc, !.code = code,
                     !.cost = cost, !.verified = verified, !.metrics = metrics]],
         budget' = budget, runs' = runs, approvals' = approvals,
         status' = status, output' \in Files,
         pc \in Unsettled => local[x].pc \in Unsettled,
         pc \in Settled => local[x].pc \in Settled,
         pc = "recording" => StaticCheck..(local[x].stage - 1) \subseteq Passed
  PROVE  IInv'
<1> DEFINE call == [local[x] EXCEPT !.pc = pc, !.code = code, !.cost = cost,
                                    !.verified = verified, !.metrics = metrics]
<1>1. local[x] \in [pc : Holding, stage : Stages, bound : BOOLEAN, before : Files,
                    event : Events, code : {0, 1}, cost : Nat,
                    verified : BOOLEAN, metrics : Files]
  BY CallTypes DEF IInv
<1>2. /\ call \in Resting \cup Calls
      /\ call.pc = pc /\ call.event = local[x].event /\ call.stage = local[x].stage
  BY <1>1 DEF Calls, Holding, Unsettled, Settled
<1>3. local' = [local EXCEPT ![x] = call]
  OBVIOUS
<1> HIDE DEF call
<1> QED  BY <1>2, <1>3, QuietStep

(* The job may write the output; the rows do not change.                    *)
LEMMA ExecuteStep ==
  ASSUME IInv, NEW x \in Executors, NEW code \in {0, 1}, NEW cost \in Costs, NEW file \in Files,
         Execute(x, code, cost, file)
  PROVE  IInv'
<1> DEFINE kept == local[x]
           call == [kept EXCEPT !.pc = "ran", !.code = code, !.cost = cost,
                                !.verified = kept.verified, !.metrics = kept.metrics]
<1>1. kept \in [pc : Holding, stage : Stages, bound : BOOLEAN, before : Files,
                event : Events, code : {0, 1}, cost : Nat,
                verified : BOOLEAN, metrics : Files]
  BY CallTypes DEF IInv, Execute, At, Holding, Unsettled, Settled
<1>2. local' = [local EXCEPT ![x] = call]
  BY <1>1 DEF Execute, Goto, IInv, TypeOK
<1>3. file \in Files /\ cost \in Nat
  BY CostAssumption DEF IInv, TypeOK, StoreTypeOK, Execute, Files, Costs
<1>4. /\ "ran" \in Unsettled /\ "ran" \notin Settled /\ kept.pc \in Unsettled
      /\ UNCHANGED <<approvals, budget, runs, status>> /\ output' = file
  BY DEF Execute, At, Unsettled, Settled
<1> QED
  BY <1>1, <1>2, <1>3, <1>4, HoldingStep DEF Holding

(* A run that raises leaves its row reserved until the handler releases it. *)
LEMMA ExecuteRaisesStep ==
  ASSUME IInv, NEW x \in Executors, ExecuteRaises(x)
  PROVE  IInv'
<1> DEFINE kept == local[x]
           call == [kept EXCEPT !.pc = "raised", !.code = kept.code, !.cost = kept.cost,
                                !.verified = kept.verified, !.metrics = kept.metrics]
<1>1. kept \in [pc : Holding, stage : Stages, bound : BOOLEAN, before : Files,
                event : Events, code : {0, 1}, cost : Nat,
                verified : BOOLEAN, metrics : Files]
  BY CallTypes DEF IInv, ExecuteRaises, At, Holding, Unsettled, Settled
<1>2. local' = [local EXCEPT ![x] = call]
  BY <1>1 DEF ExecuteRaises, Goto, IInv, TypeOK
<1>3. /\ "raised" \in Unsettled /\ "raised" \notin Settled /\ kept.pc \in Unsettled
      /\ UNCHANGED storeVars /\ output \in Files
  BY DEF ExecuteRaises, At, Unsettled, Settled, IInv, TypeOK, StoreTypeOK
<1> QED
  BY <1>1, <1>2, <1>3, HoldingStep DEF Holding, storeVars

(* The freshness verdict is kept in the call alone.                         *)
LEMMA HashAfterStep ==
  ASSUME IInv, NEW x \in Executors, HashAfter(x)
  PROVE  IInv'
<1> DEFINE kept == local[x]
           fresh == output # Missing /\ output # kept.before
           stale == kept.stage = FullExperiment /\ kept.code = 0 /\ ~ fresh
           verified == kept.bound /\ ~ stale
           call == [kept EXCEPT !.pc = "verified", !.code = kept.code,
                                !.cost = kept.cost, !.verified = verified,
                                !.metrics = kept.metrics]
<1>1. kept \in [pc : Holding, stage : Stages, bound : BOOLEAN, before : Files,
                event : Events, code : {0, 1}, cost : Nat,
                verified : BOOLEAN, metrics : Files]
  BY CallTypes DEF IInv, HashAfter, At, Holding, Unsettled, Settled
<1>2. verified \in BOOLEAN
  OBVIOUS
<1>3. local' = [local EXCEPT ![x].pc = "verified", ![x].verified = verified]
  BY DEF HashAfter
<1> HIDE DEF verified
<1>4. local' = [local EXCEPT ![x] = call]
  BY <1>1, <1>3 DEF IInv, TypeOK
<1>5. output \in Files /\ "verified" \in Settled /\ "verified" \notin Unsettled
  BY DEF IInv, TypeOK, StoreTypeOK, Settled, Unsettled
<1>6. kept.pc \in Settled /\ UNCHANGED storeVars
  BY DEF HashAfter, At, Settled
<1> QED
  BY <1>1, <1>2, <1>4, <1>5, <1>6, HoldingStep DEF storeVars, Holding

(* record_stage reads the passed stages before it records: the order it saw is kept. *)
LEMMA AuthorizeRecordStep ==
  ASSUME IInv, NEW x \in Executors, AuthorizeRecord(x)
  PROVE  IInv'
<1> DEFINE kept == local[x]
           metrics == IF kept.code = 0 /\ kept.stage = FullExperiment
                      THEN output ELSE Missing
           call == [kept EXCEPT !.pc = "recording", !.code = kept.code,
                                !.cost = kept.cost, !.verified = kept.verified,
                                !.metrics = metrics]
<1>1. kept \in [pc : Holding, stage : Stages, bound : BOOLEAN, before : Files,
                event : Events, code : {0, 1}, cost : Nat,
                verified : BOOLEAN, metrics : Files]
  BY CallTypes DEF IInv, AuthorizeRecord, At, Holding, Unsettled, Settled
<1>2. output \in Files /\ metrics \in Files
  BY DEF IInv, TypeOK, StoreTypeOK, Files
<1>3. local' = [local EXCEPT ![x].pc = "recording", ![x].metrics = metrics]
  BY DEF AuthorizeRecord
<1> HIDE DEF metrics
<1>4. local' = [local EXCEPT ![x] = call]
  BY <1>1, <1>3 DEF IInv, TypeOK
<1>5. "recording" \in Settled /\ "recording" \notin Unsettled
  BY DEF Settled, Unsettled
<1>6. /\ kept.pc \in Settled /\ UNCHANGED storeVars
      /\ StaticCheck..(kept.stage - 1) \subseteq Passed
  BY DEF AuthorizeRecord, At, Settled, Authorized, IsNextStage
<1> QED
  BY <1>1, <1>2, <1>4, <1>5, <1>6, HoldingStep DEF storeVars, Holding

----------------------------------------------------------------------------
(* _reserve_budget takes an absent row inside the limit.                    *)
LEMMA ReserveStep ==
  ASSUME IInv, NEW x \in Executors, NEW e \in Events, Reserve(x, e)
  PROVE  IInv'
<1> DEFINE stage == local[x].stage
<1>1. local[x] \in [pc : {"authorized", "hashed"}, stage : Stages, bound : BOOLEAN,
                    before : Files]
  BY CallTypes DEF IInv, Reserve, At
<1>2. Estimate[stage] \in Nat
  BY <1>1, CostAssumption
<1>3. /\ budget[e].status = "ABSENT"
      /\ budget' = [budget EXCEPT ![e] = [status |-> "RESERVED", stage |-> stage,
                      amount |-> Estimate[stage], lifecycle |-> FALSE, before |-> Missing]]
      /\ UNCHANGED <<approvals, runs, status, output>>
  BY DEF Reserve, ReserveRow
<1>4. runs[e].status = "ABSENT"
  BY <1>3 DEF IInv, RunsAreCharged
<1>5. /\ local'[x].pc = "reserved" /\ local'[x].event = e /\ local'[x].stage = stage
      /\ local'[x] \in Calls
      /\ \A y \in Executors \ {x} : local'[y] = local[y]
      /\ local' \in [Executors -> Resting \cup Calls]
  BY <1>1, <1>2, ContentsAssumption DEF Reserve, IInv, TypeOK, Calls, Files
<1>6. TypeOK'
  BY <1>1, <1>2, <1>3, <1>5 DEF IInv, TypeOK, StoreTypeOK, BudgetRows, Files
<1>7. /\ budget'[e].status = "RESERVED" /\ budget'[e].stage = stage
      /\ budget'[e].amount = Estimate[stage]
      /\ \A d \in Events \ {e} : budget'[d] = budget[d]
  BY <1>3 DEF IInv, TypeOK, StoreTypeOK
<1>8. \A y \in Executors \ {x} : local[y].pc \in Holding =>
         local[y].event \in Events /\ local[y].event # e
  <2> SUFFICES ASSUME NEW y \in Executors \ {x}, local[y].pc \in Holding
               PROVE  local[y].event \in Events /\ local[y].event # e
    OBVIOUS
  <2>1. local[y].event \in Events
    BY CallTypes DEF IInv
  <2>2. budget[local[y].event].status \in {"RESERVED", "CHARGED"}
    BY DEF IInv, RowsOwned, CallOwnsRow, Holding
  <2> QED  BY <2>1, <2>2, <1>3
<1>9. RowsOwned'
  BY <1>3, <1>4, <1>5, <1>7, <1>8
  DEF IInv, RowsOwned, CallOwnsRow, Holding, Unsettled, Settled
<1>10. RowsDistinct'
  BY <1>5, <1>8 DEF IInv, RowsDistinct
<1>11. RecordingInOrder'
  BY <1>3, <1>5 DEF IInv, RecordingInOrder, Passed
<1>12. ReservedAtEstimate'
  BY <1>7 DEF IInv, ReservedAtEstimate
<1>13. RunsAreCharged' /\ StagesInOrder'
  BY <1>3, <1>4, <1>7 DEF IInv, RunsAreCharged, StagesInOrder, Passed
<1>14. BudgetOK'
  BY <1>1, ReserveKeepsBudget DEF IInv, TypeOK, StoreTypeOK, BudgetTypeOK, Reserve
<1> QED  BY <1>6, <1>9, <1>10, <1>11, <1>12, <1>13, <1>14 DEF IInv

(* Settling: the row of a call that has not settled it changes, and only    *)
(* that row; the call keeps it as charged or has returned.                  *)
LEMMA SettleStep ==
  ASSUME IInv, NEW x \in Executors, local[x].pc \in Unsettled,
         NEW newStatus \in {"CHARGED", "RELEASED", "VIOLATION"},
         NEW amount \in Nat, amount <= Estimate[local[x].stage],
         SettleRow(local[x].event, newStatus, amount),
         \/ newStatus = "CHARGED" /\ Goto(x, "charged")
         \/ Return(x)
  PROVE  IInv'
<1> DEFINE e == local[x].event
<1>1. local[x] \in [pc : Holding, stage : Stages, bound : BOOLEAN, before : Files,
                    event : Events, code : {0, 1}, cost : Nat,
                    verified : BOOLEAN, metrics : Files]
  BY CallTypes DEF IInv, Holding
<1>2. /\ budget[e].status = "RESERVED" /\ budget[e].stage = local[x].stage
      /\ budget[e].amount = Estimate[local[x].stage]
      /\ runs[e].status = "ABSENT"
  BY <1>1 DEF IInv, RowsOwned, CallOwnsRow, ReservedAtEstimate, Holding
<1>3. /\ UNCHANGED <<approvals, runs, status, output>>
      /\ budget'[e].status = newStatus /\ budget'[e].stage = budget[e].stage
      /\ \A d \in Events \ {e} : budget'[d] = budget[d]
      /\ budget' \in [Events -> BudgetRows]
  BY <1>1 DEF SettleRow, IInv, TypeOK, StoreTypeOK, BudgetRows
<1>4. /\ local' \in [Executors -> Resting \cup Calls]
      /\ \A y \in Executors \ {x} : local'[y] = local[y]
      /\ \/ /\ local'[x].pc = "charged" /\ newStatus = "CHARGED"
            /\ local'[x].event = e /\ local'[x].stage = local[x].stage
         \/ local'[x].pc = "idle"
  BY <1>1 DEF Goto, Return, IInv, TypeOK, Calls, Resting, Idle
<1>5. TypeOK'
  BY <1>3, <1>4 DEF IInv, TypeOK, StoreTypeOK
<1>6. \A y \in Executors \ {x} : local[y].pc \in Holding =>
         local[y].event \in Events /\ local[y].event # e
  BY <1>1, CallTypes DEF IInv, RowsDistinct, Holding
<1>7. RowsOwned'
  <2> SUFFICES ASSUME NEW y \in Executors PROVE CallOwnsRow(y)'
    BY DEF RowsOwned
  <2>1. CASE y = x
    BY <2>1, <1>2, <1>3, <1>4 DEF CallOwnsRow, Holding, Unsettled, Settled
  <2>2. CASE y # x
    BY <2>2, <1>3, <1>4, <1>6 DEF IInv, RowsOwned, CallOwnsRow, Holding
  <2> QED  BY <2>1, <2>2
<1>8. RowsDistinct'
  BY <1>4, <1>6 DEF IInv, RowsDistinct, Holding, Unsettled, Settled
<1>9. RecordingInOrder'
  BY <1>3, <1>4 DEF IInv, RecordingInOrder, Passed
<1>10. ReservedAtEstimate'
  BY <1>3 DEF IInv, ReservedAtEstimate
<1>11. RunsAreCharged' /\ StagesInOrder'
  BY <1>2, <1>3 DEF IInv, RunsAreCharged, StagesInOrder, Passed
<1>12. BudgetOK'
  BY <1>1, <1>2, SettleKeepsBudget DEF IInv, TypeOK, StoreTypeOK, BudgetTypeOK, Live
<1> QED  BY <1>5, <1>7, <1>8, <1>9, <1>10, <1>11, <1>12 DEF IInv

(* The three ways a call settles its row, all through _settle_budget.       *)
LEMMA SettlingSteps ==
  ASSUME IInv, NEW x \in Executors, Release(x) \/ Charge(x) \/ ChargeViolation(x)
  PROVE  IInv'
<1>1. /\ local[x].pc \in Unsettled
      /\ local[x].stage \in Stages /\ local[x].cost \in Nat
  BY CallTypes DEF IInv, Release, Charge, ChargeViolation, At, Holding, Unsettled
<1>2. Estimate[local[x].stage] \in Nat
  BY <1>1, CostAssumption
<1>3. CASE Release(x)
  BY <1>1, <1>2, <1>3, SettleStep DEF Release
<1>4. CASE Charge(x)
  BY <1>1, <1>2, <1>4, SettleStep DEF Charge
<1>5. CASE ChargeViolation(x)
  BY <1>1, <1>2, <1>5, SettleStep DEF ChargeViolation
<1> QED  BY <1>3, <1>4, <1>5

(* The transaction of record_stage: the run row of a charged budget row.    *)
LEMMA RecordStep ==
  ASSUME IInv, NEW x \in Executors, Record(x)
  PROVE  IInv'
<1> DEFINE e == local[x].event
           run == RunOf(local[x])
<1>1. local[x] \in [pc : Holding, stage : Stages, bound : BOOLEAN, before : Files,
                    event : Events, code : {0, 1}, cost : Nat,
                    verified : BOOLEAN, metrics : Files]
  BY CallTypes DEF IInv, Record, At, Holding, Settled
<1>2. /\ run \in RunRows /\ run.stage = local[x].stage
      /\ run.status \in {"PASSED", "FAILED"}
  BY <1>1 DEF RunOf, RunRows
<1> HIDE DEF run
<1>3. /\ budget[e].status = "CHARGED" /\ budget[e].stage = local[x].stage
      /\ runs[e].status = "ABSENT"
      /\ StaticCheck..(local[x].stage - 1) \subseteq Passed
  BY DEF IInv, RowsOwned, CallOwnsRow, RecordingInOrder, Record, At, Holding, Settled
<1>4. /\ runs' = [runs EXCEPT ![e] = run]
      /\ status' \in {"FAILED", "PASSED", "RUNNING"}
      /\ UNCHANGED <<approvals, budget, output>>
  BY DEF Record, InsertRun, run
<1>5. runs'[e] = run /\ \A d \in Events \ {e} : runs'[d] = runs[d]
  BY <1>1, <1>4 DEF IInv, TypeOK, StoreTypeOK
<1>6. /\ local' \in [Executors -> Resting \cup Calls]
      /\ local'[x].pc = "idle"
      /\ \A y \in Executors \ {x} : local'[y] = local[y]
  BY DEF Record, Return, Resting, Idle, IInv, TypeOK
<1>7. TypeOK'
  BY <1>1, <1>2, <1>4, <1>6 DEF IInv, TypeOK, StoreTypeOK
<1>8. /\ Passed \subseteq Passed'
      /\ Passed' \subseteq Passed \cup {local[x].stage}
  BY <1>1, <1>2, <1>3, <1>5 DEF Passed
<1>9. StagesInOrder'
  <2> SUFFICES ASSUME NEW t \in Passed' PROVE StaticCheck..t \subseteq Passed'
    BY DEF StagesInOrder
  <2>1. CASE t \in Passed
    BY <2>1, <1>8 DEF IInv, StagesInOrder
  <2>2. CASE t \notin Passed
    <3>1. t = local[x].stage
      BY <2>2, <1>8
    <3>2. StaticCheck..t \subseteq (StaticCheck..(t - 1)) \cup {t}
      BY <1>1, <3>1 DEF Stages, StaticCheck, FullExperiment
    <3> QED  BY <3>1, <3>2, <1>3, <1>8
  <2> QED  BY <2>1, <2>2
<1>10. \A y \in Executors \ {x} : local[y].pc \in Holding =>
         local[y].event \in Events /\ local[y].event # e
  BY <1>1, CallTypes DEF IInv, RowsDistinct, Holding
<1>11. RowsOwned'
  BY <1>4, <1>5, <1>6, <1>10
  DEF IInv, RowsOwned, CallOwnsRow, Holding, Unsettled, Settled
<1>12. RowsDistinct'
  BY <1>6 DEF IInv, RowsDistinct, Holding, Unsettled, Settled
<1>13. RecordingInOrder'
  BY <1>6, <1>8 DEF IInv, RecordingInOrder
<1>14. ReservedAtEstimate' /\ RunsAreCharged' /\ BudgetOK'
  BY <1>2, <1>3, <1>4, <1>5
  DEF IInv, ReservedAtEstimate, RunsAreCharged, BudgetOK, WithinCostLimit, Spent
<1> QED  BY <1>7, <1>9, <1>11, <1>12, <1>13, <1>14 DEF IInv

(* A new approval sets the old one aside and touches no row.                *)
LEMMA ApproveStep ==
  ASSUME IInv, NEW scope \in Scopes, Approve(scope)
  PROVE  IInv'
<1>1. /\ UNCHANGED <<budget, runs, output, local>>
      /\ status' = "APPROVED"
      /\ approvals' \in [Scopes -> {"ABSENT", "APPROVED", "SUPERSEDED"}]
  BY DEF Approve, ApproveRow, IInv, TypeOK, StoreTypeOK
<1>2. TypeOK'
  BY <1>1 DEF IInv, TypeOK, StoreTypeOK
<1> QED
  BY <1>1, <1>2
  DEF IInv, RowsOwned, CallOwnsRow, RowsDistinct, ReservedAtEstimate, RecordingInOrder,
      RunsAreCharged, StagesInOrder, Passed, BudgetOK, WithinCostLimit, Spent

(* A step outside the component.                                            *)
LEMMA StutterStep ==
  ASSUME IInv, UNCHANGED vars
  PROVE  IInv'
BY DEF vars, storeVars, IInv, TypeOK, StoreTypeOK, RowsOwned, CallOwnsRow, RowsDistinct,
   ReservedAtEstimate, RecordingInOrder, RunsAreCharged, StagesInOrder, Passed,
   BudgetOK, WithinCostLimit, Spent

(* Every step of the specification keeps the invariant.                     *)
LEMMA NextKeepsIInv == IInv /\ [Next]_vars => IInv'
<1> SUFFICES ASSUME IInv, [Next]_vars PROVE IInv'
  OBVIOUS
<1>1. CASE \E x \in Executors, stage \in Stages, bound \in Bindings :
              Authorize(x, stage, bound)
  BY <1>1, AuthorizeStep
<1>2. ASSUME NEW x \in Executors, Step(x) PROVE IInv'
  <2>1. CASE HashBefore(x)
    BY <2>1, HashBeforeStep
  <2>2. CASE \E e \in Events : Reserve(x, e)
    BY <2>2, ReserveStep
  <2>3. CASE ReserveRefused(x) \/ RecordRefused(x)
    BY <2>3, ReturnStep DEF ReserveRefused, RecordRefused, Return, Resting
  <2>4. CASE \E code \in {0, 1}, cost \in Costs, file \in Files :
                Execute(x, code, cost, file)
    BY <2>4, ExecuteStep
  <2>5. CASE ExecuteRaises(x)
    BY <2>5, ExecuteRaisesStep
  <2>6. CASE Release(x) \/ Charge(x) \/ ChargeViolation(x)
    BY <2>6, SettlingSteps
  <2>7. CASE HashAfter(x)
    BY <2>7, HashAfterStep
  <2>8. CASE AuthorizeRecord(x)
    BY <2>8, AuthorizeRecordStep
  <2>9. CASE Record(x)
    BY <2>9, RecordStep
  <2> QED
    BY <1>2, <2>1, <2>2, <2>3, <2>4, <2>5, <2>6, <2>7, <2>8, <2>9 DEF Step
<1>3. CASE \E x \in Executors : Crash(x)
  BY <1>3, ReturnStep DEF Crash, Resting
<1>4. CASE \E scope \in Scopes : Approve(scope)
  BY <1>4, ApproveStep
<1>5. CASE UNCHANGED vars
  BY <1>5, StutterStep
<1> QED  BY <1>1, <1>2, <1>3, <1>4, <1>5 DEF Next

----------------------------------------------------------------------------
(* The inductive invariant holds in every reachable state.                  *)
THEOREM Invariant == Spec => []IInv
<1> QED  BY InitIInv, NextKeepsIInv, PTL DEF Spec

(* Every row and every call of execute_stage has its type.                  *)
THEOREM TypeCorrect == Spec => []TypeOK
<1>1. IInv => TypeOK
  BY DEF IInv
<1> QED  BY <1>1, Invariant, PTL

(* However many processes execute stages at once, and wherever they are     *)
(* killed, the live amounts never exceed the approved cost_limit.            *)
THEOREM LocalBudgetSafe == Spec => []WithinCostLimit
<1>1. IInv => WithinCostLimit
  BY DEF IInv, BudgetOK
<1> QED  BY <1>1, Invariant, PTL

(* No stage is ever recorded as passed ahead of the ones it follows.        *)
THEOREM LocalStagesInOrder == Spec => []StagesInOrder
<1>1. IInv => StagesInOrder
  BY DEF IInv
<1> QED  BY <1>1, Invariant, PTL

(* Every run that execute_stage records names a charged row of its stage.    *)
THEOREM LocalRunsAreCharged == Spec => []RunsAreCharged
<1>1. IInv => RunsAreCharged
  BY DEF IInv
<1> QED  BY <1>1, Invariant, PTL

----------------------------------------------------------------------------
(* Every step of execute_stage is a step of the budget ledger or leaves it. *)
LEMMA StepKeepsLedger ==
  ASSUME IInv, [Next]_vars
  PROVE  Ledger!Next \/ budget' = budget
<1>1. BudgetTypeOK /\ BudgetOK
  BY DEF IInv, TypeOK, StoreTypeOK, BudgetTypeOK
<1>2. ASSUME NEW x \in Executors, NEW e \in Events, Reserve(x, e)
      PROVE  Ledger!Next
  <2>1. local[x].stage \in Stages
    BY <1>2, CallTypes DEF IInv, Reserve, At
  <2> QED  BY <1>1, <1>2, <2>1, ReserveIsLedgerStep DEF Reserve
<1>3. ASSUME NEW x \in Executors, Release(x) \/ Charge(x) \/ ChargeViolation(x)
      PROVE  Ledger!Next
  <2>1. /\ local[x].pc \in Unsettled /\ local[x].event \in Events
        /\ local[x].stage \in Stages /\ local[x].cost \in Nat
    BY <1>3, CallTypes
    DEF IInv, Release, Charge, ChargeViolation, At, Holding, Unsettled
  <2>2. /\ budget[local[x].event].status = "RESERVED"
        /\ budget[local[x].event].amount = Estimate[local[x].stage]
    BY <2>1 DEF IInv, RowsOwned, CallOwnsRow, ReservedAtEstimate, Holding
  <2>3. Estimate[local[x].stage] \in Nat
    BY <2>1, CostAssumption
  <2>4. CASE Release(x)
    BY <1>1, <2>1, <2>2, <2>3, <2>4, SettleIsLedgerStep DEF Release
  <2>5. CASE Charge(x)
    BY <1>1, <2>1, <2>2, <2>3, <2>5, SettleIsLedgerStep DEF Charge
  <2>6. CASE ChargeViolation(x)
    BY <1>1, <2>1, <2>2, <2>3, <2>6, SettleIsLedgerStep DEF ChargeViolation
  <2> QED  BY <1>3, <2>4, <2>5, <2>6
<1>4. ASSUME NEW x \in Executors, Step(x) PROVE Ledger!Next \/ budget' = budget
  BY <1>2, <1>3, <1>4
  DEF Step, HashBefore, ReserveRefused, Execute, ExecuteRaises, HashAfter,
      AuthorizeRecord, RecordRefused, Record, InsertRun, storeVars
<1> QED
  BY <1>4
  DEF Next, Authorize, Crash, Approve, ApproveRow, vars, storeVars

(* A call that is not killed has settled its reservation when it ends, for   *)
(* whatever reason it ends.                                                  *)
THEOREM LocalSettledBeforeReturn == Spec => SettledBeforeReturn
<1>1. ASSUME IInv, [Next]_vars, NEW x \in Executors, local[x].pc \in Unsettled,
             local'[x].pc \notin Unsettled \cup {"killed"}
      PROVE  budget'[local[x].event].status # "RESERVED"
  <2>1. local[x].event \in Events
    BY <1>1, CallTypes DEF IInv, Holding
  <2>2. CASE Release(x) \/ Charge(x) \/ ChargeViolation(x)
    <3>1. \E newStatus \in {"CHARGED", "RELEASED", "VIOLATION"},
             amount \in {local[x].cost, Estimate[local[x].stage]} :
            SettleRow(local[x].event, newStatus, amount)
      BY <2>2 DEF Release, Charge, ChargeViolation
    <3>2. PICK newStatus \in {"CHARGED", "RELEASED", "VIOLATION"},
               amount \in {local[x].cost, Estimate[local[x].stage]} :
            budget' = [budget EXCEPT ![local[x].event].status = newStatus,
                                     ![local[x].event].amount = amount]
      BY <3>1 DEF SettleRow
    <3>3. budget'[local[x].event].status = newStatus
      BY <1>1, <2>1, <3>2 DEF IInv, TypeOK, StoreTypeOK, BudgetRows
    <3> QED  BY <3>3
  <2>3. ASSUME NEW y \in Executors,
               \/ Release(y) \/ Charge(y) \/ ChargeViolation(y)
               \/ Step(y) \/ Crash(y)
               \/ \E stage \in Stages, bound \in Bindings : Authorize(y, stage, bound)
        PROVE  y = x
    BY <1>1, <2>3
    DEF IInv, TypeOK, Step, HashBefore, Reserve, ReserveRefused, Execute, ExecuteRaises,
        Release, Charge, ChargeViolation, HashAfter, AuthorizeRecord, RecordRefused,
        Record, Crash, Authorize, Goto, Return
  <2>4. ~ Crash(x)
    BY <1>1 DEF Crash, Killed, IInv, TypeOK
  <2>5. CASE Step(x)
    <3>1. local \in [Executors -> Resting \cup Calls]
      BY <1>1 DEF IInv, TypeOK
    <3>2. ~ \E code \in {0, 1}, cost \in Costs, file \in Files : Execute(x, code, cost, file)
      <4> SUFFICES ASSUME NEW code \in {0, 1}, NEW cost \in Costs, NEW file \in Files,
                          Execute(x, code, cost, file)
                   PROVE  FALSE
        OBVIOUS
      <4>1. local'[x] = [local[x] EXCEPT !.pc = "ran", !.code = code, !.cost = cost]
        BY <3>1 DEF Execute
      <4>2. local'[x].pc = "ran"
        BY <1>1, <4>1, CallTypes DEF Holding
      <4> QED  BY <1>1, <4>2 DEF Unsettled
    <3>3. ~ ExecuteRaises(x)
      <4> SUFFICES ASSUME ExecuteRaises(x) PROVE FALSE
        OBVIOUS
      <4>1. local'[x] = [local[x] EXCEPT !.pc = "raised"]
        BY <3>1 DEF ExecuteRaises, Goto
      <4>2. local'[x].pc = "raised"
        BY <1>1, <4>1, CallTypes DEF Holding
      <4> QED  BY <1>1, <4>2 DEF Unsettled
    <3>4. ~ \/ HashBefore(x) \/ ReserveRefused(x) \/ HashAfter(x)
            \/ AuthorizeRecord(x) \/ RecordRefused(x) \/ Record(x)
            \/ \E e \in Events : Reserve(x, e)
      BY <1>1 DEF HashBefore, ReserveRefused, HashAfter, AuthorizeRecord, RecordRefused,
                  Record, Reserve, At, Unsettled
    <3> QED  BY <2>2, <2>5, <3>2, <3>3, <3>4 DEF Step
  <2>6. CASE \E stage \in Stages, bound \in Bindings : Authorize(x, stage, bound)
    BY <1>1, <2>6 DEF Authorize, Resting, Idle, Killed, Unsettled
  <2> QED
    BY <1>1, <2>3, <2>4, <2>5, <2>6 DEF Next, Approve, vars
<1>2. IInv /\ [Next]_vars =>
        [\A x \in Executors :
           local[x].pc \in Unsettled /\ local'[x].pc \notin Unsettled \cup {"killed"}
             => budget'[local[x].event].status # "RESERVED"]_vars
  BY <1>1
<1> QED  BY <1>2, Invariant, PTL DEF Spec, SettledBeforeReturn

(* execute_stage keeps the promise of BudgetLedger whatever is interleaved   *)
(* or killed: no row is settled twice and nothing settled is ever changed.   *)
THEOREM LocalKeepsLedger == Spec => KeepsLedger
<1> DEFINE rows == [e \in Events |-> [status |-> budget[e].status,
                                     amount |-> budget[e].amount]]
<1>1. Init => Ledger!Init
  BY StoreInitLedger DEF Init
<1>2. budget' = budget => rows' = rows
  OBVIOUS
<1>3. IInv /\ [Next]_vars => [Ledger!Next]_rows
  BY <1>2, StepKeepsLedger
<1> QED  BY <1>1, <1>3, Invariant, PTL DEF Spec, KeepsLedger, Ledger!Spec

----------------------------------------------------------------------------
(* One process at a time: what it read before it records is still true when  *)
(* it records, although the owner may approve again in between.              *)
Alone == \A x, y \in Executors : x = y

(* The file a verified full run goes on to offer is not the one it found.    *)
CallIsFresh(x) ==
  local[x].pc \in {"verified", "recording"} =>
    (local[x].verified /\ local[x].stage = FullExperiment /\ local[x].code = 0 =>
       (IF local[x].pc = "verified" THEN output ELSE local[x].metrics) # local[x].before)

RecordsNewStage(x) == local[x].pc = "recording" => local[x].stage \notin Passed

AloneInv == /\ NoStageRepeats
            /\ \A x \in Executors : CallIsFresh(x) /\ RecordsNewStage(x)

LEMMA InitAlone == Init => AloneInv
BY SMT DEF Init, StoreInit, Idle, NoRun, AloneInv, NoStageRepeats, CallIsFresh, RecordsNewStage

(* A step that records nothing and after which the call has nothing checked.  *)
LEMMA UncheckedStep ==
  ASSUME Alone, AloneInv, NEW x \in Executors, runs' = runs,
         local'[x].pc \notin {"verified", "recording"}
  PROVE  AloneInv'
BY DEF Alone, AloneInv, NoStageRepeats, CallIsFresh, RecordsNewStage

(* The hash after the run is compared with the hash before it.              *)
LEMMA HashAfterAlone ==
  ASSUME Alone, IInv, AloneInv, NEW x \in Executors, HashAfter(x)
  PROVE  AloneInv'
<1>1. local[x] \in [pc : Holding, stage : Stages, bound : BOOLEAN, before : Files,
                    event : Events, code : {0, 1}, cost : Nat,
                    verified : BOOLEAN, metrics : Files]
  BY CallTypes DEF IInv, HashAfter, At, Holding, Settled
<1>2. /\ local'[x].pc = "verified" /\ local'[x].stage = local[x].stage
      /\ local'[x].code = local[x].code /\ local'[x].before = local[x].before
      /\ local'[x].verified =>
           ~ (/\ local[x].stage = FullExperiment /\ local[x].code = 0
              /\ output = local[x].before)
  BY <1>1 DEF HashAfter, IInv, TypeOK
<1>3. runs' = runs /\ output' = output
  BY DEF HashAfter, storeVars
<1> QED
  BY <1>2, <1>3 DEF Alone, AloneInv, NoStageRepeats, CallIsFresh, RecordsNewStage

(* record_stage hashes the file the call has just compared, and the stage it  *)
(* checks has not passed.                                                    *)
LEMMA AuthorizeRecordAlone ==
  ASSUME Alone, IInv, AloneInv, NEW x \in Executors, AuthorizeRecord(x)
  PROVE  AloneInv'
<1>1. local[x] \in [pc : Holding, stage : Stages, bound : BOOLEAN, before : Files,
                    event : Events, code : {0, 1}, cost : Nat,
                    verified : BOOLEAN, metrics : Files]
  BY CallTypes DEF IInv, AuthorizeRecord, At, Holding, Settled
<1>2. /\ local'[x].pc = "recording" /\ local'[x].stage = local[x].stage
      /\ local'[x].code = local[x].code /\ local'[x].before = local[x].before
      /\ local'[x].verified = local[x].verified
      /\ local'[x].metrics = IF local[x].code = 0 /\ local[x].stage = FullExperiment
                             THEN output ELSE Missing
  BY <1>1 DEF AuthorizeRecord, IInv, TypeOK
<1>3. /\ runs' = runs /\ local[x].pc = "verified" /\ local[x].stage \notin Passed
  BY DEF AuthorizeRecord, storeVars, At, Authorized, IsNextStage
<1> QED
  BY <1>2, <1>3
  DEF Alone, AloneInv, NoStageRepeats, CallIsFresh, RecordsNewStage, Passed

(* The run that is recorded is the first that passes its stage.             *)
LEMMA RecordAlone ==
  ASSUME Alone, IInv, AloneInv, NEW x \in Executors, Record(x)
  PROVE  AloneInv'
<1> DEFINE e == local[x].event
<1>1. local[x] \in [pc : Holding, stage : Stages, bound : BOOLEAN, before : Files,
                    event : Events, code : {0, 1}, cost : Nat,
                    verified : BOOLEAN, metrics : Files]
  BY CallTypes DEF IInv, Record, At, Holding, Settled
<1>2. /\ runs'[e].stage = local[x].stage
      /\ \A d \in Events \ {e} : runs'[d] = runs[d]
  BY <1>1 DEF Record, InsertRun, RunOf, IInv, TypeOK, StoreTypeOK
<1>3. \A d \in Events : runs[d].status = "PASSED" => runs[d].stage # local[x].stage
  BY DEF AloneInv, RecordsNewStage, Record, At, Passed
<1>4. local'[x].pc = "idle"
  BY DEF Record, Return, Idle, IInv, TypeOK
<1>5. NoStageRepeats'
  BY <1>2, <1>3 DEF AloneInv, NoStageRepeats
<1> QED  BY <1>4, <1>5 DEF Alone, AloneInv, CallIsFresh, RecordsNewStage

LEMMA NextKeepsAlone ==
  ASSUME Alone, IInv, AloneInv, [Next]_vars
  PROVE  AloneInv'
<1> USE DEF IInv, TypeOK
<1>1. ASSUME NEW x \in Executors, Step(x) PROVE AloneInv'
  <2>1. CASE HashAfter(x)
    BY <2>1, HashAfterAlone
  <2>2. CASE AuthorizeRecord(x)
    BY <2>2, AuthorizeRecordAlone
  <2>3. CASE Record(x)
    BY <2>3, RecordAlone
  <2>4. CASE HashBefore(x)
    <3>1. local'[x].pc = "hashed"
      BY <2>4, CallTypes DEF HashBefore, At
    <3> QED  BY <2>4, <3>1, UncheckedStep DEF HashBefore, storeVars
  <2>5. CASE \E e \in Events : Reserve(x, e)
    <3>1. local'[x].pc = "reserved"
      BY <2>5 DEF Reserve
    <3> QED  BY <2>5, <3>1, UncheckedStep DEF Reserve, ReserveRow
  <2>6. CASE ReserveRefused(x) \/ RecordRefused(x) \/ Release(x) \/ ChargeViolation(x)
    <3>1. local'[x].pc = "idle" /\ runs' = runs
      BY <2>6
      DEF ReserveRefused, RecordRefused, Release, ChargeViolation, Return, Idle,
          SettleRow, storeVars
    <3> QED  BY <3>1, UncheckedStep
  <2>7. ASSUME NEW code \in {0, 1}, NEW cost \in Costs, NEW file \in Files,
               Execute(x, code, cost, file)
        PROVE  AloneInv'
    <3>1. local'[x].pc = "ran"
      BY <2>7, CallTypes DEF Execute, At, Holding, Unsettled
    <3> QED  BY <2>7, <3>1, UncheckedStep DEF Execute
  <2>8. CASE ExecuteRaises(x)
    <3>1. local'[x].pc = "raised"
      BY <2>8, CallTypes DEF ExecuteRaises, Goto, At, Holding, Unsettled
    <3> QED  BY <2>8, <3>1, UncheckedStep DEF ExecuteRaises, storeVars
  <2>9. CASE Charge(x)
    <3>1. local'[x].pc = "charged"
      BY <2>9, CallTypes DEF Charge, Goto, At, Holding, Unsettled
    <3> QED  BY <2>9, <3>1, UncheckedStep DEF Charge, SettleRow
  <2> QED
    BY <1>1, <2>1, <2>2, <2>3, <2>4, <2>5, <2>6, <2>7, <2>8, <2>9 DEF Step
<1>2. ASSUME NEW x \in Executors, NEW stage \in Stages, NEW bound \in Bindings,
             Authorize(x, stage, bound)
      PROVE  AloneInv'
  <2>1. local'[x].pc = "authorized"
    BY <1>2 DEF Authorize
  <2> QED  BY <1>2, <2>1, UncheckedStep DEF Authorize, storeVars
<1>3. ASSUME NEW x \in Executors, Crash(x) PROVE AloneInv'
  <2>1. local'[x].pc = "killed"
    BY <1>3 DEF Crash, Killed
  <2> QED  BY <1>3, <2>1, UncheckedStep DEF Crash, storeVars
<1>4. CASE (\E scope \in Scopes : Approve(scope)) \/ UNCHANGED vars
  <2>1. UNCHANGED <<runs, output, local>>
    BY <1>4 DEF Approve, ApproveRow, vars, storeVars
  <2> QED
    BY <2>1 DEF AloneInv, NoStageRepeats, CallIsFresh, RecordsNewStage, Passed
<1> QED  BY <1>1, <1>2, <1>3, <1>4 DEF Next

(* With one process executing, kills and new approvals included, no stage of  *)
(* a proposal passes twice.                                                  *)
THEOREM LocalNoStageRepeats ==
  ASSUME Alone
  PROVE  Spec => []NoStageRepeats
<1>1. IInv /\ AloneInv /\ [Next]_vars => AloneInv'
  BY NextKeepsAlone
<1>2. AloneInv => NoStageRepeats
  BY DEF AloneInv
<1> QED  BY <1>1, <1>2, InitAlone, Invariant, PTL DEF Spec

(* With one process executing, the metrics of a run that becomes eligible as  *)
(* claim evidence are not the file its call found.                           *)
THEOREM LocalEligibleIsFresh ==
  ASSUME Alone
  PROVE  Spec => EligibleIsFresh
<1>1. ASSUME IInv, AloneInv, [Next]_vars, NEW x \in Executors, NEW e \in Events,
             Eligible(runs'[e]), ~ Eligible(runs[e])
      PROVE  runs'[e].metrics # local[x].before
  <2>1. runs' # runs
    BY <1>1
  <2>2. PICK y \in Executors : Record(y)
    <3>1. ASSUME NEW y \in Executors, Step(y), ~ Record(y) PROVE FALSE
      BY <2>1, <3>1
      DEF Step, HashBefore, Reserve, ReserveRow, ReserveRefused, Execute, ExecuteRaises,
          Release, Charge, ChargeViolation, SettleRow, HashAfter, AuthorizeRecord,
          RecordRefused, storeVars
    <3> QED
      BY <1>1, <2>1, <3>1 DEF Next, Authorize, Crash, Approve, ApproveRow, vars, storeVars
  <2>3. y = x
    BY DEF Alone
  <2>4. local[x] \in [pc : Holding, stage : Stages, bound : BOOLEAN, before : Files,
                      event : Events, code : {0, 1}, cost : Nat,
                      verified : BOOLEAN, metrics : Files]
    BY <1>1, <2>2, <2>3, CallTypes DEF IInv, Record, At, Holding, Settled
  <2>5. runs'[e] = RunOf(local[x])
    BY <1>1, <2>2, <2>3, <2>4 DEF Record, InsertRun, IInv, TypeOK, StoreTypeOK
  <2>6. /\ local[x].pc = "recording" /\ local[x].verified
        /\ local[x].stage = FullExperiment /\ local[x].code = 0
        /\ runs'[e].metrics = local[x].metrics
    BY <1>1, <2>2, <2>3, <2>4, <2>5 DEF Record, At, RunOf, Eligible
  <2> QED  BY <1>1, <2>6 DEF AloneInv, CallIsFresh
<1>2. IInv /\ AloneInv /\ [Next]_vars =>
        [\A x \in Executors, e \in Events :
           Eligible(runs'[e]) /\ ~ Eligible(runs[e]) /\ local[x] # Idle /\ local'[x] = Idle
             => runs'[e].metrics # local[x].before]_vars
  BY <1>1
<1>3. IInv /\ AloneInv /\ [Next]_vars => AloneInv'
  BY NextKeepsAlone
<1> QED  BY <1>2, <1>3, InitAlone, Invariant, PTL DEF Spec, EligibleIsFresh
=============================================================================
