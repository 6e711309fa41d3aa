------------------------------ MODULE LocalStage ------------------------------
(***************************************************************************)
(* ExperimentManager.execute_stage (paperforge/experiments.py) run by       *)
(* several processes on one proposal: two `paperforge experiment` commands, *)
(* or one of them and the workflow runtime.  The processes share only the   *)
(* tables of ExperimentStore and the workspace; each database transaction,  *)
(* file hash and execution is a step of its own, a process can be killed    *)
(* between any two, and the owner can approve again at any time.            *)
(***************************************************************************)
EXTENDS ExperimentStore

CONSTANTS Executors,  \* processes that call execute_stage
          Bindings,   \* whether their calls run the bound job (see Calls)
          Crashes     \* TRUE when a process may be killed part-way

ASSUME BindingsAssumption == Bindings \subseteq BOOLEAN

VARIABLE local  \* executor -> what its call has read and done so far

vars == <<storeVars, local>>

(* Between two calls; "killed" tells how the last one ended.                *)
Idle == [pc |-> "idle"]
Killed == [pc |-> "killed"]
Resting == {Idle, Killed}

(* Locals of one call, named after the variables of execute_stage.  "bound" *)
(* is FALSE for a call with its own executor argument, whose outcome never   *)
(* counts as verified; the CLI and the runtime always run the bound job.     *)
Calls == [pc : {"authorized", "hashed"}, stage : Stages, bound : BOOLEAN,
          before : Files]
         \cup
         [pc : {"reserved", "raised", "ran", "charged", "verified", "recording"},
          stage : Stages, bound : BOOLEAN, before : Files, event : Events,
          code : {0, 1}, cost : Nat, verified : BOOLEAN, metrics : Files]

TypeOK == StoreTypeOK /\ local \in [Executors -> Resting \cup Calls]

Init == StoreInit /\ local = [x \in Executors |-> Idle]

Goto(x, pc) == local' = [local EXCEPT ![x].pc = pc]
Return(x) == local' = [local EXCEPT ![x] = Idle]
At(x, pc) == local[x].pc = pc

----------------------------------------------------------------------------
(* _authorized_stage_binding: the approval covers the stage and the stage   *)
(* is the next one.  A call that is refused changes nothing.                *)
Authorize(x, stage, bound) ==
  /\ local[x] \in Resting
  /\ Authorized(stage)
  /\ local' = [local EXCEPT ![x] = [pc |-> "authorized", stage |-> stage,
                                    bound |-> bound, before |-> Missing]]
  /\ UNCHANGED storeVars

(* output_hashes_before: only the full stage compares them later.           *)
HashBefore(x) ==
  /\ At(x, "authorized")
  /\ local' = [local EXCEPT ![x].pc = "hashed", ![x].before = output]
  /\ UNCHANGED storeVars

Reserve(x, e) ==
  /\ At(x, "hashed")
  /\ ReserveRow(e, local[x].stage, FALSE, Missing)
  /\ local' = [local EXCEPT ![x] =
                 [pc |-> "reserved", stage |-> local[x].stage,
                  bound |-> local[x].bound, before |-> local[x].before,
                  event |-> e, code |-> 1, cost |-> Estimate[local[x].stage],
                  verified |-> FALSE, metrics |-> Missing]]

(* The stage would exceed the limit: the call raises.                       *)
ReserveRefused(x) ==
  /\ At(x, "hashed")
  /\ ~ Affordable(local[x].stage)
  /\ Return(x)
  /\ UNCHANGED storeVars

(* The job ends.  The bound job of the local backend reports no cost of its *)
(* own and copies its outputs back only when it succeeded; the result of    *)
(* that copy is not looked at, so a success can leave the old file.  An     *)
(* executor argument reports any cost and leaves any file.                  *)
Execute(x, code, cost, file) ==
  /\ At(x, "reserved")
  /\ local[x].bound => /\ cost = Estimate[local[x].stage]
                       /\ code = 1 => file = output
  /\ file \in Contents \cup {output}
  /\ local[x].stage # FullExperiment => file = output
  /\ output' = file
  /\ local' = [local EXCEPT ![x].pc = "ran", ![x].code = code, ![x].cost = cost]
  /\ UNCHANGED <<approvals, budget, runs, status>>

(* Submission or execution raised, or the time limit passed.                *)
ExecuteRaises(x) ==
  /\ At(x, "reserved")
  /\ Goto(x, "raised")
  /\ UNCHANGED storeVars

Release(x) ==
  /\ At(x, "raised")
  /\ SettleRow(local[x].event, "RELEASED", Estimate[local[x].stage])
  /\ Return(x)

Charge(x) ==
  /\ At(x, "ran")
  /\ local[x].cost <= Estimate[local[x].stage]
  /\ SettleRow(local[x].event, "CHARGED", local[x].cost)
  /\ Goto(x, "charged")

ChargeViolation(x) ==
  /\ At(x, "ran")
  /\ local[x].cost > Estimate[local[x].stage]
  /\ SettleRow(local[x].event, "VIOLATION", Estimate[local[x].stage])
  /\ Return(x)

(* Mutation: any metrics file counts as fresh.                              *)
HashAfterAnyFile(x) ==
  /\ At(x, "charged")
  /\ local' = [local EXCEPT ![x].pc = "verified",
                 ![x].verified = local[x].bound /\ output # Missing]
  /\ UNCHANGED storeVars

(* output_hashes_after.  A failed run offers no evidence, so nothing is     *)
(* stale; a full run that succeeded must have written its metrics file.     *)
HashAfter(x) ==
  /\ At(x, "charged")
  /\ LET fresh == output # Missing /\ output # local[x].before
         stale == local[x].stage = FullExperiment /\ local[x].code = 0 /\ ~ fresh
     IN local' = [local EXCEPT ![x].pc = "verified",
                               ![x].verified = local[x].bound /\ ~ stale]
  /\ UNCHANGED storeVars

(* record_stage authorises the stage again and hashes the metrics file.     *)
AuthorizeRecord(x) ==
  /\ At(x, "verified")
  /\ Authorized(local[x].stage)
  /\ local' = [local EXCEPT ![x].pc = "recording",
                 ![x].metrics = IF /\ local[x].code = 0
                                   /\ local[x].stage = FullExperiment
                                THEN output ELSE Missing]
  /\ UNCHANGED storeVars

(* Mutation: a run that may not be recorded gives its charge back.          *)
RecordRefusedRefunding(x) ==
  /\ At(x, "verified")
  /\ ~ Authorized(local[x].stage)
  /\ SettleRow(local[x].event, "RELEASED", local[x].cost)
  /\ Return(x)

RecordRefused(x) ==
  /\ At(x, "verified")
  /\ ~ Authorized(local[x].stage)
  /\ Return(x)
  /\ UNCHANGED storeVars

RunOf(call) == [status |-> IF call.code = 0 THEN "PASSED" ELSE "FAILED",
                stage |-> call.stage, verified |-> call.verified,
                metrics |-> call.metrics]

Record(x) ==
  /\ At(x, "recording")
  /\ InsertRun(local[x].event, RunOf(local[x]))
  /\ Return(x)

(* The process dies: what it had read is gone, its rows stay.               *)
Crash(x) ==
  /\ Crashes
  /\ local[x] \notin Resting
  /\ local' = [local EXCEPT ![x] = Killed]
  /\ UNCHANGED storeVars

Approve(scope) == ApproveRow(scope) /\ UNCHANGED local

----------------------------------------------------------------------------
Costs == 0..(CostLimit + 1)

Step(x) == \/ HashBefore(x)
           \/ \E e \in Events : Reserve(x, e)
           \/ ReserveRefused(x)
           \/ \E code \in {0, 1}, cost \in Costs, file \in Files :
                Execute(x, code, cost, file)
           \/ ExecuteRaises(x)
           \/ Release(x)
           \/ Charge(x)
           \/ ChargeViolation(x)
           \/ HashAfter(x)
           \/ AuthorizeRecord(x)
           \/ RecordRefused(x)
           \/ Record(x)

Next == \/ \E x \in Executors, stage \in Stages, bound \in Bindings :
             Authorize(x, stage, bound)
        \/ \E x \in Executors : Step(x) \/ Crash(x)
        \/ \E scope \in Scopes : Approve(scope)

Spec == Init /\ [][Next]_vars

----------------------------------------------------------------------------
(* A recorded run is paid for: record_stage is only reached with the row of *)
(* its event charged, and nothing uncharges the row afterwards.             *)
RunsAreCharged == \A e \in Events :
  runs[e].status # "ABSENT" =>
    budget[e].status = "CHARGED" /\ budget[e].stage = runs[e].stage

(* What a claim can cite was produced after the budget for it was reserved: *)
(* the metrics recorded by an eligible run are not the file it started from.*)
EligibleIsFresh == [][\A x \in Executors, e \in Events :
  Eligible(runs'[e]) /\ ~ Eligible(runs[e]) /\ local[x] # Idle /\ local'[x] = Idle
    => runs'[e].metrics # local[x].before]_vars

(* A call that ends by itself leaves no reservation behind: however the job   *)
(* or the submission fails, its row has been charged, released or marked as a *)
(* violation before the call is over or goes on to record a run.             *)
Unsettled == {"reserved", "raised", "ran"}
SettledBeforeReturn == [][\A x \in Executors :
  local[x].pc \in Unsettled /\ local'[x].pc \notin Unsettled \cup {"killed"}
    => budget'[local[x].event].status # "RESERVED"]_vars

(* The docstring of ExperimentTransitionError: it is raised when a proposal *)
(* attempts to repeat a stage, so no stage passes twice.                    *)
NoStageRepeats == \A d, e \in Events :
  /\ runs[d].status = "PASSED" /\ runs[e].status = "PASSED"
  /\ runs[d].stage = runs[e].stage
  => d = e

(* README: after an abnormal interruption `paperforge resume` recovers.  The *)
(* runtime reuses a verified full run, or executes the full stage while it is *)
(* the next one: with mini passed and a metrics file in the workspace, one of *)
(* the two must be open to it.                                               *)
ResumeHasAWay == MiniExperiment \in Passed /\ output # Missing =>
  \/ IsNextStage(FullExperiment)
  \/ \E e \in Events : Eligible(runs[e])
=============================================================================
