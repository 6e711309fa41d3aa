----------------------------- MODULE BackendStage -----------------------------
(***************************************************************************)
(* The full stage on a remote backend: ResearchOSRuntime._handle_compute    *)
(* (paperforge/runtime.py) with the reserve, charge, release and finalize   *)
(* calls of ExperimentManager.  Every resume of the workflow runs the       *)
(* handler again and finds its reservation and its job by their stable      *)
(* identifiers, so the handler must be safe to kill at any step.  The       *)
(* static and mini stages have passed before.                               *)
(***************************************************************************)
EXTENDS ExperimentStore

CONSTANTS Workers,  \* processes that run the handler for this proposal
          Crashes   \* TRUE when a process may be killed part-way

VARIABLES
  worker,  \* process -> where its handler is, and what it has read
  job      \* the bound job on the backend: its state, product and cost

vars == <<storeVars, worker, job>>

Full == FullExperiment
NoEvent == "none"
ASSUME NoEventAssumption == NoEvent \notin Events

Idle == [pc |-> "idle", event |-> NoEvent, before |-> Missing,
         verified |-> FALSE, metrics |-> Missing]
PCs == {"idle", "gated", "reserving", "holding", "unknown", "releasing",
        "settling", "terminal", "authorized", "charged", "synced", "verified",
        "recording"}

(* "none": the backend knows no job with this identifier.                   *)
Jobs == [status : {"none", "running", "succeeded", "failed"},
         product : Files, cost : 0..(CostLimit + 1)]

TypeOK == /\ StoreTypeOK
          /\ worker \in [Workers -> [pc : PCs, event : Events \cup {NoEvent},
                                     before : Files, verified : BOOLEAN,
                                     metrics : Files]]
          /\ \A w \in Workers : worker[w].event = NoEvent
               <=> worker[w].pc \in {"idle", "gated", "reserving"}
          /\ job \in Jobs

(* The approved proposal after its static and mini stages, whose rows were  *)
(* admitted within the limit.                                               *)
Init ==
  /\ approvals = [s \in Scopes |-> IF Full \in s THEN "APPROVED" ELSE "ABSENT"]
  /\ \E first, second \in Events :
       /\ first # second
       /\ LET stage == [e \in {first, second} |->
                          IF e = first THEN StaticCheck ELSE MiniExperiment]
          IN /\ budget = [e \in Events |->
                  IF e \notin {first, second} THEN NoBudget
                  ELSE [NoBudget EXCEPT !.status = "CHARGED", !.stage = stage[e],
                                        !.amount = Estimate[stage[e]]]]
             /\ runs = [e \in Events |->
                  IF e \notin {first, second} THEN NoRun
                  ELSE [NoRun EXCEPT !.status = "PASSED", !.stage = stage[e],
                                     !.verified = TRUE]]
  /\ WithinCostLimit
  /\ status = "RUNNING"
  /\ output = Missing
  /\ worker = [w \in Workers |-> Idle]
  /\ job = [status |-> "none", product |-> Missing, cost |-> 0]

At(w, pc) == worker[w].pc = pc
Goto(w, pc) == worker' = [worker EXCEPT ![w].pc = pc]
Return(w) == worker' = [worker EXCEPT ![w] = Idle]
Row(w) == budget[worker[w].event]

(* The rows of this lifecycle: one backend, job and binding.                *)
Lifecycle == {e \in Events : budget[e].lifecycle}

----------------------------------------------------------------------------
(* The handler blocks unless the full stage is approved and the next one;   *)
(* a full run that passed verified is reused instead.                       *)
Gate(w) ==
  /\ At(w, "idle")
  /\ Covered(Full) /\ IsNextStage(Full)
  /\ Goto(w, "gated")
  /\ UNCHANGED <<storeVars, job>>

(* The manager calls that authorise the stage again end the handler when    *)
(* the approval no longer covers it or it is no longer the next one.        *)
ReadyToFinalize(w) == At(w, IF job.status = "succeeded" THEN "synced" ELSE "charged")

Refuse(w) ==
  /\ \/ At(w, "gated")
     \/ At(w, "terminal") /\ Row(w).status # "CHARGED"
     \/ ReadyToFinalize(w)
  /\ ~ Authorized(Full)
  /\ Return(w)
  /\ UNCHANGED <<storeVars, job>>

(* The binding is verified once more before the budget is touched, and the  *)
(* backend is built from its configuration: either may end the handler.     *)
BlockedBeforeReserve(w) ==
  /\ At(w, "gated")
  /\ Return(w)
  /\ UNCHANGED <<storeVars, job>>

(* reserve_backend_stage: a live row of the lifecycle is taken up again.    *)
Reuse(w, e) ==
  /\ At(w, "gated")
  /\ Authorized(Full)
  /\ e \in Lifecycle /\ budget[e].status \in {"RESERVED", "CHARGED"}
  /\ worker' = [worker EXCEPT ![w].pc = "holding", ![w].event = e]
  /\ UNCHANGED <<storeVars, job>>
(* Mutation: a charged row does not stand in for a reservation.             *)
NoReservedRow == \A e \in Lifecycle : budget[e].status # "RESERVED"
NoLiveRow == \A e \in Lifecycle : budget[e].status \notin {"RESERVED", "CHARGED"}

(* Without a live row, the new one keeps the output hash that the first row *)
(* of the lifecycle was reserved with.                                      *)
ReadRows(w) ==
  /\ At(w, "gated")
  /\ Authorized(Full)
  /\ NoLiveRow
  /\ \E before \in IF Lifecycle = {} THEN {output}
                   ELSE {budget[e].before : e \in Lifecycle} :
       worker' = [worker EXCEPT ![w].pc = "reserving", ![w].before = before]
  /\ UNCHANGED <<storeVars, job>>

Reserve(w, e) ==
  /\ At(w, "reserving")
  /\ ReserveRow(e, Full, TRUE, worker[w].before)
  /\ worker' = [worker EXCEPT ![w].pc = "holding", ![w].event = e]
  /\ UNCHANGED job

ReserveRefused(w) ==
  /\ At(w, "reserving")
  /\ ~ Affordable(Full)
  /\ Return(w)
  /\ UNCHANGED <<storeVars, job>>

(* backend.status: unknown, terminal, or neither.  A backend that cannot be *)
(* reached, a job in progress and source staging that raises all end the    *)
(* call and leave the row reserved for the next resume.                     *)
Status(w) ==
  /\ At(w, "holding")
  /\ \/ job.status = "none" /\ Goto(w, "unknown")
     \/ job.status \in {"succeeded", "failed"} /\ Goto(w, "terminal")
  /\ UNCHANGED <<storeVars, job>>

LeaveReserved(w) ==
  /\ At(w, "holding") \/ At(w, "unknown")
  /\ Return(w)
  /\ UNCHANGED <<storeVars, job>>

(* submit launches the job, or answers that it failed.  A backend that      *)
(* already has the job by now answers with its state.                       *)
Submit(w, after) ==
  /\ At(w, "unknown")
  /\ IF job.status = "none" THEN after \in {"running", "failed"}
                            ELSE after = job.status
  /\ job' = [job EXCEPT !.status = after]
  /\ IF after = "running" THEN Return(w) ELSE Goto(w, "terminal")
  /\ UNCHANGED storeVars

(* Staging the source failed, or submit raised, before or after the launch. *)
SubmitRaises(w, launched) ==
  /\ At(w, "unknown")
  /\ IF launched /\ job.status = "none" THEN job' = [job EXCEPT !.status = "running"]
                                        ELSE UNCHANGED job
  /\ Goto(w, "releasing")
  /\ UNCHANGED storeVars

(* release_backend_stage reads the row in one connection and settles it in  *)
(* another.                                                                 *)
ReleaseRead(w) ==
  /\ At(w, "releasing")
  /\ IF Row(w).status = "RESERVED" THEN Goto(w, "settling") ELSE Return(w)
  /\ UNCHANGED <<storeVars, job>>

Release(w) ==
  /\ At(w, "settling")
  /\ SettleRow(worker[w].event, "RELEASED", Estimate[Full])
  /\ Return(w)
  /\ UNCHANGED job

JobEnds(result, file, cost) ==
  /\ job.status = "running"
  /\ job' = [status |-> result, product |-> file, cost |-> cost]
  /\ UNCHANGED <<storeVars, worker>>

(* charge_backend_stage: a charged row is left as it is; otherwise the      *)
(* stage is authorised again and the row must still be reserved.            *)
Recharge(w) ==
  /\ At(w, "terminal")
  /\ Row(w).status = "CHARGED"
  /\ Goto(w, "charged")
  /\ UNCHANGED <<storeVars, job>>

AuthorizeCharge(w) ==
  /\ At(w, "terminal")
  /\ Row(w).status # "CHARGED"
  /\ Authorized(Full)
  /\ IF Row(w).status = "RESERVED" THEN Goto(w, "authorized") ELSE Return(w)
  /\ UNCHANGED <<storeVars, job>>

(* Mutation: the charge is put off to finalize_backend_stage.               *)
ChargeLater(w) ==
  /\ At(w, "authorized")
  /\ job.cost <= Estimate[Full]
  /\ Goto(w, "charged")
  /\ UNCHANGED <<storeVars, job>>

Charge(w) ==
  /\ At(w, "authorized")
  /\ job.cost <= Estimate[Full]
  /\ SettleRow(worker[w].event, "CHARGED", job.cost)
  /\ Goto(w, "charged")
  /\ UNCHANGED job

(* Mutation: the excess is charged as reported.                             *)
ChargeExcess(w) ==
  /\ At(w, "authorized")
  /\ job.cost > Estimate[Full]
  /\ SettleRow(worker[w].event, "CHARGED", job.cost)
  /\ Return(w)
  /\ UNCHANGED job

ChargeViolation(w) ==
  /\ At(w, "authorized")
  /\ job.cost > Estimate[Full]
  /\ SettleRow(worker[w].event, "VIOLATION", Estimate[Full])
  /\ Return(w)
  /\ UNCHANGED job

(* The outputs of a job that succeeded are fetched and copied into the      *)
(* workspace one by one; an error ends the handler before or after the      *)
(* metrics file.                                                            *)
Sync(w) ==
  /\ At(w, "charged")
  /\ job.status = "succeeded"
  /\ output' = job.product
  /\ Goto(w, "synced") \/ UNCHANGED worker
  /\ UNCHANGED <<approvals, budget, runs, status, job>>

SyncFails(w) ==
  /\ At(w, "charged")
  /\ job.status = "succeeded"
  /\ Return(w)
  /\ UNCHANGED <<storeVars, job>>

(* finalize_backend_stage: a run with the stable identifier is returned as  *)
(* it is.  The row is charged by now, so the charge it would make of a      *)
(* reserved row is never made.                                              *)
FinalizeAgain(w) ==
  /\ ReadyToFinalize(w)
  /\ runs[worker[w].event].status # "ABSENT" \/ Row(w).status # "CHARGED"
  /\ Return(w)
  /\ UNCHANGED <<storeVars, job>>

(* The outputs are compared with those the lifecycle was first reserved     *)
(* with.                                                                    *)
Fresh(w) == output \notin {Missing, Row(w).before}

Finalize(w) ==
  /\ ReadyToFinalize(w)
  /\ runs[worker[w].event].status = "ABSENT" /\ Row(w).status = "CHARGED"
  /\ Authorized(Full)
  /\ worker' = [worker EXCEPT ![w].pc = "verified",
                  ![w].verified = job.status = "succeeded" /\ Fresh(w)]
  /\ UNCHANGED <<storeVars, job>>

(* record_stage, as in LocalStage.                                          *)
AuthorizeRecord(w) ==
  /\ At(w, "verified")
  /\ IF Authorized(Full)
     THEN worker' = [worker EXCEPT ![w].pc = "recording",
                       ![w].metrics = IF job.status = "succeeded" THEN output ELSE Missing]
     ELSE Return(w)
  /\ UNCHANGED <<storeVars, job>>

Record(w) ==
  /\ At(w, "recording")
  /\ InsertRun(worker[w].event,
       [status |-> IF job.status = "succeeded" THEN "PASSED" ELSE "FAILED",
        stage |-> Full, verified |-> worker[w].verified,
        metrics |-> worker[w].metrics])
  /\ Return(w)
  /\ UNCHANGED job

Crash(w) ==
  /\ Crashes
  /\ ~ At(w, "idle")
  /\ Return(w)
  /\ UNCHANGED <<storeVars, job>>

Approve(scope) == ApproveRow(scope) /\ UNCHANGED <<worker, job>>

----------------------------------------------------------------------------
Next ==
  \/ \E w \in Workers :
       \/ Gate(w) \/ Refuse(w) \/ BlockedBeforeReserve(w) \/ ReadRows(w) \/ ReserveRefused(w)
       \/ \E e \in Events : Reuse(w, e) \/ Reserve(w, e)
       \/ Status(w) \/ LeaveReserved(w)
       \/ \E after \in {"running", "succeeded", "failed"} : Submit(w, after)
       \/ \E launched \in BOOLEAN : SubmitRaises(w, launched)
       \/ ReleaseRead(w) \/ Release(w)
       \/ Recharge(w) \/ AuthorizeCharge(w) \/ Charge(w) \/ ChargeViolation(w)
       \/ Sync(w) \/ SyncFails(w)
       \/ FinalizeAgain(w) \/ Finalize(w) \/ AuthorizeRecord(w) \/ Record(w)
       \/ Crash(w)
  \/ \E file \in Contents, cost \in 0..(CostLimit + 1) : JobEnds("succeeded", file, cost)
  \/ \E cost \in 0..(CostLimit + 1) : JobEnds("failed", Missing, cost)
  \/ \E scope \in Scopes : Approve(scope)

Spec == Init /\ [][Next]_vars

----------------------------------------------------------------------------
(* The job is paid for once: whatever is killed and resumed, no second row   *)
(* of its lifecycle is charged.                                             *)
JobPaidOnce == \A d, e \in Lifecycle :
  budget[d].status = "CHARGED" /\ budget[e].status = "CHARGED" => d = e

(* Artifacts are paid for before they are handled: the workspace only        *)
(* receives outputs while a row of the lifecycle is charged, and a run is    *)
(* only recorded against a charged row.                                     *)
ArtifactsArePaid == [][
  /\ output' # output => \E e \in Lifecycle : budget[e].status = "CHARGED"
  /\ \A e \in Lifecycle : runs'[e] # runs[e] => budget[e].status = "CHARGED"]_vars

(* A retry never loses the evidence: a full run recorded as passed is        *)
(* eligible, however often the handler was killed between the copy of the    *)
(* outputs and the record, because the first output hash is kept.            *)
PassedIsEvidence == \A e \in Events :
  runs[e].status = "PASSED" /\ runs[e].stage = Full => Eligible(runs[e])
=============================================================================
