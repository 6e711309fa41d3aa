-------------------------- MODULE BackendStageProofs --------------------------
(***************************************************************************)
(* One handler at a time (WorkflowProofs!ExecutionExcludes), killed and     *)
(* resumed as often as one likes, for every set of events, estimates and    *)
(* contents: the remote job is paid for once and before its artifacts are   *)
(* handled, and what passes can be used as evidence.  With the directories  *)
(* and handles of StageFiles: what runs is what was approved, and what      *)
(* passes is whole.                                                         *)
(***************************************************************************)
EXTENDS StageFiles, ExperimentStoreProofs

Bound == PCs \ {"idle", "gated", "reserving"}
Paid == {"charged", "synced", "verified", "recording"}
Open == {"RESERVED", "CHARGED"}
Ended == {"succeeded", "failed"}

(* What the handler of w knows by the step it has reached.                  *)
HandlerInv(w) ==
  /\ worker[w].pc = "reserving" => NoLiveRow /\ worker[w].before = Missing
  /\ worker[w].pc \in Bound => worker[w].event \in Lifecycle
  /\ worker[w].pc \in {"settling", "authorized"} => Row(w).status = "RESERVED"
  /\ worker[w].pc \in {"terminal", "authorized"} \cup Paid => job.status \in Ended
  /\ worker[w].pc \in Paid => Row(w).status = "CHARGED"
  /\ worker[w].pc = "synced" => job.status = "succeeded" /\ output \in Contents
  /\ worker[w].pc \in {"verified", "recording"} /\ job.status = "succeeded" =>
       worker[w].verified /\ output \in Contents
  /\ worker[w].pc = "recording" /\ job.status = "succeeded" => worker[w].metrics = output

(* One row of the lifecycle is open at a time; all of them keep the hash of *)
(* the output before the first, which was no file at all.                   *)
OneOpen == \A d, e \in Lifecycle :
  budget[d].status \in Open /\ budget[e].status \in Open => d = e
FirstHashKept ==
  /\ \A e \in Lifecycle :
       /\ budget[e].before = Missing
       /\ budget[e].status = "RESERVED" => budget[e].amount = Estimate[Full]
  /\ Lifecycle = {} => output = Missing
ProductExists == job.status = "succeeded" => job.product \in Contents

IInv == /\ TypeOK /\ BudgetOK
        /\ \A w \in Workers : HandlerInv(w)
        /\ OneOpen /\ FirstHashKept /\ ProductExists /\ PassedIsEvidence

----------------------------------------------------------------------------
Handlers == [pc : PCs, event : Events \cup {NoEvent}, before : Files,
             verified : BOOLEAN, metrics : Files]

(* The process that runs the handler moves to another record of its call.   *)
LEMMA MovesTo ==
  ASSUME TypeOK, NEW w \in Workers, NEW r \in Handlers, worker' = [worker EXCEPT ![w] = r],
         r.event = NoEvent <=> r.pc \notin Bound
  PROVE  /\ worker'[w] = r /\ worker' \in [Workers -> Handlers]
         /\ \A v \in Workers : worker'[v].event = NoEvent
                                 <=> worker'[v].pc \in {"idle", "gated", "reserving"}
<1>1. r.event = NoEvent <=> r.pc \in {"idle", "gated", "reserving"}
  BY DEF Bound, Handlers
<1> QED  BY <1>1 DEF TypeOK, Handlers

LEMMA WorkerTypes ==
  ASSUME TypeOK, NEW w \in Workers
  PROVE  /\ worker[w] \in Handlers
         /\ worker[w].pc \in Bound => worker[w].event \in Events
         /\ worker[w].event = NoEvent <=> worker[w].pc \notin Bound
<1>1. worker[w] \in Handlers
  BY DEF TypeOK, Handlers
<1> QED  BY <1>1 DEF TypeOK, Bound, Handlers

LEMMA GotoFacts ==
  ASSUME TypeOK, NEW w \in Workers, NEW pc \in PCs, Goto(w, pc),
         pc \in Bound <=> worker[w].pc \in Bound
  PROVE  /\ worker'[w].pc = pc /\ worker'[w].event = worker[w].event
         /\ worker'[w].before = worker[w].before /\ worker'[w].verified = worker[w].verified
         /\ worker'[w].metrics = worker[w].metrics
         /\ worker' \in [Workers -> Handlers]
         /\ \A v \in Workers : worker'[v].event = NoEvent
                                 <=> worker'[v].pc \in {"idle", "gated", "reserving"}
<1> DEFINE r == [worker[w] EXCEPT !.pc = pc]
<1>1. /\ r \in Handlers /\ r.pc = pc /\ r.event = worker[w].event
      /\ r.before = worker[w].before /\ r.verified = worker[w].verified
      /\ r.metrics = worker[w].metrics
  BY WorkerTypes DEF Handlers
<1>2. worker' = [worker EXCEPT ![w] = r]
  BY DEF Goto
<1>3. r.event = NoEvent <=> r.pc \notin Bound
  BY <1>1, WorkerTypes
<1> HIDE DEF r
<1> QED  BY <1>1, <1>2, <1>3, MovesTo

LEMMA ReturnFacts ==
  ASSUME TypeOK, NEW w \in Workers, Return(w)
  PROVE  /\ worker'[w].pc = "idle"
         /\ worker' \in [Workers -> Handlers]
         /\ \A v \in Workers : worker'[v].event = NoEvent
                                 <=> worker'[v].pc \in {"idle", "gated", "reserving"}
<1>1. Idle \in Handlers /\ Idle.pc = "idle" /\ Idle.event = NoEvent
  BY DEF Idle, Handlers, PCs, Files
<1>2. worker' = [worker EXCEPT ![w] = Idle]
  BY DEF Return
<1>3. Idle.event = NoEvent <=> Idle.pc \notin Bound
  BY <1>1 DEF Bound
<1> HIDE DEF Idle
<1> QED  BY <1>1, <1>2, <1>3, MovesTo

(* A handler that has returned knows nothing.                               *)
LEMMA IdleHandler ==
  ASSUME NEW w \in Workers, worker'[w].pc = "idle"
  PROVE  HandlerInv(w)'
  BY DEF HandlerInv, Bound, Paid

(* A step of the handler that leaves the rows and the job alone.            *)
LEMMA QuietStep ==
  ASSUME IInv, \A v, w \in Workers : v = w, NEW w \in Workers,
         UNCHANGED <<storeVars, job>>, HandlerInv(w)',
         worker' \in [Workers -> Handlers],
         \A v \in Workers : worker'[v].event = NoEvent
                              <=> worker'[v].pc \in {"idle", "gated", "reserving"}
  PROVE  IInv'
<1>1. TypeOK' /\ BudgetOK'
  BY DEF IInv, TypeOK, StoreTypeOK, storeVars, BudgetOK, WithinCostLimit, Spent, Coins, Handlers
<1>2. OneOpen' /\ FirstHashKept' /\ ProductExists' /\ PassedIsEvidence'
  BY DEF IInv, OneOpen, FirstHashKept, ProductExists, PassedIsEvidence, Lifecycle, Eligible,
         storeVars
<1>3. \A v \in Workers : HandlerInv(v)'
  OBVIOUS
<1> QED  BY <1>1, <1>2, <1>3 DEF IInv

LEMMA ReturnStep ==
  ASSUME IInv, \A v, w \in Workers : v = w, NEW w \in Workers,
         UNCHANGED <<storeVars, job>>, Return(w)
  PROVE  IInv'
<1>1. TypeOK
  BY DEF IInv
<1> QED  BY <1>1, ReturnFacts, IdleHandler, QuietStep

(* The handler up to its reservation.                                       *)
LEMMA GateStep ==
  ASSUME IInv, \A v, w \in Workers : v = w, NEW w \in Workers, Gate(w)
  PROVE  IInv'
<1>1. TypeOK /\ "gated" \in PCs /\ "gated" \notin Bound /\ worker[w].pc \notin Bound /\ Goto(w, "gated")
  BY DEF IInv, PCs, Bound, Gate, At
<1>2. worker'[w].pc = "gated"
  BY <1>1, GotoFacts
<1>3. HandlerInv(w)'
  BY <1>2 DEF HandlerInv, Bound, Paid
<1>4. UNCHANGED <<storeVars, job>>
  BY DEF Gate
<1> QED  BY <1>1, <1>3, <1>4, GotoFacts, QuietStep

LEMMA ReuseStep ==
  ASSUME IInv, \A v, w \in Workers : v = w, NEW w \in Workers, NEW e \in Events, Reuse(w, e)
  PROVE  IInv'
<1> DEFINE r == [worker[w] EXCEPT !.pc = "holding", !.event = e]
<1>1. TypeOK /\ UNCHANGED <<storeVars, job>> /\ worker' = [worker EXCEPT ![w] = r] /\ e \in Lifecycle
  BY DEF IInv, Reuse
<1>2. "holding" \in PCs /\ "holding" \in Bound /\ e # NoEvent
  BY NoEventAssumption DEF PCs, Bound
<1>3. r \in Handlers /\ r.pc = "holding" /\ r.event = e
  BY <1>1, <1>2, WorkerTypes DEF Handlers
<1> HIDE DEF r
<1>4. /\ worker'[w] = r /\ worker' \in [Workers -> Handlers]
      /\ \A v \in Workers : worker'[v].event = NoEvent
                              <=> worker'[v].pc \in {"idle", "gated", "reserving"}
  BY <1>1, <1>2, <1>3, MovesTo
<1>5. HandlerInv(w)'
  BY <1>1, <1>3, <1>4 DEF HandlerInv, Paid, Lifecycle, storeVars
<1> QED  BY <1>1, <1>4, <1>5, QuietStep

LEMMA ReadRowsStep ==
  ASSUME IInv, \A v, w \in Workers : v = w, NEW w \in Workers, ReadRows(w)
  PROVE  IInv'
<1>1. /\ TypeOK /\ UNCHANGED <<storeVars, job>> /\ NoLiveRow
      /\ worker[w].pc = "gated"
  BY DEF IInv, ReadRows, At
<1>2. worker' = [worker EXCEPT ![w] = [worker[w] EXCEPT !.pc = "reserving", !.before = Missing]]
  BY DEF ReadRows, IInv, FirstHashKept
<1> DEFINE r == [worker[w] EXCEPT !.pc = "reserving", !.before = Missing]
<1>3. "reserving" \in PCs /\ "reserving" \notin Bound /\ Missing \in Files /\ worker[w].pc \notin Bound
  BY <1>1 DEF PCs, Bound, Files
<1>4. r \in Handlers /\ r.pc = "reserving" /\ r.before = Missing /\ r.event = NoEvent
  BY <1>1, <1>3, WorkerTypes DEF Handlers
<1> HIDE DEF r
<1>5. /\ worker'[w] = r /\ worker' \in [Workers -> Handlers]
      /\ \A v \in Workers : worker'[v].event = NoEvent
                              <=> worker'[v].pc \in {"idle", "gated", "reserving"}
  BY <1>1, <1>2, <1>3, <1>4, MovesTo DEF r
<1>6. HandlerInv(w)'
  BY <1>1, <1>4, <1>5 DEF HandlerInv, Bound, Paid, Lifecycle, NoLiveRow, storeVars
<1> QED  BY <1>1, <1>5, <1>6, QuietStep

(* The steps that only move the handler, or end its call.                   *)
LEMMA MoveStep ==
  ASSUME IInv, \A v, w \in Workers : v = w, NEW w \in Workers,
         NEW pc \in {"unknown", "releasing", "settling", "terminal", "authorized", "charged"},
         UNCHANGED storeVars, job' \in Jobs, ProductExists', Goto(w, pc),
         worker[w].pc \in Bound,
         pc \in {"settling", "authorized"} => Row(w).status = "RESERVED",
         pc \in {"terminal", "authorized", "charged"} => job'.status \in Ended,
         pc = "charged" => Row(w).status = "CHARGED"
  PROVE  IInv'
<1>1. TypeOK /\ pc \in PCs /\ pc \in Bound /\ worker[w].event \in Lifecycle
  BY DEF IInv, PCs, Bound, HandlerInv
<1>2. /\ worker'[w].pc = pc /\ worker'[w].event = worker[w].event
      /\ worker' \in [Workers -> Handlers]
      /\ \A v \in Workers : worker'[v].event = NoEvent
                              <=> worker'[v].pc \in {"idle", "gated", "reserving"}
  BY <1>1, GotoFacts
<1>3. HandlerInv(w)'
  BY <1>1, <1>2 DEF HandlerInv, Paid, Lifecycle, storeVars, Row
<1>4. TypeOK' /\ BudgetOK'
  BY <1>2 DEF IInv, TypeOK, StoreTypeOK, storeVars, BudgetOK, WithinCostLimit, Spent, Coins,
              Handlers
<1>5. OneOpen' /\ FirstHashKept' /\ PassedIsEvidence'
  BY DEF IInv, OneOpen, FirstHashKept, PassedIsEvidence, Lifecycle, Eligible, storeVars
<1> QED  BY <1>3, <1>4, <1>5 DEF IInv

LEMMA StatusStep ==
  ASSUME IInv, \A v, w \in Workers : v = w, NEW w \in Workers, Status(w)
  PROVE  IInv'
<1>1. /\ worker[w].pc \in Bound /\ UNCHANGED <<storeVars, job>>
      /\ job' \in Jobs /\ ProductExists'
  BY DEF Status, At, Bound, PCs, IInv, TypeOK, ProductExists
<1>2. CASE job.status = "none" /\ Goto(w, "unknown")
  BY <1>1, <1>2, MoveStep
<1>3. CASE job.status \in {"succeeded", "failed"} /\ Goto(w, "terminal")
  BY <1>1, <1>3, MoveStep DEF Ended
<1> QED  BY <1>2, <1>3 DEF Status

(* A job that is launched, or has failed to launch, has no product yet.     *)
LEMMA SubmitStep ==
  ASSUME IInv, \A v, w \in Workers : v = w, NEW w \in Workers,
         NEW after \in {"running", "succeeded", "failed"}, Submit(w, after)
  PROVE  IInv'
<1>1. /\ worker[w].pc \in Bound /\ UNCHANGED storeVars
      /\ job' \in Jobs /\ job'.status = after /\ ProductExists'
  BY DEF Submit, At, Bound, PCs, IInv, TypeOK, ProductExists, Jobs
<1>2. CASE after = "running" /\ Return(w)
  <2>1. TypeOK
    BY DEF IInv
  <2>2. HandlerInv(w)' /\ worker' \in [Workers -> Handlers]
        /\ \A v \in Workers : worker'[v].event = NoEvent
                                <=> worker'[v].pc \in {"idle", "gated", "reserving"}
    BY <1>2, <2>1, ReturnFacts, IdleHandler
  <2>3. TypeOK' /\ BudgetOK'
    BY <1>1, <2>2 DEF IInv, TypeOK, StoreTypeOK, storeVars, BudgetOK, WithinCostLimit, Spent,
                      Coins, Handlers
  <2>4. OneOpen' /\ FirstHashKept' /\ PassedIsEvidence'
    BY <1>1 DEF IInv, OneOpen, FirstHashKept, PassedIsEvidence, Lifecycle, Eligible, storeVars
  <2> QED  BY <1>1, <2>2, <2>3, <2>4 DEF IInv
<1>3. CASE after # "running" /\ Goto(w, "terminal")
  BY <1>1, <1>3, MoveStep DEF Ended
<1> QED  BY <1>2, <1>3 DEF Submit

LEMMA SubmitRaisesStep ==
  ASSUME IInv, \A v, w \in Workers : v = w, NEW w \in Workers, NEW launched \in BOOLEAN,
         SubmitRaises(w, launched)
  PROVE  IInv'
<1>1. /\ worker[w].pc \in Bound /\ UNCHANGED storeVars /\ Goto(w, "releasing")
      /\ job' \in Jobs /\ ProductExists'
  BY DEF SubmitRaises, At, Bound, PCs, IInv, TypeOK, ProductExists, Jobs
<1> QED  BY <1>1, MoveStep

LEMMA ReleaseReadStep ==
  ASSUME IInv, \A v, w \in Workers : v = w, NEW w \in Workers, ReleaseRead(w)
  PROVE  IInv'
<1>1. /\ worker[w].pc \in Bound /\ UNCHANGED <<storeVars, job>>
      /\ job' \in Jobs /\ ProductExists'
  BY DEF ReleaseRead, At, Bound, PCs, IInv, TypeOK, ProductExists
<1>2. CASE Row(w).status = "RESERVED" /\ Goto(w, "settling")
  BY <1>1, <1>2, MoveStep
<1>3. CASE Return(w)
  BY <1>1, <1>3, ReturnStep
<1> QED  BY <1>2, <1>3 DEF ReleaseRead

LEMMA RechargeStep ==
  ASSUME IInv, \A v, w \in Workers : v = w, NEW w \in Workers, Recharge(w)
  PROVE  IInv'
<1>1. /\ worker[w].pc = "terminal" /\ worker[w].pc \in Bound /\ UNCHANGED <<storeVars, job>>
      /\ job' \in Jobs /\ ProductExists' /\ Goto(w, "charged") /\ Row(w).status = "CHARGED"
  BY DEF Recharge, At, Bound, PCs, IInv, TypeOK, ProductExists
<1>2. job.status \in Ended
  BY <1>1 DEF IInv, HandlerInv
<1> QED  BY <1>1, <1>2, MoveStep

LEMMA AuthorizeChargeStep ==
  ASSUME IInv, \A v, w \in Workers : v = w, NEW w \in Workers, AuthorizeCharge(w)
  PROVE  IInv'
<1>1. /\ worker[w].pc = "terminal" /\ worker[w].pc \in Bound /\ UNCHANGED <<storeVars, job>>
      /\ job' \in Jobs /\ ProductExists'
  BY DEF AuthorizeCharge, At, Bound, PCs, IInv, TypeOK, ProductExists
<1>2. job.status \in Ended
  BY <1>1 DEF IInv, HandlerInv
<1>3. CASE Row(w).status = "RESERVED" /\ Goto(w, "authorized")
  BY <1>1, <1>2, <1>3, MoveStep
<1>4. CASE Return(w)
  BY <1>1, <1>4, ReturnStep
<1> QED  BY <1>3, <1>4 DEF AuthorizeCharge

----------------------------------------------------------------------------
(* The new row of the lifecycle is its only open one.                       *)
LEMMA ReserveStep ==
  ASSUME IInv, \A v, w \in Workers : v = w, NEW w \in Workers, NEW e \in Events, Reserve(w, e)
  PROVE  IInv'
<1> DEFINE r == [worker[w] EXCEPT !.pc = "holding", !.event = e]
<1>1. /\ TypeOK /\ worker[w].pc = "reserving" /\ worker' = [worker EXCEPT ![w] = r]
      /\ ReserveRow(e, Full, TRUE, worker[w].before) /\ UNCHANGED job
      /\ NoLiveRow /\ worker[w].before = Missing
  BY DEF IInv, Reserve, At, HandlerInv
<1>2. /\ "holding" \in PCs /\ "holding" \in Bound /\ e # NoEvent
      /\ Full \in Stages /\ Estimate[Full] \in Nat
  BY NoEventAssumption, CostAssumption
     DEF PCs, Bound, Full, Stages, StaticCheck, FullExperiment
<1>3. r \in Handlers /\ r.pc = "holding" /\ r.event = e
  BY <1>1, <1>2, WorkerTypes DEF Handlers
<1>4. /\ budget'[e].status = "RESERVED" /\ budget'[e].amount = Estimate[Full]
      /\ budget'[e].lifecycle /\ budget'[e].before = Missing
      /\ \A d \in Events \ {e} : budget'[d] = budget[d]
      /\ budget' \in [Events -> BudgetRows]
      /\ UNCHANGED <<approvals, runs, status, output>>
  BY <1>1, <1>2 DEF ReserveRow, TypeOK, StoreTypeOK, BudgetRows, Files
<1> HIDE DEF r
<1>5. /\ worker'[w] = r /\ worker' \in [Workers -> Handlers]
      /\ \A v \in Workers : worker'[v].event = NoEvent
                              <=> worker'[v].pc \in {"idle", "gated", "reserving"}
  BY <1>1, <1>2, <1>3, MovesTo
<1>6. Lifecycle' = Lifecycle \cup {e}
  BY <1>4 DEF Lifecycle
<1>7. HandlerInv(w)'
  BY <1>3, <1>5, <1>6 DEF HandlerInv, Paid
<1>8. TypeOK' /\ ProductExists'
  BY <1>1, <1>4, <1>5 DEF IInv, TypeOK, StoreTypeOK, ProductExists, Handlers
<1>9. BudgetOK'
  BY <1>1, <1>2, ReserveKeepsBudget DEF IInv, TypeOK, StoreTypeOK, BudgetTypeOK
<1>10. OneOpen'
  BY <1>1, <1>4, <1>6 DEF OneOpen, NoLiveRow, Open, Lifecycle
<1>11. FirstHashKept'
  BY <1>4, <1>6 DEF IInv, FirstHashKept, Lifecycle
<1>12. PassedIsEvidence'
  BY <1>4 DEF IInv, PassedIsEvidence, Eligible
<1> QED  BY <1>7, <1>8, <1>9, <1>10, <1>11, <1>12 DEF IInv

(* The row that the handler settles is reserved, and at the estimate.       *)
LEMMA SettlesItsRow ==
  ASSUME IInv, NEW w \in Workers, worker[w].pc \in {"settling", "authorized"}
  PROVE  /\ worker[w].event \in Events /\ worker[w].event \in Lifecycle
         /\ Row(w).status = "RESERVED" /\ Row(w).amount = Estimate[Full]
         /\ Estimate[Full] \in Nat
<1>1. worker[w].pc \in Bound
  BY DEF Bound, PCs
<1>2. worker[w].event \in Lifecycle /\ Row(w).status = "RESERVED"
  BY <1>1 DEF IInv, HandlerInv
<1>3. Row(w).amount = Estimate[Full]
  BY <1>2 DEF IInv, FirstHashKept, Row
<1> QED
  BY <1>2, <1>3, CostAssumption DEF Lifecycle, Full, Stages, StaticCheck, FullExperiment

LEMMA SettleStep ==
  ASSUME IInv, \A v, w \in Workers : v = w, NEW w \in Workers,
         worker[w].pc \in {"settling", "authorized"},
         NEW newStatus \in {"CHARGED", "RELEASED", "VIOLATION"},
         NEW amount \in Nat, amount <= Estimate[Full],
         SettleRow(worker[w].event, newStatus, amount), UNCHANGED job,
         \/ newStatus = "CHARGED" /\ Goto(w, "charged") /\ worker[w].pc = "authorized"
         \/ Return(w)
  PROVE  IInv'
<1> DEFINE e == worker[w].event
<1>1. /\ TypeOK /\ e \in Events /\ e \in Lifecycle /\ budget[e].status = "RESERVED"
      /\ budget[e].amount = Estimate[Full] /\ Estimate[Full] \in Nat
  BY SettlesItsRow DEF IInv, Row
<1>2. /\ UNCHANGED <<approvals, runs, status, output>>
      /\ budget'[e].status = newStatus /\ budget'[e].before = budget[e].before
      /\ budget'[e].lifecycle = budget[e].lifecycle
      /\ \A d \in Events \ {e} : budget'[d] = budget[d]
      /\ budget' \in [Events -> BudgetRows]
  BY <1>1 DEF SettleRow, TypeOK, StoreTypeOK, BudgetRows
<1>3. Lifecycle' = Lifecycle
  BY <1>1, <1>2 DEF Lifecycle
<1>4. /\ worker' \in [Workers -> Handlers]
      /\ \A v \in Workers : worker'[v].event = NoEvent
                              <=> worker'[v].pc \in {"idle", "gated", "reserving"}
      /\ HandlerInv(w)'
  <2>1. CASE newStatus = "CHARGED" /\ Goto(w, "charged") /\ worker[w].pc = "authorized"
    <3>1. "charged" \in PCs /\ "charged" \in Bound /\ worker[w].pc \in Bound
      BY <2>1 DEF PCs, Bound
    <3>2. /\ worker'[w].pc = "charged" /\ worker'[w].event = e
          /\ worker' \in [Workers -> Handlers]
          /\ \A v \in Workers : worker'[v].event = NoEvent
                                  <=> worker'[v].pc \in {"idle", "gated", "reserving"}
      BY <1>1, <2>1, <3>1, GotoFacts
    <3>3. job'.status \in Ended
      BY <2>1 DEF IInv, HandlerInv
    <3>4. HandlerInv(w)'
      BY <1>1, <1>2, <1>3, <2>1, <3>2, <3>3 DEF HandlerInv, Row
    <3> QED  BY <3>2, <3>4
  <2>2. CASE Return(w)
    BY <1>1, <2>2, ReturnFacts, IdleHandler
  <2> QED  BY <2>1, <2>2
<1>5. TypeOK' /\ ProductExists'
  BY <1>1, <1>2, <1>4 DEF IInv, TypeOK, StoreTypeOK, ProductExists, Handlers
<1>6. BudgetOK'
  BY <1>1, SettleKeepsBudget DEF IInv, TypeOK, StoreTypeOK, BudgetTypeOK, Live
<1>7. OneOpen'
  BY <1>1, <1>2, <1>3 DEF IInv, OneOpen, Open, Lifecycle
<1>8. FirstHashKept'
  BY <1>1, <1>2, <1>3 DEF IInv, FirstHashKept, Lifecycle
<1>9. PassedIsEvidence'
  BY <1>2 DEF IInv, PassedIsEvidence, Eligible
<1> QED  BY <1>4, <1>5, <1>6, <1>7, <1>8, <1>9 DEF IInv

LEMMA SettlingSteps ==
  ASSUME IInv, \A v, w \in Workers : v = w, NEW w \in Workers,
         Release(w) \/ Charge(w) \/ ChargeViolation(w)
  PROVE  IInv'
<1>1. worker[w].pc \in {"settling", "authorized"} /\ job.cost \in Nat /\ Estimate[Full] \in Nat
  BY SettlesItsRow, CostAssumption DEF Release, Charge, ChargeViolation, At, IInv, TypeOK, Jobs
<1>2. CASE Release(w)
  BY <1>1, <1>2, SettleStep DEF Release
<1>3. CASE Charge(w)
  BY <1>1, <1>3, SettleStep DEF Charge, At
<1>4. CASE ChargeViolation(w)
  BY <1>1, <1>4, SettleStep DEF ChargeViolation
<1> QED  BY <1>2, <1>3, <1>4

----------------------------------------------------------------------------
(* The outputs come in once the row is charged.                             *)
LEMMA SyncStep ==
  ASSUME IInv, \A v, w \in Workers : v = w, NEW w \in Workers, Sync(w)
  PROVE  IInv'
<1>1. /\ TypeOK /\ worker[w].pc = "charged" /\ worker[w].pc \in Bound
      /\ job.status = "succeeded" /\ UNCHANGED <<approvals, budget, runs, status, job>>
      /\ output' \in Contents
  BY DEF Sync, At, Bound, PCs, IInv, ProductExists
<1>2. worker[w].event \in Lifecycle /\ Row(w).status = "CHARGED"
  BY <1>1 DEF IInv, HandlerInv, Paid
<1>3. /\ worker' \in [Workers -> Handlers]
      /\ \A v \in Workers : worker'[v].event = NoEvent
                              <=> worker'[v].pc \in {"idle", "gated", "reserving"}
      /\ HandlerInv(w)'
  <2>1. CASE Goto(w, "synced")
    <3>1. "synced" \in PCs /\ "synced" \in Bound
      BY DEF PCs, Bound
    <3>2. /\ worker'[w].pc = "synced" /\ worker'[w].event = worker[w].event
          /\ worker' \in [Workers -> Handlers]
          /\ \A v \in Workers : worker'[v].event = NoEvent
                                  <=> worker'[v].pc \in {"idle", "gated", "reserving"}
      BY <1>1, <2>1, <3>1, GotoFacts
    <3>3. HandlerInv(w)'
      BY <1>1, <1>2, <3>2 DEF HandlerInv, Row, Ended, Lifecycle
    <3> QED  BY <3>2, <3>3
  <2>2. CASE UNCHANGED worker
    <3>1. HandlerInv(w)'
      BY <1>1, <1>2, <2>2 DEF HandlerInv, Row, Ended, Lifecycle
    <3> QED  BY <1>1, <2>2, <3>1 DEF TypeOK, Handlers
  <2> QED  BY <2>1, <2>2 DEF Sync
<1>4. TypeOK' /\ BudgetOK' /\ ProductExists'
  BY <1>1, <1>3 DEF IInv, TypeOK, StoreTypeOK, BudgetOK, WithinCostLimit, Spent, Coins,
                    ProductExists, Handlers, Files
<1>5. OneOpen' /\ PassedIsEvidence'
  BY <1>1 DEF IInv, OneOpen, Lifecycle, PassedIsEvidence, Eligible
<1>6. FirstHashKept'
  BY <1>1, <1>2 DEF IInv, FirstHashKept, Lifecycle
<1> QED  BY <1>3, <1>4, <1>5, <1>6 DEF IInv

(* The outputs of the job differ from the first hash, which was no file.    *)
LEMMA FinalizeStep ==
  ASSUME IInv, \A v, w \in Workers : v = w, NEW w \in Workers, Finalize(w)
  PROVE  IInv'
<1> DEFINE fresh == job.status = "succeeded" /\ Fresh(w)
           r == [worker[w] EXCEPT !.pc = "verified", !.verified = fresh]
<1>1. /\ TypeOK /\ UNCHANGED <<storeVars, job>> /\ worker' = [worker EXCEPT ![w] = r]
      /\ Row(w).status = "CHARGED"
  BY DEF IInv, Finalize
<1>2. /\ worker[w].pc \in {"charged", "synced"}
      /\ worker[w].pc = "charged" => job.status # "succeeded"
      /\ worker[w].pc \in Bound /\ worker[w].pc \in Paid
  BY DEF Finalize, ReadyToFinalize, At, Bound, PCs, Paid
<1>3. /\ worker[w].event \in Lifecycle /\ job.status \in Ended
      /\ job.status = "succeeded" => output \in Contents
  BY <1>2 DEF IInv, HandlerInv
<1>4. job.status = "succeeded" => fresh
  BY <1>3, ContentsAssumption DEF IInv, FirstHashKept, Fresh, Row
<1>5. fresh \in BOOLEAN
  OBVIOUS
<1> HIDE DEF fresh
<1>6. /\ r \in Handlers /\ r.pc = "verified" /\ r.event = worker[w].event /\ r.verified = fresh
      /\ "verified" \in Bound /\ r.event # NoEvent
  BY <1>1, <1>2, <1>5, WorkerTypes DEF Handlers, PCs, Bound
<1> HIDE DEF r
<1>7. /\ worker'[w] = r /\ worker' \in [Workers -> Handlers]
      /\ \A v \in Workers : worker'[v].event = NoEvent
                              <=> worker'[v].pc \in {"idle", "gated", "reserving"}
  BY <1>1, <1>6, MovesTo
<1>8. HandlerInv(w)'
  BY <1>1, <1>3, <1>4, <1>6, <1>7 DEF HandlerInv, Lifecycle, storeVars, Row
<1> QED  BY <1>1, <1>7, <1>8, QuietStep

LEMMA AuthorizeRecordStep ==
  ASSUME IInv, \A v, w \in Workers : v = w, NEW w \in Workers, AuthorizeRecord(w)
  PROVE  IInv'
<1> DEFINE metrics == IF job.status = "succeeded" THEN output ELSE Missing
           r == [worker[w] EXCEPT !.pc = "recording", !.metrics = metrics]
<1>1. /\ TypeOK /\ UNCHANGED <<storeVars, job>> /\ worker[w].pc = "verified"
      /\ worker[w].pc \in Bound /\ worker[w].pc \in Paid
  BY DEF IInv, AuthorizeRecord, At, Bound, PCs, Paid
<1>2. CASE Return(w)
  BY <1>1, <1>2, ReturnStep
<1>3. CASE worker' = [worker EXCEPT ![w] = r]
  <2>1. /\ worker[w].event \in Lifecycle /\ job.status \in Ended /\ Row(w).status = "CHARGED"
        /\ job.status = "succeeded" => worker[w].verified /\ output \in Contents
    BY <1>1 DEF IInv, HandlerInv
  <2>2. metrics \in Files
    BY <1>1 DEF TypeOK, StoreTypeOK, Files
  <2>3. job.status = "succeeded" => metrics = output
    OBVIOUS
  <2> HIDE DEF metrics
  <2>4. /\ r \in Handlers /\ r.pc = "recording" /\ r.event = worker[w].event
        /\ r.verified = worker[w].verified /\ r.metrics = metrics
        /\ "recording" \in Bound /\ r.event # NoEvent
    BY <1>1, <2>2, WorkerTypes DEF Handlers, PCs, Bound
  <2> HIDE DEF r
  <2>5. /\ worker'[w] = r /\ worker' \in [Workers -> Handlers]
        /\ \A v \in Workers : worker'[v].event = NoEvent
                                <=> worker'[v].pc \in {"idle", "gated", "reserving"}
    BY <1>1, <1>3, <2>4, MovesTo
  <2>6. HandlerInv(w)'
    BY <1>1, <2>1, <2>3, <2>4, <2>5 DEF HandlerInv, Lifecycle, storeVars, Row
  <2> QED  BY <1>1, <2>5, <2>6, QuietStep
<1> QED  BY <1>2, <1>3 DEF AuthorizeRecord

(* What passes was verified, and has the fetched outputs as its metrics.    *)
LEMMA RecordStep ==
  ASSUME IInv, \A v, w \in Workers : v = w, NEW w \in Workers, Record(w)
  PROVE  IInv'
<1> DEFINE e == worker[w].event
           run == [status |-> IF job.status = "succeeded" THEN "PASSED" ELSE "FAILED",
                   stage |-> Full, verified |-> worker[w].verified,
                   metrics |-> worker[w].metrics]
<1>1. /\ TypeOK /\ worker[w].pc = "recording" /\ worker[w].pc \in Bound /\ Return(w)
      /\ runs' = [runs EXCEPT ![e] = run] /\ InsertRun(e, run)
      /\ UNCHANGED <<approvals, budget, output, job>>
  BY DEF IInv, Record, InsertRun, At, Bound, PCs
<1>2. /\ e \in Events /\ worker[w] \in Handlers
      /\ job.status = "succeeded" =>
           worker[w].verified /\ worker[w].metrics \in Contents
  BY <1>1, WorkerTypes DEF IInv, HandlerInv
<1>3. /\ run \in RunRows /\ run.stage = Full /\ run.status \in {"PASSED", "FAILED"}
      /\ run.status = "PASSED" => Eligible(run)
  BY <1>2, ContentsAssumption
     DEF RunRows, Handlers, Eligible, Full, FullExperiment, Stages, StaticCheck
<1> HIDE DEF run
<1>4. runs'[e] = run /\ runs' \in [Events -> RunRows]
      /\ \A d \in Events \ {e} : runs'[d] = runs[d]
  BY <1>1, <1>2, <1>3 DEF TypeOK, StoreTypeOK
<1>5. status' \in {"PASSED", "FAILED", "RUNNING"}
  BY <1>1, <1>3 DEF InsertRun
<1>6. /\ HandlerInv(w)' /\ worker' \in [Workers -> Handlers]
      /\ \A v \in Workers : worker'[v].event = NoEvent
                              <=> worker'[v].pc \in {"idle", "gated", "reserving"}
  BY <1>1, ReturnFacts, IdleHandler
<1>7. TypeOK' /\ BudgetOK' /\ ProductExists'
  BY <1>1, <1>4, <1>5, <1>6 DEF IInv, TypeOK, StoreTypeOK, BudgetOK, WithinCostLimit, Spent,
                                Coins, ProductExists, Handlers
<1>8. OneOpen' /\ FirstHashKept'
  BY <1>1 DEF IInv, OneOpen, FirstHashKept, Lifecycle
<1>9. PassedIsEvidence'
  BY <1>3, <1>4 DEF IInv, PassedIsEvidence, Eligible
<1> QED  BY <1>6, <1>7, <1>8, <1>9 DEF IInv

(* The job ends on its own while the handler waits for it or is gone.       *)
LEMMA JobEndsStep ==
  ASSUME IInv, NEW result \in {"succeeded", "failed"}, NEW file \in Files,
         NEW cost \in 0..(CostLimit + 1), result = "succeeded" => file \in Contents,
         JobEnds(result, file, cost)
  PROVE  IInv'
<1>1. /\ job.status = "running" /\ job'.status = result /\ job'.product = file
      /\ job' \in Jobs /\ UNCHANGED <<storeVars, worker>>
  BY DEF JobEnds, Jobs
<1>2. TypeOK' /\ BudgetOK' /\ ProductExists'
  BY <1>1 DEF IInv, TypeOK, StoreTypeOK, storeVars, BudgetOK, WithinCostLimit, Spent, Coins,
              ProductExists
<1>3. OneOpen' /\ FirstHashKept' /\ PassedIsEvidence'
  BY <1>1 DEF IInv, OneOpen, FirstHashKept, PassedIsEvidence, Lifecycle, Eligible, storeVars
<1>4. ASSUME NEW w \in Workers PROVE HandlerInv(w)'
  <2>1. HandlerInv(w) /\ job.status \notin Ended
    BY <1>1 DEF IInv, Ended
  <2>2. worker[w].pc \notin {"terminal", "authorized"} \cup Paid
    BY <2>1 DEF HandlerInv
  <2> QED  BY <1>1, <2>1, <2>2 DEF HandlerInv, Paid, Row, Lifecycle, NoLiveRow, storeVars
<1> QED  BY <1>2, <1>3, <1>4 DEF IInv

LEMMA ApproveStep ==
  ASSUME IInv, NEW scope \in Scopes, Approve(scope)
  PROVE  IInv'
<1>1. /\ UNCHANGED <<budget, runs, output, worker, job>> /\ status' = "APPROVED"
      /\ approvals' \in [Scopes -> {"ABSENT", "APPROVED", "SUPERSEDED"}]
  BY DEF Approve, ApproveRow, IInv, TypeOK, StoreTypeOK
<1>2. TypeOK' /\ BudgetOK' /\ ProductExists'
  BY <1>1 DEF IInv, TypeOK, StoreTypeOK, BudgetOK, WithinCostLimit, Spent, Coins, ProductExists
<1>3. OneOpen' /\ FirstHashKept' /\ PassedIsEvidence'
  BY <1>1 DEF IInv, OneOpen, FirstHashKept, PassedIsEvidence, Lifecycle, Eligible
<1>4. \A w \in Workers : HandlerInv(w)'
  BY <1>1 DEF IInv, HandlerInv, Paid, Row, Lifecycle, NoLiveRow
<1> QED  BY <1>2, <1>3, <1>4 DEF IInv

(* The rows of the first two stages are two charges within the limit.       *)
LEMMA InitIInv == Init => IInv
<1> SUFFICES ASSUME Init PROVE IInv
  OBVIOUS
<1>1. PICK first \in Events, second \in Events :
        LET stage == [e \in {first, second} |->
                        IF e = first THEN StaticCheck ELSE MiniExperiment]
        IN /\ first # second
           /\ budget = [e \in Events |->
                  IF e \notin {first, second} THEN NoBudget
                  ELSE [NoBudget EXCEPT !.status = "CHARGED", !.stage = stage[e],
                                        !.amount = Estimate[stage[e]]]]
           /\ runs = [e \in Events |->
                  IF e \notin {first, second} THEN NoRun
                  ELSE [NoRun EXCEPT !.status = "PASSED", !.stage = stage[e],
                                     !.verified = TRUE]]
  BY DEF Init
<1>2. /\ StaticCheck \in Stages /\ MiniExperiment \in Stages /\ MiniExperiment # Full
      /\ StaticCheck # Full /\ Full \in Stages
      /\ Estimate[StaticCheck] \in Nat /\ Estimate[MiniExperiment] \in Nat
  BY CostAssumption DEF Stages, StaticCheck, MiniExperiment, FullExperiment, Full
<1>3. \A e \in Events :
        /\ budget[e] \in BudgetRows /\ ~ budget[e].lifecycle
        /\ budget[e].status \in Live => e \in {first, second}
        /\ runs[e] \in RunRows /\ (runs[e].stage = Full => runs[e].status = "ABSENT")
  BY <1>1, <1>2 DEF NoBudget, NoRun, BudgetRows, RunRows, Files, Live
<1>4. /\ budget[first].amount = Estimate[StaticCheck]
      /\ budget[second].amount = Estimate[MiniExperiment]
  BY <1>1 DEF NoBudget
<1>5. budget \in [Events -> BudgetRows] /\ runs \in [Events -> RunRows]
  BY <1>1, <1>3
<1>6. TypeOK
  <2>1. StoreTypeOK
    <3>1. /\ approvals = [s \in Scopes |-> IF Full \in s THEN "APPROVED" ELSE "ABSENT"]
          /\ status = "RUNNING" /\ output = Missing
      BY DEF Init
    <3> QED  BY <1>5, <3>1 DEF StoreTypeOK, Files
  <2>2. worker \in [Workers -> Handlers] /\ job \in Jobs
        /\ \A w \in Workers : worker[w].pc = "idle" /\ worker[w].event = NoEvent
    <3>1. Idle \in Handlers /\ Idle.pc = "idle" /\ Idle.event = NoEvent
      BY DEF Idle, Handlers, PCs, Files
    <3>2. /\ worker = [w \in Workers |-> Idle]
          /\ job = [status |-> "none", product |-> Missing, cost |-> 0]
      BY DEF Init
    <3>3. job \in Jobs
      BY <3>2, CostAssumption DEF Jobs, Files
    <3> QED  BY <3>1, <3>2, <3>3, Zenon
  <2> QED  BY <2>1, <2>2 DEF TypeOK, Handlers
<1>7. BudgetOK
  <2> DEFINE one == {first} \X (1..Estimate[StaticCheck])
             two == {second} \X (1..Estimate[MiniExperiment])
  <2>1. Coins(budget) \subseteq one \cup two
    <3>1. \A c \in Coins(budget) : \E e \in Events :
            budget[e].status \in Live /\ c \in {e} \X (1..budget[e].amount)
      BY DEF Coins
    <3> QED  BY <3>1, <1>3, <1>4
  <2>2. IsFiniteSet(one) /\ IsFiniteSet(two)
    BY <1>2, UnitsOfOneRow
  <2> HIDE DEF one, two
  <2>3. IsFiniteSet(Coins(budget))
    BY <2>1, <2>2, FS_Union, FS_Subset
  <2> QED  BY <2>3 DEF Init, BudgetOK
<1>8. Lifecycle = {}
  BY <1>3 DEF Lifecycle
<1>9. \A w \in Workers : HandlerInv(w)
  BY DEF Init, Idle, HandlerInv, Bound, Paid
<1>10. OneOpen /\ FirstHashKept /\ ProductExists /\ PassedIsEvidence
  BY <1>3, <1>8 DEF Init, OneOpen, FirstHashKept, ProductExists, PassedIsEvidence
<1> QED  BY <1>6, <1>7, <1>9, <1>10 DEF IInv

LEMMA NextIInv ==
  ASSUME IInv, \A v, w \in Workers : v = w, [Next]_vars
  PROVE  IInv'
<1>1. CASE UNCHANGED vars
  BY <1>1 DEF vars, storeVars, IInv, TypeOK, StoreTypeOK, BudgetOK, WithinCostLimit, Spent,
     Coins, HandlerInv, Paid, Row, Lifecycle, NoLiveRow, OneOpen, FirstHashKept, ProductExists,
     PassedIsEvidence, Eligible
<1>2. ASSUME NEW w \in Workers,
             \/ Refuse(w) \/ BlockedBeforeReserve(w) \/ ReserveRefused(w)
             \/ LeaveReserved(w) \/ SyncFails(w)
             \/ FinalizeAgain(w) \/ Crash(w)
      PROVE  IInv'
  <2>1. UNCHANGED <<storeVars, job>> /\ Return(w)
    BY <1>2 DEF Refuse, BlockedBeforeReserve, ReserveRefused, LeaveReserved, SyncFails,
                FinalizeAgain, Crash
  <2> QED  BY <2>1, ReturnStep
<1>3. ASSUME NEW w \in Workers,
             \/ Gate(w) \/ ReadRows(w) \/ \E e \in Events : Reuse(w, e) \/ Reserve(w, e)
      PROVE  IInv'
  BY <1>3, GateStep, ReadRowsStep, ReuseStep, ReserveStep
<1>4. ASSUME NEW w \in Workers,
             \/ Status(w)
             \/ \E after \in {"running", "succeeded", "failed"} : Submit(w, after)
             \/ \E launched \in BOOLEAN : SubmitRaises(w, launched)
             \/ ReleaseRead(w) \/ Recharge(w) \/ AuthorizeCharge(w)
      PROVE  IInv'
  BY <1>4, StatusStep, SubmitStep, SubmitRaisesStep, ReleaseReadStep, RechargeStep,
     AuthorizeChargeStep
<1>5. ASSUME NEW w \in Workers, Release(w) \/ Charge(w) \/ ChargeViolation(w)
      PROVE  IInv'
  BY <1>5, SettlingSteps
<1>6. ASSUME NEW w \in Workers, Sync(w) \/ Finalize(w) \/ AuthorizeRecord(w) \/ Record(w)
      PROVE  IInv'
  BY <1>6, SyncStep, FinalizeStep, AuthorizeRecordStep, RecordStep
<1>7. ASSUME NEW cost \in 0..(CostLimit + 1),
             \/ \E file \in Contents : JobEnds("succeeded", file, cost)
             \/ JobEnds("failed", Missing, cost)
      PROVE  IInv'
  BY <1>7, JobEndsStep DEF Files
<1>8. ASSUME NEW scope \in Scopes, Approve(scope) PROVE IInv'
  BY <1>8, ApproveStep
<1> QED  BY <1>1, <1>2, <1>3, <1>4, <1>5, <1>6, <1>7, <1>8 DEF Next

----------------------------------------------------------------------------
(* The invariant holds with one handler at a time.                          *)
THEOREM OneHandler ==
  ASSUME \A v, w \in Workers : v = w
  PROVE  Spec => []IInv
<1>1. IInv /\ [Next]_vars => IInv'
  BY NextIInv
<1> QED  BY <1>1, InitIInv, PTL DEF Spec

(* Every variable keeps its type, and every handler past its reservation    *)
(* knows the row it holds.                                                  *)
THEOREM Typed ==
  ASSUME \A v, w \in Workers : v = w
  PROVE  Spec => []TypeOK
<1>1. IInv => TypeOK
  BY DEF IInv
<1> QED  BY <1>1, OneHandler, PTL

(* Whatever is killed and resumed, the rows of the lifecycle never count    *)
(* for more than the approved limit (_reserve_budget, _settle_budget).      *)
THEOREM RemoteWithinLimit ==
  ASSUME \A v, w \in Workers : v = w
  PROVE  Spec => []WithinCostLimit
<1>1. IInv => WithinCostLimit
  BY DEF IInv, BudgetOK
<1> QED  BY <1>1, OneHandler, PTL

(* The remote job is charged once, because at most one row of its lifecycle *)
(* is open (reserve_backend_stage takes a live row up again).               *)
THEOREM PaidOnce ==
  ASSUME \A v, w \in Workers : v = w
  PROVE  Spec => []JobPaidOnce
<1>1. IInv => JobPaidOnce
  BY DEF IInv, OneOpen, Open, JobPaidOnce
<1> QED  BY <1>1, OneHandler, PTL

(* A full run recorded as passed is eligible evidence: the hash of the      *)
(* output before the lifecycle's first reservation was kept.                *)
THEOREM PassedCounts ==
  ASSUME \A v, w \in Workers : v = w
  PROVE  Spec => []PassedIsEvidence
<1>1. IInv => PassedIsEvidence
  BY DEF IInv
<1> QED  BY <1>1, OneHandler, PTL

(* The outputs come in, and a run is recorded, only while a row of the      *)
(* lifecycle is charged.                                                    *)
THEOREM PaidBeforeHandled ==
  ASSUME \A v, w \in Workers : v = w
  PROVE  Spec => ArtifactsArePaid
<1> DEFINE Handled == /\ output' # output => \E e \in Lifecycle : budget[e].status = "CHARGED"
                      /\ \A e \in Lifecycle : runs'[e] # runs[e] => budget[e].status = "CHARGED"
<1>1. ASSUME IInv, [Next]_vars PROVE [Handled]_vars
  <2>1. ASSUME NEW w \in Workers, Sync(w) PROVE Handled
    <3>1. worker[w].pc = "charged" /\ runs' = runs
      BY <2>1 DEF Sync, At
    <3>2. worker[w].pc \in Bound /\ worker[w].pc \in Paid
      BY <3>1 DEF Paid, Bound, PCs
    <3>3. worker[w].event \in Lifecycle /\ Row(w).status = "CHARGED"
      BY <1>1, <3>2 DEF IInv, HandlerInv
    <3> QED  BY <3>1, <3>3 DEF Row
  <2>2. ASSUME NEW w \in Workers, Record(w) PROVE Handled
    <3> DEFINE run == [status |-> IF job.status = "succeeded" THEN "PASSED" ELSE "FAILED",
                       stage |-> Full, verified |-> worker[w].verified,
                       metrics |-> worker[w].metrics]
    <3>1. /\ worker[w].pc = "recording" /\ worker[w].pc \in Paid /\ output' = output
          /\ runs' = [runs EXCEPT ![worker[w].event] = run]
      BY <2>2 DEF Record, InsertRun, At, Paid
    <3>2. Row(w).status = "CHARGED"
      BY <1>1, <3>1 DEF IInv, HandlerInv
    <3> HIDE DEF run
    <3>3. \A e \in Events : runs'[e] # runs[e] => e = worker[w].event
      BY <1>1, <3>1 DEF IInv, TypeOK, StoreTypeOK
    <3> QED  BY <3>1, <3>2, <3>3 DEF Row, Lifecycle
  <2>3. CASE \/ UNCHANGED vars
             \/ \E w \in Workers :
                  \/ Gate(w) \/ Refuse(w) \/ BlockedBeforeReserve(w) \/ ReadRows(w) \/ ReserveRefused(w)
                  \/ \E e \in Events : Reuse(w, e) \/ Reserve(w, e)
                  \/ Status(w) \/ LeaveReserved(w)
                  \/ \E after \in {"running", "succeeded", "failed"} : Submit(w, after)
                  \/ \E launched \in BOOLEAN : SubmitRaises(w, launched)
                  \/ ReleaseRead(w) \/ Release(w)
                  \/ Recharge(w) \/ AuthorizeCharge(w) \/ Charge(w) \/ ChargeViolation(w)
                  \/ SyncFails(w) \/ FinalizeAgain(w) \/ Finalize(w) \/ AuthorizeRecord(w)
                  \/ Crash(w)
             \/ \E file \in Contents, cost \in 0..(CostLimit + 1) : JobEnds("succeeded", file, cost)
             \/ \E cost \in 0..(CostLimit + 1) : JobEnds("failed", Missing, cost)
             \/ \E scope \in Scopes : Approve(scope)
    <3>1. output' = output /\ runs' = runs
      BY <2>3 DEF vars, storeVars, Gate, Refuse, BlockedBeforeReserve, ReadRows, ReserveRefused,
         Reuse, Reserve,
         ReserveRow, Status, LeaveReserved, Submit, SubmitRaises, ReleaseRead, Release,
         SettleRow, Recharge, AuthorizeCharge, Charge, ChargeViolation, SyncFails,
         FinalizeAgain, Finalize, AuthorizeRecord, Crash, JobEnds, Approve, ApproveRow
    <3> QED  BY <3>1
  <2> QED  BY <1>1, <2>1, <2>2, <2>3 DEF Next
<1> QED  BY <1>1, OneHandler, PTL DEF Spec, ArtifactsArePaid

(* The budget of the remote path keeps the promise of BudgetLedger: only a   *)
(* reserved row is settled, once, and for no more than was reserved.        *)
THEOREM RemoteKeepsLedger ==
  ASSUME \A v, w \in Workers : v = w
  PROVE  Spec => LedgerSteps
<1>1. ASSUME IInv, [Next]_vars PROVE [Ledger!Next]_budget
  <2>1. BudgetTypeOK /\ BudgetOK
    BY <1>1 DEF IInv, TypeOK, StoreTypeOK, BudgetTypeOK
  <2>2. ASSUME NEW w \in Workers, NEW e \in Events, Reserve(w, e) PROVE Ledger!Next
    <3>1. Full \in Stages
      BY DEF Full, Stages, StaticCheck, FullExperiment
    <3> QED  BY <2>1, <2>2, <3>1, ReserveIsLedgerStep DEF Reserve
  <2>3. ASSUME NEW w \in Workers, Release(w) \/ Charge(w) \/ ChargeViolation(w)
        PROVE  Ledger!Next
    <3>1. worker[w].pc \in {"settling", "authorized"} /\ job.cost \in Nat
      BY <1>1, <2>3, CostAssumption DEF Release, Charge, ChargeViolation, At, IInv, TypeOK, Jobs
    <3>2. /\ worker[w].event \in Events /\ budget[worker[w].event].status = "RESERVED"
          /\ budget[worker[w].event].amount = Estimate[Full] /\ Estimate[Full] \in Nat
      BY <1>1, <3>1, SettlesItsRow DEF Row
    <3>3. CASE Release(w)
      BY <2>1, <3>2, <3>3, SettleIsLedgerStep DEF Release
    <3>4. CASE Charge(w)
      BY <2>1, <3>1, <3>2, <3>4, SettleIsLedgerStep DEF Charge
    <3>5. CASE ChargeViolation(w)
      BY <2>1, <3>2, <3>5, SettleIsLedgerStep DEF ChargeViolation
    <3> QED  BY <2>3, <3>3, <3>4, <3>5
  <2>4. CASE UNCHANGED vars
    BY <2>4 DEF vars, storeVars
  <2>5. ASSUME NEW w \in Workers,
               \/ Gate(w) \/ Refuse(w) \/ BlockedBeforeReserve(w) \/ ReadRows(w) \/ ReserveRefused(w)
               \/ \E e \in Events : Reuse(w, e)
               \/ Status(w) \/ LeaveReserved(w)
               \/ \E after \in {"running", "succeeded", "failed"} : Submit(w, after)
               \/ \E launched \in BOOLEAN : SubmitRaises(w, launched)
               \/ ReleaseRead(w) \/ Recharge(w) \/ AuthorizeCharge(w)
               \/ Sync(w) \/ SyncFails(w) \/ FinalizeAgain(w) \/ Finalize(w)
               \/ AuthorizeRecord(w) \/ Record(w) \/ Crash(w)
        PROVE  budget' = budget
    BY <2>5 DEF storeVars, Gate, Refuse, BlockedBeforeReserve, ReadRows, ReserveRefused, Reuse,
       Status, LeaveReserved,
       Submit, SubmitRaises, ReleaseRead, Recharge, AuthorizeCharge, Sync, SyncFails,
       FinalizeAgain, Finalize, AuthorizeRecord, Record, InsertRun, Crash
  <2>6. CASE \/ \E file \in Contents, cost \in 0..(CostLimit + 1) : JobEnds("succeeded", file, cost)
             \/ \E cost \in 0..(CostLimit + 1) : JobEnds("failed", Missing, cost)
             \/ \E scope \in Scopes : Approve(scope)
    BY <2>6 DEF JobEnds, Approve, ApproveRow, storeVars
  <2> QED  BY <1>1, <2>2, <2>3, <2>4, <2>5, <2>6 DEF Next
<1> QED  BY <1>1, OneHandler, PTL DEF Spec, LedgerSteps

----------------------------------------------------------------------------
(* The files behind the stage.  Every step of StageFiles is one of the        *)
(* handler, of the job or of the owner in BackendStage, or moves files alone; *)
(* what is proved of the handler above therefore holds of the two together.   *)
LEMMA FilesImplementStep == [FilesNext]_filesVars => [Next]_vars
<1> SUFFICES ASSUME [FilesNext]_filesVars PROVE [Next]_vars
  OBVIOUS
<1>1. ASSUME NEW w \in Workers,
             \/ HashWorktree(w) \/ MaterializeSnapshot(w) \/ VerifyBinding(w) \/ Bundle(w)
             \/ ApplySourcePod(w) \/ Extracts(w) \/ PrepareAttempt(w) \/ StartDownload(w)
             \/ Fetched(w) \/ CopyAttempt(w) \/ \E o \in Outputs : FetchOne(w, o)
      PROVE  UNCHANGED vars
  BY <1>1 DEF HashWorktree, MaterializeSnapshot, VerifyBinding, Bundle, ApplySourcePod,
     Extracts, PrepareAttempt, StartDownload, Fetched, CopyAttempt, FetchOne
<1>2. ASSUME NEW w \in Workers,
             \/ GateBound(w) \/ BindingChanged(w) \/ StagingFails(w) \/ StagingTimesOut(w)
             \/ PrepareFails(w) \/ LaunchJob(w) \/ LaunchFails(w) \/ FetchFails(w)
             \/ CopyFails(w) \/ Synced(w) \/ Kill(w) \/ \E o \in Outputs : CopyOne(w, o)
      PROVE  [Next]_vars
  BY <1>2 DEF GateBound, BindingChanged, StagingFails, StagingTimesOut, PrepareFails, LaunchJob,
     LaunchFails, FetchFails, CopyFails, Synced, Kill, CopyOne, Next
<1>3. ASSUME NEW w \in Workers, Carry(w) PROVE Next
  BY <1>3 DEF Carry, HandlerStep, Next
<1>4. CASE StrayExtracts \/ EditWorktree \/ ClearSnapshots \/ UNCHANGED filesVars
  BY <1>4 DEF StrayExtracts, EditWorktree, ClearSnapshots, filesVars
<1>5. CASE JobEndsRemotely \/ ApproveAgain
  BY <1>5 DEF JobEndsRemotely, ApproveAgain, Next
<1> QED  BY <1>1, <1>2, <1>3, <1>4, <1>5 DEF FilesNext

(* With its files, the remote stage is still the handler of BackendStage.    *)
THEOREM FilesImplementHandler == FilesSpec => Spec
<1>1. FilesInit => Init
  BY DEF FilesInit
<1> QED  BY <1>1, FilesImplementStep, PTL DEF FilesSpec, Spec

----------------------------------------------------------------------------
(* A verified binding stands on an approved snapshot, which nobody clears     *)
(* away under a handler; and what a handler placed over there is approved,    *)
(* unless an extraction that was given up is still at work.                  *)
Alone == \A v, w \in Workers : v = w

SourceInv(w) ==
  /\ On(w, "verified") => snapshot = "approved"
  /\ On(w, "placed") /\ ~stray => remote = "approved"

Handling(w) == worker[w].pc \in {"synced", "verified", "recording"} /\ job.status = "succeeded"

(* What is fetched and copied belongs to a job that succeeded; nothing is     *)
(* missing from what was staged and copied together, and when the handler     *)
(* goes on all of it has come and no download is left behind.                *)
OutputsInv(w) ==
  /\ On(w, "fetching") \/ On(w, "copying") =>
       worker[w].pc = "charged" /\ job.status = "succeeded"
  /\ On(w, "fetching") => Uploads
  /\ On(w, "copying") => Outputs \subseteq desk[w].staged \cup copied
  /\ On(w, "copying") \/ Handling(w) => download = {} /\ "artifact" \notin pods
  /\ Handling(w) => copied = Outputs

FilesInv == /\ FilesTypeOK
            /\ ~Uploads => download = {} /\ "artifact" \notin pods
            /\ \A w \in Workers : SourceInv(w) /\ OutputsInv(w)

Desks == [pc : Steps, staged : SUBSET Outputs]

LEMMA InitFiles == FilesInit => FilesInv
<1> SUFFICES ASSUME FilesInit PROVE FilesInv
  OBVIOUS
<1>1. FilesTypeOK
  BY DEF FilesInit, FilesTypeOK, Clear, Steps, Trees
<1>2. \A w \in Workers : desk[w].pc = "none" /\ worker[w].pc = "idle"
  BY DEF FilesInit, Init, Clear, Idle
<1> QED  BY <1>1, <1>2 DEF FilesInit, FilesInv, SourceInv, OutputsInv, Handling, On

(* The files of the only handler move to another record of its call.        *)
LEMMA DeskTo ==
  ASSUME FilesTypeOK, NEW w \in Workers, NEW d \in Desks, desk' = [desk EXCEPT ![w] = d]
  PROVE  desk'[w] = d /\ desk' \in [Workers -> Desks]
BY DEF FilesTypeOK, Desks

LEMMA MoveFacts ==
  ASSUME FilesTypeOK, NEW w \in Workers, NEW step \in Steps, Move(w, step)
  PROVE  /\ desk'[w].pc = step /\ desk'[w].staged = desk[w].staged
         /\ desk' \in [Workers -> Desks]
<1> DEFINE d == [desk[w] EXCEPT !.pc = step]
<1>1. d \in Desks /\ d.pc = step /\ d.staged = desk[w].staged
  BY DEF FilesTypeOK, Desks
<1>2. desk' = [desk EXCEPT ![w] = d]
  BY DEF Move
<1> HIDE DEF d
<1> QED  BY <1>1, <1>2, DeskTo

LEMMA DropFacts ==
  ASSUME FilesTypeOK, NEW w \in Workers, Drop(w)
  PROVE  desk'[w].pc = "none" /\ desk' \in [Workers -> Desks]
<1>1. Clear \in Desks /\ Clear.pc = "none"
  BY DEF Clear, Desks, Steps
<1> HIDE DEF Clear
<1> QED  BY <1>1, DeskTo DEF Drop

(* Nothing of an end of the handler is left on its desk.                    *)
LEMMA DroppedStep ==
  ASSUME Alone, FilesInv, FilesTypeOK', NEW w \in Workers, desk'[w].pc = "none",
         Handling(w)' => /\ copied' = Outputs /\ download' = {} /\ "artifact" \notin pods',
         kind' = kind,
         ~Uploads => download' = {} /\ "artifact" \notin pods'
  PROVE  FilesInv'
BY DEF Alone, FilesInv, SourceInv, OutputsInv, On, Uploads

(* The binding and the source, on their way to the machine of the job.      *)
LEMMA SourceStep ==
  ASSUME Alone, FilesInv, NEW w \in Workers,
         \/ HashWorktree(w) \/ MaterializeSnapshot(w) \/ VerifyBinding(w) \/ Bundle(w)
         \/ ApplySourcePod(w) \/ Extracts(w) \/ PrepareAttempt(w)
  PROVE  FilesInv'
<1>1. \E step \in {"hashed", "present", "verified", "extracting", "bundled", "placed"} :
        Move(w, step)
  BY DEF HashWorktree, MaterializeSnapshot, VerifyBinding, Bundle, ApplySourcePod, Extracts,
     PrepareAttempt
<1>2. PICK step \in {"hashed", "present", "verified", "extracting", "bundled", "placed"} :
        Move(w, step)
  BY <1>1
<1>3. FilesTypeOK /\ step \in Steps
  BY DEF FilesInv, Steps
<1>4. desk'[w].pc = step /\ desk' \in [Workers -> Desks]
  BY <1>2, <1>3, MoveFacts
<1>5. /\ UNCHANGED <<vars, kind, worktree, ran, stray, download, copied>>
      /\ snapshot' \in Trees /\ remote' \in Trees /\ pods' \subseteq {"source", "artifact"}
      /\ "artifact" \in pods' => "artifact" \in pods
  BY <1>3
  DEF HashWorktree, MaterializeSnapshot, VerifyBinding, Bundle, ApplySourcePod, Extracts,
      PrepareAttempt, FilesTypeOK, Trees
<1>6. FilesTypeOK'
  BY <1>3, <1>4, <1>5 DEF FilesTypeOK, Desks
<1>7. SourceInv(w)'
  <2>1. CASE VerifyBinding(w) \/ PrepareAttempt(w)
    <3>1. snapshot = "approved" /\ snapshot' = snapshot
      BY <2>1 DEF VerifyBinding, SnapshotAgrees, PrepareAttempt, FilesInv, SourceInv
    <3>2. PrepareAttempt(w) => remote' = snapshot
      BY DEF PrepareAttempt
    <3>3. VerifyBinding(w) => desk'[w].pc = "verified"
      BY <1>3, MoveFacts DEF VerifyBinding, Steps
    <3> QED  BY <2>1, <3>1, <3>2, <3>3 DEF SourceInv, On
  <2>2. CASE Extracts(w)
    <3>1. desk'[w].pc = "placed" /\ remote' = "approved"
      BY <1>3, <2>2, MoveFacts DEF Extracts, Steps
    <3> QED  BY <3>1 DEF SourceInv, On
  <2>3. CASE HashWorktree(w) \/ MaterializeSnapshot(w) \/ ApplySourcePod(w)
    <3>1. desk'[w].pc \in {"hashed", "present", "extracting"}
      BY <1>3, <2>3, MoveFacts DEF HashWorktree, MaterializeSnapshot, ApplySourcePod, Steps
    <3> QED  BY <3>1 DEF SourceInv, On
  <2>4. CASE Bundle(w)
    <3>1. desk'[w].pc \in {"extracting", "bundled"}
      BY <1>3, <2>4, MoveFacts DEF Bundle, Steps
    <3> QED  BY <3>1 DEF SourceInv, On
  <2> QED  BY <2>1, <2>2, <2>3, <2>4
<1>8. OutputsInv(w)'
  BY <1>2, <1>4, <1>5 DEF FilesInv, OutputsInv, Handling, On, vars
<1> QED
  BY <1>5, <1>6, <1>7, <1>8 DEF Alone, FilesInv, Uploads

(* The outputs, on their way into the workspace.                            *)
LEMMA DownloadStep ==
  ASSUME Alone, FilesInv, NEW w \in Workers,
         \/ StartDownload(w) \/ Fetched(w) \/ CopyAttempt(w)
         \/ \E o \in Outputs : FetchOne(w, o)
  PROVE  FilesInv'
<1>1. FilesTypeOK /\ desk[w] \in Desks
  BY DEF FilesInv, FilesTypeOK, Desks
<1>2. UNCHANGED <<vars, kind, worktree, snapshot, remote, ran, stray, copied>>
  BY DEF StartDownload, Fetched, CopyAttempt, FetchOne
<1>3. CASE StartDownload(w)
  <2>1. desk'[w].pc = "fetching" /\ desk' \in [Workers -> Desks]
    BY <1>1, <1>3, MoveFacts DEF StartDownload, Steps
  <2>2. FilesTypeOK'
    BY <1>1, <1>2, <1>3, <2>1 DEF FilesTypeOK, StartDownload, Desks
  <2>3. OutputsInv(w)' /\ SourceInv(w)'
    BY <1>2, <1>3, <2>1 DEF StartDownload, OutputsInv, SourceInv, On, Handling, At, vars,
                            Uploads
  <2> QED  BY <1>2, <1>3, <2>2, <2>3 DEF Alone, FilesInv, Uploads, StartDownload
<1>4. CASE Fetched(w) \/ CopyAttempt(w)
  <2> DEFINE staged == IF Fetched(w) THEN download ELSE Outputs
             d == [pc |-> "copying", staged |-> staged]
  <2>1. staged = Outputs /\ desk' = [desk EXCEPT ![w] = d]
    BY <1>4 DEF Fetched, EachMatches, CopyAttempt
  <2>2. d \in Desks /\ d.pc = "copying" /\ d.staged = Outputs
    BY <2>1 DEF Desks, Steps
  <2> HIDE DEF d, staged
  <2>3. desk'[w].pc = "copying" /\ desk'[w].staged = Outputs /\ desk' \in [Workers -> Desks]
    BY <1>1, <2>1, <2>2, DeskTo
  <2>4. worker[w].pc = "charged" /\ job.status = "succeeded"
    BY <1>4 DEF Fetched, CopyAttempt, At, FilesInv, OutputsInv
  <2>5. download' = {} /\ "artifact" \notin pods' /\ pods' \subseteq pods
    BY <1>4 DEF Fetched, CopyAttempt, FilesInv
  <2>6. FilesTypeOK'
    BY <1>1, <1>2, <2>3, <2>5 DEF FilesTypeOK, Desks
  <2>7. OutputsInv(w)' /\ SourceInv(w)'
    BY <1>2, <2>3, <2>4, <2>5 DEF OutputsInv, SourceInv, On, Handling, vars
  <2> QED  BY <2>5, <2>6, <2>7 DEF Alone, FilesInv
<1>5. ASSUME NEW o \in Outputs, FetchOne(w, o) PROVE FilesInv'
  <2>1. /\ download' = download \cup {o} /\ UNCHANGED <<pods, desk>>
        /\ desk[w].pc = "fetching"
    BY <1>5 DEF FetchOne, On
  <2>2. FilesTypeOK'
    BY <1>1, <1>2, <2>1 DEF FilesTypeOK
  <2>3. OutputsInv(w)' /\ SourceInv(w)'
    BY <1>2, <2>1 DEF FilesInv, OutputsInv, SourceInv, On, Handling, vars, Uploads
  <2> QED  BY <1>2, <2>1, <2>2, <2>3 DEF Alone, FilesInv, OutputsInv, On, Uploads
<1> QED  BY <1>3, <1>4, <1>5

(* The handler copies the outputs, and goes on when none is left.           *)
LEMMA CopyStep ==
  ASSUME Alone, TypeOK, FilesInv, NEW w \in Workers, NEW o \in Outputs, CopyOne(w, o)
  PROVE  FilesInv'
<1> DEFINE d == [desk[w] EXCEPT !.staged = @ \ {o}]
<1>1. FilesTypeOK /\ desk[w] \in Desks /\ desk[w].pc = "copying"
  BY DEF FilesInv, FilesTypeOK, Desks, CopyOne, On
<1>2. d \in Desks /\ d.pc = "copying" /\ d.staged = desk[w].staged \ {o}
  BY <1>1 DEF Desks
<1>3. desk' = [desk EXCEPT ![w] = d]
  BY DEF CopyOne
<1> HIDE DEF d
<1>4. desk'[w].pc = "copying" /\ desk'[w].staged = desk[w].staged \ {o}
      /\ desk' \in [Workers -> Desks]
  BY <1>1, <1>2, <1>3, DeskTo
<1>5. /\ UNCHANGED <<worker, job, kind, worktree, snapshot, remote, ran, stray, pods, download>>
      /\ copied' = copied \cup {o}
  BY DEF CopyOne, Sync, vars
<1>6. FilesTypeOK'
  BY <1>1, <1>4, <1>5 DEF FilesTypeOK, Desks
<1>7. OutputsInv(w)' /\ SourceInv(w)'
  BY <1>1, <1>4, <1>5 DEF FilesInv, OutputsInv, SourceInv, On, Handling
<1> QED  BY <1>5, <1>6, <1>7 DEF Alone, FilesInv, Uploads

LEMMA SyncedStep ==
  ASSUME Alone, TypeOK, FilesInv, NEW w \in Workers, Synced(w)
  PROVE  FilesInv'
<1>1. FilesTypeOK
  BY DEF FilesInv
<1>2. /\ desk[w].pc = "copying" /\ desk[w].staged = {} /\ Drop(w)
      /\ UNCHANGED <<kind, worktree, snapshot, remote, ran, stray, pods, download, copied>>
  BY DEF Synced, On
<1>3. desk'[w].pc = "none" /\ desk' \in [Workers -> Desks]
  BY <1>1, <1>2, DropFacts
<1>4. FilesTypeOK'
  BY <1>1, <1>2, <1>3 DEF FilesTypeOK, Desks
<1>5. copied = Outputs /\ download = {} /\ "artifact" \notin pods
  BY <1>1, <1>2 DEF FilesInv, OutputsInv, On, FilesTypeOK
<1> QED  BY <1>2, <1>3, <1>4, <1>5, DroppedStep DEF Uploads

(* The steps after which nothing is on the desk of the handler: it has begun,  *)
(* launched the job, or is over.                                             *)
LEMMA DroppingStep ==
  ASSUME Alone, TypeOK, FilesInv, NEW w \in Workers,
         \/ GateBound(w) \/ BindingChanged(w) \/ StagingFails(w) \/ StagingTimesOut(w)
         \/ PrepareFails(w) \/ LaunchJob(w) \/ LaunchFails(w) \/ FetchFails(w)
         \/ CopyFails(w) \/ Kill(w)
  PROVE  FilesInv'
<1>1. FilesTypeOK /\ Drop(w)
  BY DEF FilesInv, GateBound, BindingChanged, StagingFails, StagingTimesOut, PrepareFails,
     LaunchJob, LaunchFails, FetchFails, CopyFails, Kill
<1>2. desk'[w].pc = "none" /\ desk' \in [Workers -> Desks]
  BY <1>1, DropFacts
<1>3. /\ UNCHANGED <<kind, worktree, snapshot, copied>>
      /\ remote' \in Trees /\ ran' \in Trees /\ stray' \in BOOLEAN
      /\ pods' \subseteq pods /\ download' \in {download, {}}
  BY <1>1
  DEF GateBound, BindingChanged, StagingFails, StagingTimesOut, PrepareFails, LaunchJob,
      LaunchFails, FetchFails, CopyFails, Kill, FilesTypeOK, Trees
<1>4. FilesTypeOK'
  BY <1>1, <1>2, <1>3 DEF FilesTypeOK, Desks
<1>5. \/ worker'[w].pc \in {"gated", "idle", "releasing", "terminal"}
      \/ UNCHANGED <<worker, job, pods, download>>
  <2>1. CASE GateBound(w)
    BY <2>1, GotoFacts DEF GateBound, Gate, At, Bound, PCs
  <2>2. CASE BindingChanged(w) \/ StagingTimesOut(w) \/ FetchFails(w) \/ CopyFails(w) \/ Kill(w)
    <3>1. Return(w) \/ UNCHANGED <<worker, job, pods, download>>
      BY <2>2 DEF BindingChanged, BlockedBeforeReserve, StagingTimesOut, LeaveReserved,
         FetchFails, SyncFails, CopyFails, Kill, Crash, vars
    <3> QED  BY <3>1, ReturnFacts
  <2>3. CASE StagingFails(w) \/ PrepareFails(w) \/ LaunchJob(w) \/ LaunchFails(w)
    <3>1. /\ Goto(w, "releasing") \/ Goto(w, "terminal") \/ Return(w)
          /\ worker[w].pc = "unknown"
      BY <2>3 DEF StagingFails, PrepareFails, LaunchJob, LaunchFails, Submit, SubmitRaises, At
    <3> QED  BY <3>1, GotoFacts, ReturnFacts DEF Bound, PCs
  <2> QED  BY <2>1, <2>2, <2>3
<1>6. Handling(w)' => copied' = Outputs /\ download' = {} /\ "artifact" \notin pods'
  BY <1>3, <1>5 DEF Handling, FilesInv, OutputsInv
<1>7. ~Uploads => download' = {} /\ "artifact" \notin pods'
  BY <1>3 DEF FilesInv
<1> QED  BY <1>2, <1>3, <1>4, <1>6, <1>7, DroppedStep

(* The handler's own steps do not meet an open download, and go on from one    *)
(* that is complete.                                                         *)
LEMMA CarryStep ==
  ASSUME Alone, IInv, FilesInv, NEW w \in Workers, Carry(w)
  PROVE  FilesInv'
<1>1. /\ TypeOK /\ FilesTypeOK /\ worker[w] \in Handlers
      /\ UNCHANGED <<kind, worktree, snapshot, remote, ran, stray, pods, download, copied>>
      /\ desk' = desk \/ Drop(w)
  BY WorkerTypes DEF IInv, FilesInv, Carry
<1>2. /\ desk' = desk \/ desk'[w].pc = "none"
      /\ desk' \in [Workers -> Desks]
  BY <1>1, DropFacts DEF FilesTypeOK, Desks
<1>3. FilesTypeOK'
  BY <1>1, <1>2 DEF FilesTypeOK, Desks
<1>4. job' = job /\ ~ (worker[w].pc = "charged" /\ job.status = "succeeded")
  <2>1. job' = job
    BY DEF Carry, HandlerStep, Refuse, ReserveRefused, Status, LeaveReserved, ReadRows, Reuse,
       Reserve, ReleaseRead, Release, Recharge, AuthorizeCharge, Charge, ChargeViolation,
       FinalizeAgain, Finalize, AuthorizeRecord, Record
  <2>2. ~ (worker[w].pc = "charged" /\ job.status = "succeeded")
    BY DEF Carry, HandlerStep, Refuse, ReserveRefused, Status, LeaveReserved, ReadRows, Reuse,
       Reserve, ReleaseRead, Release, Recharge, AuthorizeCharge, Charge, ChargeViolation,
       FinalizeAgain, Finalize, AuthorizeRecord, Record, At, ReadyToFinalize
  <2> QED  BY <2>1, <2>2
<1>5. Handling(w)' => Handling(w)
  <2>1. CASE Finalize(w) \/ AuthorizeRecord(w) \/ Record(w)
    BY <1>4, <2>1
    DEF Finalize, AuthorizeRecord, Record, ReadyToFinalize, At, Handling
  <2>2. CASE \/ Refuse(w) \/ ReserveRefused(w) \/ LeaveReserved(w) \/ Release(w)
             \/ ChargeViolation(w) \/ FinalizeAgain(w)
    <3>1. Return(w)
      BY <2>2 DEF Refuse, ReserveRefused, LeaveReserved, Release, ChargeViolation, FinalizeAgain
    <3> QED  BY <1>1, <3>1, ReturnFacts DEF Handling
  <2>3. CASE \/ Status(w) \/ ReleaseRead(w) \/ Recharge(w) \/ AuthorizeCharge(w) \/ Charge(w)
    <3>1. /\ worker[w].pc \in {"holding", "releasing", "terminal", "authorized"}
          /\ \/ Return(w)
             \/ \E pc \in {"unknown", "terminal", "settling", "charged", "authorized"} : Goto(w, pc)
      BY <2>3 DEF Status, ReleaseRead, Recharge, AuthorizeCharge, Charge, At
    <3>2. CASE Return(w)
      BY <1>1, <3>2, ReturnFacts DEF Handling
    <3>3. CASE ~ Return(w)
      <4>1. PICK pc \in {"unknown", "terminal", "settling", "charged", "authorized"} : Goto(w, pc)
        BY <3>1, <3>3
      <4>2. pc \in PCs /\ (pc \in Bound <=> worker[w].pc \in Bound)
        BY <3>1 DEF PCs, Bound
      <4>3. worker'[w].pc = pc
        BY <1>1, <4>1, <4>2, GotoFacts
      <4> QED  BY <4>3 DEF Handling
    <3> QED  BY <3>2, <3>3
  <2>4. CASE ReadRows(w) \/ \E e \in Events : Reuse(w, e) \/ Reserve(w, e)
    <3>1. \/ \E before : worker' = [worker EXCEPT ![w] = [worker[w] EXCEPT !.pc = "reserving",
                                                                      !.before = before]]
          \/ \E e : worker' = [worker EXCEPT ![w] = [worker[w] EXCEPT !.pc = "holding",
                                                                 !.event = e]]
      BY <2>4 DEF ReadRows, Reuse, Reserve
    <3>2. worker'[w].pc \in {"reserving", "holding"}
      BY <1>1, <3>1 DEF Handlers, TypeOK
    <3> QED  BY <3>2 DEF Handling
  <2> QED  BY <2>1, <2>2, <2>3, <2>4 DEF Carry, HandlerStep
<1>6. OutputsInv(w)' /\ SourceInv(w)'
  BY <1>1, <1>2, <1>4, <1>5 DEF FilesInv, OutputsInv, SourceInv, On, Uploads
<1> QED  BY <1>1, <1>3, <1>6 DEF Alone, FilesInv, Uploads

(* The job, the owner and a stray extraction.                               *)
LEMMA OtherFilesStep ==
  ASSUME Alone, IInv, FilesInv,
         \/ StrayExtracts \/ JobEndsRemotely \/ ApproveAgain \/ EditWorktree \/ ClearSnapshots
         \/ UNCHANGED filesVars
  PROVE  FilesInv'
<1>1. /\ UNCHANGED <<worker, kind, ran, stray, pods, download, desk, copied>>
      /\ snapshot' = snapshot \/ ClearSnapshots
      /\ remote' = remote \/ StrayExtracts
      /\ job' = job \/ JobEndsRemotely
  BY DEF StrayExtracts, JobEndsRemotely, JobEnds, ApproveAgain, Approve, EditWorktree,
     ClearSnapshots, fileVars, filesVars, vars
<1>2. FilesTypeOK'
  <2>1. remote' \in Trees /\ snapshot' \in Trees /\ worktree' \in {"approved", "edited"}
    BY DEF FilesInv, FilesTypeOK, Trees, StrayExtracts, JobEndsRemotely, ApproveAgain,
       EditWorktree, ClearSnapshots, fileVars, filesVars
  <2> QED  BY <1>1, <2>1 DEF FilesInv, FilesTypeOK
<1>3. ASSUME NEW w \in Workers PROVE SourceInv(w)'
  BY <1>1, <1>3 DEF FilesInv, SourceInv, On, StrayExtracts, ClearSnapshots
<1>4. ASSUME NEW w \in Workers PROVE OutputsInv(w)'
  <2>1. CASE JobEndsRemotely
    <3>1. job.status = "running"
      BY <2>1 DEF JobEndsRemotely, JobEnds
    <3>2. ~ On(w, "fetching") /\ ~ On(w, "copying")
      BY <1>4, <3>1 DEF FilesInv, OutputsInv
    <3>3. worker[w].pc \notin {"synced", "verified", "recording"}
      BY <1>4, <3>1 DEF IInv, HandlerInv, Paid, Ended
    <3> QED  BY <1>1, <3>2, <3>3 DEF OutputsInv, Handling, On
  <2>2. CASE ~ JobEndsRemotely
    BY <1>1, <1>4, <2>2 DEF FilesInv, OutputsInv, Handling, On, Uploads
  <2> QED  BY <2>1, <2>2
<1> QED  BY <1>1, <1>2, <1>3, <1>4 DEF FilesInv, Uploads

LEMMA NextFilesInv ==
  ASSUME Alone, IInv, FilesInv, [FilesNext]_filesVars
  PROVE  FilesInv'
<1> TypeOK
  BY DEF IInv
<1> QED
  BY SourceStep, DownloadStep, CopyStep, SyncedStep, DroppingStep, CarryStep, OtherFilesStep
  DEF FilesNext

LEMMA OneHandlerFiles ==
  ASSUME Alone
  PROVE  FilesSpec => [](IInv /\ FilesInv)
<1>1. FilesInit => IInv /\ FilesInv
  BY InitIInv, InitFiles DEF FilesInit
<1>2. IInv /\ FilesInv /\ [FilesNext]_filesVars => IInv' /\ FilesInv'
  BY FilesImplementStep, NextIInv, NextFilesInv DEF Alone
<1> QED  BY <1>1, <1>2, PTL DEF FilesSpec

(* The job is only ever launched on the tree that was approved, unless an     *)
(* extraction that was given up is still at work on the machine.             *)
THEOREM LaunchedAsApproved ==
  ASSUME \A v, w \in Workers : v = w
  PROVE  FilesSpec => SourceIsApproved
<1>1. ASSUME IInv, FilesInv, FilesNext, job.status = "none", job'.status = "running", ~stray
      PROVE  ran' = "approved"
  <2>1. PICK w \in Workers : LaunchJob(w)
    <3>1. ASSUME NEW w \in Workers, Carry(w) PROVE job' = job
      BY <3>1
      DEF Carry, HandlerStep, Refuse, ReserveRefused, Status, LeaveReserved, ReadRows, Reuse,
       Reserve, ReleaseRead, Release, Recharge, AuthorizeCharge, Charge, ChargeViolation,
       FinalizeAgain, Finalize, AuthorizeRecord, Record
    <3>2. ASSUME NEW w \in Workers,
                 \/ GateBound(w) \/ BindingChanged(w) \/ StagingTimesOut(w) \/ FetchFails(w)
                 \/ CopyFails(w) \/ Synced(w) \/ Kill(w) \/ \E o \in Outputs : CopyOne(w, o)
          PROVE  job' = job
      BY <3>2
      DEF GateBound, Gate, BindingChanged, BlockedBeforeReserve, StagingTimesOut, LeaveReserved,
          FetchFails, SyncFails, CopyFails, Synced, Sync, Kill, Crash, CopyOne, vars
    <3>3. ASSUME NEW w \in Workers, StagingFails(w) \/ PrepareFails(w) \/ LaunchFails(w)
          PROVE  FALSE
      <4>1. job' = job \/ \E after \in {"failed"} : job' = [job EXCEPT !.status = after]
        BY <3>3 DEF StagingFails, PrepareFails, LaunchFails, Submit, SubmitRaises
      <4>2. job'.status \in {job.status, "failed"}
        BY <1>1, <4>1 DEF IInv, TypeOK, Jobs
      <4> QED  BY <1>1, <4>2
    <3>4. ASSUME NEW w \in Workers,
                 \/ HashWorktree(w) \/ MaterializeSnapshot(w) \/ VerifyBinding(w) \/ Bundle(w)
                 \/ ApplySourcePod(w) \/ Extracts(w) \/ PrepareAttempt(w) \/ StartDownload(w)
                 \/ Fetched(w) \/ CopyAttempt(w) \/ \E o \in Outputs : FetchOne(w, o)
          PROVE  job' = job
      BY <3>4 DEF HashWorktree, MaterializeSnapshot, VerifyBinding, Bundle, ApplySourcePod,
         Extracts, PrepareAttempt, StartDownload, Fetched, CopyAttempt, FetchOne, vars
    <3>5. JobEndsRemotely => job.status = "running"
      BY DEF JobEndsRemotely, JobEnds
    <3>6. StrayExtracts \/ ApproveAgain \/ EditWorktree \/ ClearSnapshots => job' = job
      BY DEF StrayExtracts, ApproveAgain, Approve, EditWorktree, ClearSnapshots, vars
    <3> QED  BY <1>1, <3>1, <3>2, <3>3, <3>4, <3>5, <3>6 DEF FilesNext
  <2> QED  BY <1>1, <2>1 DEF LaunchJob, FilesInv, SourceInv
<1>2. IInv /\ FilesInv /\ [FilesNext]_filesVars =>
        [job.status = "none" /\ job'.status = "running" /\ ~stray => ran' = "approved"]_filesVars
  BY <1>1
<1> QED  BY <1>2, OneHandlerFiles, PTL DEF Alone, FilesSpec, SourceIsApproved

(* A run is recorded as passed only when every declared output has come, and  *)
(* nothing of a download, of its directory or its pod, is left.              *)
THEOREM PassedWhole ==
  ASSUME \A v, w \in Workers : v = w
  PROVE  FilesSpec => PassedIsWhole
<1>1. ASSUME IInv, FilesInv, FilesNext, NEW e \in Events,
             runs'[e] # runs[e], runs'[e].status = "PASSED"
      PROVE  copied = Outputs /\ download = {} /\ "artifact" \notin pods
  <2>1. PICK w \in Workers : Record(w)
    <3>1. ASSUME NEW w \in Workers, Carry(w), ~ Record(w) PROVE runs' = runs
      BY <3>1
      DEF Carry, HandlerStep, Refuse, ReserveRefused, Status, LeaveReserved, ReadRows, Reuse,
       Reserve, ReserveRow, ReleaseRead, Release, SettleRow, Recharge, AuthorizeCharge, Charge,
       ChargeViolation, FinalizeAgain, Finalize, AuthorizeRecord, storeVars
    <3>2. ASSUME NEW w \in Workers,
                 \/ GateBound(w) \/ BindingChanged(w) \/ StagingTimesOut(w) \/ FetchFails(w)
                 \/ CopyFails(w) \/ Synced(w) \/ Kill(w) \/ \E o \in Outputs : CopyOne(w, o)
          PROVE  runs' = runs
      BY <3>2
      DEF GateBound, Gate, BindingChanged, BlockedBeforeReserve, StagingTimesOut, LeaveReserved,
          FetchFails, SyncFails, CopyFails, Synced, Sync, Kill, Crash, CopyOne, vars, storeVars
    <3>3. ASSUME NEW w \in Workers,
                 StagingFails(w) \/ PrepareFails(w) \/ LaunchJob(w) \/ LaunchFails(w)
          PROVE  runs' = runs
      BY <3>3 DEF StagingFails, PrepareFails, LaunchJob, LaunchFails, Submit, SubmitRaises,
                  storeVars
    <3>4. ASSUME NEW w \in Workers,
                 \/ HashWorktree(w) \/ MaterializeSnapshot(w) \/ VerifyBinding(w) \/ Bundle(w)
                 \/ ApplySourcePod(w) \/ Extracts(w) \/ PrepareAttempt(w) \/ StartDownload(w)
                 \/ Fetched(w) \/ CopyAttempt(w) \/ \E o \in Outputs : FetchOne(w, o)
          PROVE  runs' = runs
      BY <3>4 DEF HashWorktree, MaterializeSnapshot, VerifyBinding, Bundle, ApplySourcePod,
         Extracts, PrepareAttempt, StartDownload, Fetched, CopyAttempt, FetchOne, vars,
         storeVars
    <3>5. StrayExtracts \/ JobEndsRemotely \/ ApproveAgain \/ EditWorktree \/ ClearSnapshots
            => runs' = runs
      BY DEF StrayExtracts, JobEndsRemotely, JobEnds, ApproveAgain, Approve, ApproveRow,
         EditWorktree, ClearSnapshots, vars, storeVars
    <3> QED  BY <1>1, <3>1, <3>2, <3>3, <3>4, <3>5 DEF FilesNext
  <2>2. worker[w].pc = "recording" /\ job.status = "succeeded"
    <3> DEFINE run == [status |-> IF job.status = "succeeded" THEN "PASSED" ELSE "FAILED",
                       stage |-> Full, verified |-> worker[w].verified,
                       metrics |-> worker[w].metrics]
    <3>1. worker[w].pc = "recording" /\ runs' = [runs EXCEPT ![worker[w].event] = run]
      BY <2>1 DEF Record, InsertRun, At
    <3>2. runs'[e] = run
      BY <1>1, <3>1 DEF IInv, TypeOK, StoreTypeOK
    <3> QED  BY <1>1, <3>1, <3>2
  <2> QED  BY <1>1, <2>2 DEF FilesInv, OutputsInv, Handling
<1>2. IInv /\ FilesInv /\ [FilesNext]_filesVars =>
        [\A e \in Events : runs'[e] # runs[e] /\ runs'[e].status = "PASSED" =>
           copied = Outputs /\ download = {} /\ "artifact" \notin pods]_filesVars
  BY <1>1
<1> QED  BY <1>2, OneHandlerFiles, PTL DEF Alone, FilesSpec, PassedIsWhole
=============================================================================
