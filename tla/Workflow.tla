------------------------------- MODULE Workflow -------------------------------
(***************************************************************************)
(* One workflow row (paperforge/workflow.py) and the service calls that     *)
(* drive it (paperforge/api.py): run, resume and release from concurrent    *)
(* processes, owner approval, and status changes made by programs that     *)
(* embed the engine.  Each WorkflowEngine method is one IMMEDIATE           *)
(* transaction and one step here; a process can be killed between two.      *)
(* The version column is left out: it is read and compared inside one       *)
(* transaction, so the comparison never fails.                              *)
(***************************************************************************)

CONSTANTS Callers,        \* processes that call the service
          NeedsApproval,  \* TRUE for the full profile
          Marks,          \* statuses an embedding program sets by itself
          Killable        \* the processes that may be killed part-way

ASSUME ProfileAssumption == NeedsApproval \in BOOLEAN
ASSUME KillableAssumption == Killable \subseteq Callers
ASSUME MarksAssumption == Marks \subseteq {"PAUSED", "INTERRUPTED", "FAILED", "CANCELLED"}

VARIABLES
  status,     \* workflows.status, or "ABSENT" before the row is inserted
  executed,   \* metadata.runtime_executed
  claimed,    \* metadata.runtime_claimed
  approval,   \* maximum stage of the proposal's approval in force, or "none"
  caller      \* process -> where its call is

vars == <<status, executed, claimed, approval, caller>>

Allowed == [
  READY             |-> {"RUNNING", "AUTH_BLOCKED", "FAILED", "CANCELLED"},
  RUNNING           |-> {"PAUSED", "INTERRUPTED", "AWAITING_APPROVAL", "AUTH_BLOCKED",
                         "FAILED", "CANCELLED", "COMPLETED"},
  PAUSED            |-> {"RUNNING", "CANCELLED", "FAILED"},
  INTERRUPTED       |-> {"RUNNING", "CANCELLED", "FAILED"},
  AWAITING_APPROVAL |-> {"RUNNING", "FAILED", "CANCELLED"},
  AUTH_BLOCKED      |-> {"READY", "RUNNING", "FAILED", "CANCELLED"},
  FAILED            |-> {"READY", "RUNNING", "CANCELLED"},
  CANCELLED         |-> {},
  COMPLETED         |-> {}]

Statuses == DOMAIN Allowed
Terminal == {s \in Statuses : Allowed[s] = {}}

(* After "executing" a call is named for the outcome it goes on to record.  *)
Outcomes == {"complete", "blocked", "auth"}
PCs == {"idle", "created", "policy", "awaiting", "checking", "reusing", "resuming",
        "claiming", "executing", "raised", "authblocked", "completing"} \cup Outcomes

TypeOK == /\ status \in Statuses \cup {"ABSENT"}
          /\ executed \in BOOLEAN
          /\ claimed \in BOOLEAN
          /\ approval \in {"none", "mini", "full"}
          /\ caller \in [Callers -> PCs]

Init == /\ status = "ABSENT"
        /\ executed = FALSE
        /\ claimed = FALSE
        /\ approval = "none"
        /\ caller = [p \in Callers |-> "idle"]

At(p, pc) == caller[p] = pc
Goto(p, pc) == caller' = [caller EXCEPT ![p] = pc]
Return(p) == Goto(p, "idle")

(* WorkflowEngine.transition.  A move to the current status does nothing;   *)
(* one the table does not list raises, and the call ends there.             *)
CanEnter(target) == target = status \/ target \in Allowed[status]
Enter(target) == /\ CanEnter(target)
                 /\ status' = target
                 /\ UNCHANGED <<executed, claimed, approval>>
(* Either the transition is made and the call goes on, or it raises.        *)
EnterOrRaise(p, target, pc) ==
  \/ Enter(target) /\ Goto(p, pc)
  \/ ~ CanEnter(target) /\ Return(p) /\ UNCHANGED <<status, executed, claimed, approval>>

Store == <<status, executed, claimed, approval>>

----------------------------------------------------------------------------
(* run: the row is inserted unless its identifier is already there.         *)
Create(p) ==
  /\ At(p, "idle")
  /\ status' = IF status = "ABSENT" THEN "READY" ELSE status
  /\ Goto(p, "created")
  /\ UNCHANGED <<executed, claimed, approval>>

Activate(p) == At(p, "created") /\ EnterOrRaise(p, "RUNNING", "policy")

(* Only the full profile looks for an approval that covers the full stage.  *)
Gate(p) ==
  /\ At(p, "policy")
  /\ Goto(p, IF NeedsApproval /\ approval # "full"
             THEN "awaiting" ELSE "claiming")
  /\ UNCHANGED Store

Await(p) == At(p, "awaiting") /\ EnterOrRaise(p, "AWAITING_APPROVAL", "idle")

(* resume acts on the row it reads first: a stored result is reused, an     *)
(* execution in progress refuses, and only a row that is waiting for an     *)
(* approval has the approval checked.                                       *)
ResumeRead(p) ==
  /\ At(p, "idle")
  /\ status # "ABSENT"
  /\ executed => status # "RUNNING"
  /\ ~ executed => ~ claimed
  /\ Goto(p, IF executed THEN "reusing"
             ELSE IF status = "AWAITING_APPROVAL" THEN "checking" ELSE "resuming")
  /\ UNCHANGED Store

Reuse(p) == At(p, "reusing") /\ EnterOrRaise(p, "RUNNING", "idle")

CheckApproval(p) ==
  /\ At(p, "checking")
  /\ IF approval = "full" THEN Goto(p, "resuming") ELSE Return(p)
  /\ UNCHANGED Store

Resume(p) == At(p, "resuming") /\ EnterOrRaise(p, "RUNNING", "claiming")

----------------------------------------------------------------------------
(* _execute_runtime.                                                        *)

(* Mutation: an execution in progress does not stop another.                *)
ClaimTaken(p) ==
  /\ At(p, "claiming")
  /\ ~ executed
  /\ claimed' = TRUE
  /\ Goto(p, "executing")
  /\ UNCHANGED <<status, executed, approval>>
(* Mutation: a stored result does not stop another execution.               *)
ClaimAgain(p) ==
  /\ At(p, "claiming")
  /\ ~ claimed
  /\ claimed' = TRUE
  /\ Goto(p, "executing")
  /\ UNCHANGED <<status, executed, approval>>

Claim(p) ==
  /\ At(p, "claiming")
  /\ ~ executed /\ ~ claimed
  /\ claimed' = TRUE
  /\ Goto(p, "executing")
  /\ UNCHANGED <<status, executed, approval>>

NotClaimed(p) ==
  /\ At(p, "claiming")
  /\ executed \/ claimed
  /\ Return(p)
  /\ UNCHANGED Store

Execute(p, outcome) == At(p, "executing") /\ Goto(p, outcome) /\ UNCHANGED Store

(* Mutation: the exception passes without giving the claim back.            *)
ExecuteRaisesClaimed(p) == At(p, "executing") /\ Return(p) /\ UNCHANGED Store
ExecuteRaises(p) == At(p, "executing") /\ Goto(p, "raised") /\ UNCHANGED Store

ReleaseClaim(p) ==
  /\ At(p, "raised")
  /\ claimed' = FALSE
  /\ Return(p)
  /\ UNCHANGED <<status, executed, approval>>

(* record_checkpoint writes the metadata whatever the status is by now.     *)
RecordCheckpoint(p, outcome) ==
  /\ At(p, outcome)
  /\ executed' = (outcome = "complete")
  /\ claimed' = FALSE
  /\ Goto(p, IF outcome = "auth" THEN "authblocked" ELSE "idle")
  /\ UNCHANGED <<status, approval>>

AuthBlock(p) == At(p, "authblocked") /\ EnterOrRaise(p, "AUTH_BLOCKED", "idle")

(* release: a gate that does not pass raises and changes nothing.           *)
ReleaseVerify(p) ==
  /\ At(p, "idle")
  /\ status # "ABSENT"
  /\ Goto(p, "completing")
  /\ UNCHANGED Store

Complete(p) == At(p, "completing") /\ EnterOrRaise(p, "COMPLETED", "idle")

----------------------------------------------------------------------------
(* ExperimentManager.approve: the new approval supersedes the others.       *)
Approve(scope) ==
  /\ approval' = scope
  /\ UNCHANGED <<status, executed, claimed, caller>>

(* WorkflowEngine.transition is public, and no call of the service itself    *)
(* sets these statuses.                                                     *)
Mark(target) == status # "ABSENT" /\ Enter(target) /\ UNCHANGED caller

Crash(p) == p \in Killable /\ ~ At(p, "idle") /\ Return(p) /\ UNCHANGED Store

(* The steps a call takes once it has begun.                                *)
Step(p) == \/ Activate(p) \/ Gate(p) \/ Await(p)
           \/ Reuse(p) \/ CheckApproval(p) \/ Resume(p)
           \/ Claim(p) \/ NotClaimed(p)
           \/ \E outcome \in Outcomes : Execute(p, outcome) \/ RecordCheckpoint(p, outcome)
           \/ ExecuteRaises(p) \/ ReleaseClaim(p) \/ AuthBlock(p)
           \/ Complete(p)

Next == \/ \E p \in Callers :
             Create(p) \/ ResumeRead(p) \/ ReleaseVerify(p) \/ Step(p) \/ Crash(p)
        \/ \E scope \in {"mini", "full"} : Approve(scope)
        \/ \E target \in Marks : Mark(target)

Spec == Init /\ [][Next]_vars

(* A call that has begun runs on unless it is killed: agents, providers and *)
(* local jobs all have time limits of their own.                            *)
FairSpec == Spec /\ \A p \in Callers : WF_vars(Step(p))

----------------------------------------------------------------------------
Holding(p) == caller[p] \in {"executing", "raised"} \cup Outcomes

(* claim_runtime_execution reserves ONE execution: however run and resume    *)
(* overlap, two processes never run the agents of one workflow at once.      *)
ExecutesAlone == \A p, q \in Callers : Holding(p) /\ Holding(q) => p = q

(* A complete runtime result is never lost or computed again: no later       *)
(* checkpoint, resume or kill takes runtime_executed back.                   *)
ResultKept == [][executed => executed' /\ ~ \E p \in Callers : Holding(p)']_vars

(* A completed or cancelled workflow never changes its status again, even    *)
(* when a call that started before is still under way.                       *)
TerminalIsFinal == [][(status \in Terminal) => (status' = status)]_vars

(* A process that is not killed gives its claim back, whatever becomes of    *)
(* the others and whatever its agents do.                                    *)
ClaimsEnd == \A p \in Callers \ Killable : Holding(p) ~> ~ claimed

(* README: after an abnormal interruption `paperforge resume` recovers.  A    *)
(* resume is refused while the claim stands, so a claim must have a process   *)
(* that will give it back.                                                   *)
ClaimHasHolder == claimed => \E p \in Callers : Holding(p)
=============================================================================
