---------------------------- MODULE WorkflowProofs ----------------------------
(***************************************************************************)
(* The claim on the runtime excludes, and its result stays, for any number  *)
(* of processes and any interleaving of run, resume, release and kills.     *)
(* The chain of agents implements that workflow, so the same holds of it,   *)
(* and what it writes is accounted for and delivered.                       *)
(***************************************************************************)
EXTENDS RuntimeChain, TLAPS

(* Whoever executes holds the claim, and no result is stored before it ends. *)
HolderHasClaim == \A p \in Callers : Holding(p) => claimed /\ ~ executed

IInv == TypeOK /\ ExecutesAlone /\ HolderHasClaim

----------------------------------------------------------------------------
(* A step of a call that does not execute and touches no metadata.          *)
LEMMA OutsideStep ==
  ASSUME IInv, NEW p \in Callers, NEW pc \in PCs, Goto(p, pc),
         pc \notin {"executing", "raised"} \cup Outcomes,
         status' \in Statuses \cup {"ABSENT"},
         UNCHANGED <<executed, claimed, approval>>
  PROVE  IInv'
<1>1. \A q \in Callers : Holding(q)' => Holding(q)
  BY DEF IInv, TypeOK, Goto, Holding
<1> QED  BY <1>1 DEF IInv, TypeOK, Goto, ExecutesAlone, HolderHasClaim

(* A transition, made or refused, is such a step.                           *)
LEMMA EnterOrRaiseStep ==
  ASSUME IInv, NEW p \in Callers, NEW pc \in PCs,
         pc \notin {"executing", "raised"} \cup Outcomes,
         NEW target \in Statuses, EnterOrRaise(p, target, pc)
  PROVE  IInv'
<1>1. /\ \E next \in {pc, "idle"} : Goto(p, next)
      /\ status' \in Statuses \cup {"ABSENT"}
      /\ UNCHANGED <<executed, claimed, approval>>
  BY DEF EnterOrRaise, Enter, Return, IInv, TypeOK
<1> QED  BY <1>1, OutsideStep DEF PCs, Outcomes

(* A step of the one call that executes, which goes on executing.           *)
LEMMA InsideStep ==
  ASSUME IInv, NEW p \in Callers, NEW pc \in PCs, Holding(p), Goto(p, pc), UNCHANGED Store
  PROVE  IInv'
<1>1. \A q \in Callers : Holding(q)' => Holding(q)
  BY DEF IInv, TypeOK, Goto, Holding
<1> QED  BY <1>1 DEF IInv, TypeOK, Goto, ExecutesAlone, HolderHasClaim, Store

(* The claim is only taken when nobody holds it.                            *)
LEMMA ClaimStep ==
  ASSUME IInv, NEW p \in Callers, Claim(p)
  PROVE  IInv'
<1>1. /\ caller' = [caller EXCEPT ![p] = "executing"] /\ "executing" \in PCs
      /\ ~ executed' /\ claimed' = TRUE /\ UNCHANGED <<status, executed, approval>>
  BY DEF Claim, Goto, PCs
<1>2. \A q \in Callers : ~ Holding(q)
  BY DEF Claim, IInv, HolderHasClaim
<1>3. \A q \in Callers : Holding(q)' => q = p
  BY <1>1, <1>2 DEF Holding, IInv, TypeOK
<1> QED  BY <1>1, <1>3 DEF IInv, TypeOK, ExecutesAlone, HolderHasClaim

(* The holder gives the claim back and is the last to hold it.              *)
LEMMA GiveBackStep ==
  ASSUME IInv, NEW p \in Callers,
         ReleaseClaim(p) \/ \E outcome \in Outcomes : RecordCheckpoint(p, outcome)
  PROVE  IInv'
<1>1. Holding(p)
  BY DEF ReleaseClaim, RecordCheckpoint, At, Holding
<1>2. /\ claimed' = FALSE /\ executed' \in BOOLEAN
      /\ UNCHANGED <<status, approval>>
      /\ \E pc \in {"authblocked", "idle"} : Goto(p, pc)
  BY DEF ReleaseClaim, RecordCheckpoint, Return, IInv, TypeOK
<1>3. PICK pc \in {"authblocked", "idle"} : Goto(p, pc)
  BY <1>2
<1>4. \A q \in Callers : ~ Holding(q)'
  BY <1>1, <1>3 DEF Goto, Holding, Outcomes, IInv, TypeOK, ExecutesAlone
<1> QED  BY <1>2, <1>3, <1>4 DEF Goto, PCs, IInv, TypeOK, ExecutesAlone, HolderHasClaim

(* Every step of a call keeps the invariant.                                *)
LEMMA CallStep ==
  ASSUME IInv, NEW p \in Callers, Step(p)
  PROVE  IInv'
<1>1. CASE Activate(p) \/ Await(p) \/ Reuse(p) \/ Resume(p) \/ AuthBlock(p) \/ Complete(p)
  BY <1>1, EnterOrRaiseStep
  DEF Activate, Await, Reuse, Resume, AuthBlock, Complete, PCs, Outcomes, Statuses, Allowed
<1>2. CASE Gate(p) \/ CheckApproval(p) \/ NotClaimed(p)
  <2>1. /\ \E pc \in PCs \ ({"executing", "raised"} \cup Outcomes) : Goto(p, pc)
        /\ UNCHANGED Store
    BY <1>2 DEF Gate, CheckApproval, NotClaimed, Return, PCs, Outcomes
  <2> QED  BY <2>1, OutsideStep DEF Store, IInv, TypeOK
<1>3. CASE Claim(p)
  BY <1>3, ClaimStep
<1>4. CASE ExecuteRaises(p) \/ \E outcome \in Outcomes : Execute(p, outcome)
  <2>1. Holding(p) /\ UNCHANGED Store /\ \E pc \in PCs : Goto(p, pc)
    BY <1>4 DEF ExecuteRaises, Execute, At, Holding, PCs
  <2> QED  BY <2>1, InsideStep
<1>5. CASE ReleaseClaim(p) \/ \E outcome \in Outcomes : RecordCheckpoint(p, outcome)
  BY <1>5, GiveBackStep
<1> QED  BY <1>1, <1>2, <1>3, <1>4, <1>5 DEF Step

(* The invariant is inductive.                                              *)
LEMMA NextKeepsIInv == IInv /\ [Next]_vars => IInv'
<1> SUFFICES ASSUME IInv, [Next]_vars PROVE IInv'
  OBVIOUS
<1>1. CASE \E p \in Callers : Create(p) \/ ResumeRead(p) \/ ReleaseVerify(p) \/ Crash(p)
  <2>1. PICK p \in Callers : Create(p) \/ ResumeRead(p) \/ ReleaseVerify(p) \/ Crash(p)
    BY <1>1
  <2>2. /\ \E pc \in PCs \ ({"executing", "raised"} \cup Outcomes) : Goto(p, pc)
        /\ status' \in Statuses \cup {"ABSENT"}
        /\ UNCHANGED <<executed, claimed, approval>>
    BY <2>1 DEF Create, ResumeRead, ReleaseVerify, Crash, Return, Store, PCs, Outcomes,
                Statuses, Allowed, IInv, TypeOK
  <2> QED  BY <2>2, OutsideStep
<1>2. CASE \E p \in Callers : Step(p)
  BY <1>2, CallStep
<1>3. CASE \E scope \in {"mini", "full"} : Approve(scope)
  BY <1>3 DEF Approve, IInv, TypeOK, ExecutesAlone, HolderHasClaim, Holding
<1>4. CASE \E target \in Marks : Mark(target)
  <2>1. status' \in Statuses /\ UNCHANGED <<executed, claimed, approval, caller>>
    BY <1>4, MarksAssumption DEF Mark, Enter, Statuses, Allowed
  <2> QED  BY <2>1 DEF IInv, TypeOK, ExecutesAlone, HolderHasClaim, Holding
<1>5. CASE UNCHANGED vars
  BY <1>5 DEF vars, IInv, TypeOK, ExecutesAlone, HolderHasClaim, Holding
<1> QED  BY <1>1, <1>2, <1>3, <1>4, <1>5 DEF Next

(* It holds in every reachable state.                                       *)
LEMMA Invariant == Spec => []IInv
<1>1. Init => IInv
  <2> SUFFICES ASSUME Init PROVE IInv
    OBVIOUS
  <2>1. TypeOK
    BY DEF Init, TypeOK, PCs
  <2>2. \A p \in Callers : ~ Holding(p)
    BY DEF Init, Holding, Outcomes
  <2> QED  BY <2>1, <2>2 DEF IInv, ExecutesAlone, HolderHasClaim
<1> QED  BY <1>1, NextKeepsIInv, PTL DEF Spec

----------------------------------------------------------------------------
(* However many calls of run and resume overlap, at most one runs the        *)
(* agents (claim_runtime_execution).                                        *)
THEOREM ExecutionExcludes == Spec => []ExecutesAlone
<1>1. IInv => ExecutesAlone
  BY DEF IInv
<1> QED  BY <1>1, Invariant, PTL

(* Once record_checkpoint has stored a complete result it stays, and no      *)
(* process starts the agents again.                                         *)
THEOREM ResultIsKept == Spec => ResultKept
<1>1. IInv /\ IInv' /\ [Next]_vars
        => [executed => executed' /\ ~ \E p \in Callers : Holding(p)']_vars
  <2> SUFFICES ASSUME IInv, IInv', Next, executed
               PROVE  executed' /\ ~ \E p \in Callers : Holding(p)'
    OBVIOUS
  <2>1. \A p \in Callers : ~ Holding(p)
    BY DEF IInv, HolderHasClaim
  <2>2. executed'
    <3>1. ASSUME NEW p \in Callers, Step(p) PROVE executed'
      <4>1. \A outcome \in Outcomes : ~ RecordCheckpoint(p, outcome)
        BY <2>1 DEF RecordCheckpoint, At, Holding
      <4> QED
        BY <3>1, <4>1
        DEF Step, Activate, Gate, Await, Reuse, CheckApproval, Resume, Claim, NotClaimed,
            Execute, ExecuteRaises, ReleaseClaim, AuthBlock, Complete, EnterOrRaise,
            Enter, Store
    <3> QED
      BY <3>1 DEF Next, Create, ResumeRead, ReleaseVerify, Crash, Approve, Mark, Enter, Store
  <2> QED  BY <2>2 DEF IInv, HolderHasClaim
<1> QED  BY <1>1, Invariant, PTL DEF Spec, ResultKept

(* No call, old or new, moves a workflow out of COMPLETED or CANCELLED.      *)
THEOREM TerminalStays == Spec => TerminalIsFinal
<1>1. [Next]_vars => [(status \in Terminal) => (status' = status)]_vars
  <2> SUFFICES ASSUME Next, status \in Terminal PROVE status' = status
    OBVIOUS
  <2>1. status \in Statuses /\ Allowed[status] = {} /\ status # "ABSENT"
    BY DEF Terminal, Statuses, Allowed
  <2>2. \A target \in Statuses : Enter(target) => status' = status
    BY <2>1 DEF Enter, CanEnter
  <2>3. \A p \in Callers, pc \in PCs, target \in Statuses :
          EnterOrRaise(p, target, pc) => status' = status
    BY <2>2 DEF EnterOrRaise
  <2>4. ASSUME NEW p \in Callers, Step(p) PROVE status' = status
    BY <2>3, <2>4
    DEF Step, Activate, Gate, Await, Reuse, CheckApproval, Resume, Claim, NotClaimed,
        Execute, ExecuteRaises, ReleaseClaim, RecordCheckpoint, AuthBlock, Complete,
        Store, PCs, Statuses, Allowed
  <2>5. \A target \in Marks : Mark(target) => status' = status
    BY <2>2, MarksAssumption DEF Mark, Statuses, Allowed
  <2> QED
    BY <2>1, <2>4, <2>5 DEF Next, Create, ResumeRead, ReleaseVerify, Crash, Approve, Store
<1> QED  BY <1>1, PTL DEF Spec, TerminalIsFinal

----------------------------------------------------------------------------
(* The chain of agents.                                                     *)

Texts == Drafts \cup {"author", "absent"}
Accounted(text) == text \in registered \cup left \cup {"author", "absent"}

RunShape == run \in [Callers -> [turn : Nat, outcome : Outcomes, phase : Phases,
                                  done : Nat, base : Texts]]
OnlyInside == \A p \in Callers : ~ At(p, "executing") => run[p] = Ready
TextShape == document \in Texts /\ registered \subseteq Drafts /\ left \subseteq Drafts

(* An unfinished write can be undone: what it found was accounted for.      *)
BasesAreAccounted == \A p \in Callers : Accounted(run[p].base)

DraftInv == RunShape /\ OnlyInside /\ TextShape /\ BasesAreAccounted /\ DraftIsAccounted

LEMMA LenRoles == Len(Roles) \in Nat /\ DOMAIN Roles = 1..Len(Roles)
  BY RolesArePermitted

(* What one process does leaves the chains of the others.                   *)
Keeps(p) == \A q \in Callers \ {p} : run'[q] = run[q] /\ caller'[q] = caller[q]

LEMMA EndsShape ==
  ASSUME RunShape, NEW p \in Callers, NEW result, Ends(p, result), UNCHANGED caller
  PROVE  /\ RunShape' /\ Keeps(p)
         /\ run'[p].phase = "next" /\ run'[p].base = "absent" /\ run'[p].done = 0
         /\ \/ /\ result \in {"completed", "skipped"}
               /\ run'[p].turn = run[p].turn + 1 /\ run'[p].outcome = "complete"
            \/ /\ result \notin {"completed", "skipped"}
               /\ run'[p].turn = Len(Roles) + 1 /\ run'[p].outcome \in {"blocked", "auth"}
<1>1. Ready \in [turn : Nat, outcome : Outcomes, phase : Phases, done : Nat, base : Texts]
  BY DEF Ready, Outcomes, Phases, Texts
<1>2. run[p].turn \in Nat
  BY DEF RunShape
<1>3. CASE result \in {"completed", "skipped"}
  <2>1. run' = [run EXCEPT ![p] = [Ready EXCEPT !.turn = run[p].turn + 1]]
    BY <1>3 DEF Ends
  <2> QED  BY <1>1, <1>2, <1>3, <2>1 DEF RunShape, Keeps, Ready
<1>4. CASE result \notin {"completed", "skipped"}
  <2>1. PICK outcome \in {"blocked", "auth"} :
          run' = [run EXCEPT ![p] = [Ready EXCEPT !.turn = Len(Roles) + 1, !.outcome = outcome]]
    BY <1>4 DEF Ends
  <2>2. outcome \in Outcomes /\ Len(Roles) + 1 \in Nat
    BY LenRoles DEF Outcomes
  <2> DEFINE halted == [Ready EXCEPT !.turn = Len(Roles) + 1, !.outcome = outcome]
  <2>3. /\ halted \in [turn : Nat, outcome : Outcomes, phase : Phases, done : Nat, base : Texts]
        /\ halted.turn = Len(Roles) + 1 /\ halted.outcome = outcome /\ halted.phase = "next"
        /\ halted.done = 0 /\ halted.base = "absent"
    BY <1>1, <2>2 DEF Ready
  <2>4. run' = [run EXCEPT ![p] = halted]
    BY <2>1
  <2> HIDE DEF halted
  <2>5. RunShape' /\ Keeps(p) /\ run'[p] = halted
    BY <2>3, <2>4 DEF RunShape, Keeps
  <2> QED  BY <1>4, <2>3, <2>5
<1> QED  BY <1>3, <1>4

LEMMA EntersShape ==
  ASSUME RunShape, NEW p \in Callers, NEW phase \in Phases, Enters(p, phase), UNCHANGED caller
  PROVE  /\ RunShape' /\ Keeps(p) /\ run'[p].phase = phase
         /\ run'[p].base = run[p].base /\ run'[p].done = run[p].done
         /\ run'[p].turn = run[p].turn /\ run'[p].outcome = run[p].outcome
  BY DEF RunShape, Enters, Keeps

LEMMA NextItemShape ==
  ASSUME RunShape, NEW p \in Callers, NEW n \in Nat, NEW phase \in Phases, UNCHANGED caller,
         \/ run' = [run EXCEPT ![p].done = n] /\ phase = run[p].phase
         \/ run' = [run EXCEPT ![p].done = n, ![p].phase = phase]
  PROVE  /\ RunShape' /\ Keeps(p) /\ run'[p].phase = phase
         /\ run'[p].base = run[p].base /\ run'[p].done = n
         /\ run'[p].turn = run[p].turn /\ run'[p].outcome = run[p].outcome
  BY DEF RunShape, Keeps

(* A step of the chain is a step of the workflow, or none.                  *)
LEMMA OutsideIsStep ==
  ASSUME NEW p \in Callers, Outside(p)
  PROVE  Step(p) /\ UNCHANGED chainVars
  BY DEF Outside, Step

LEMMA AgentIsInside ==
  ASSUME NEW p \in Callers, Agent(p)
  PROVE  UNCHANGED <<vars, request>> /\ At(p, "executing")
<1>1. CASE Research(p) \/ Experiment(p) \/ Code(p) \/ Compute(p) \/ Reviewer(p) \/ Release(p)
  BY <1>1 DEF Research, Experiment, Code, Compute, Reviewer, Release, Reads, Turn, In, Elsewhere
<1>2. CASE AnalysisOnly(p) \/ RunPlugin(p, "analysis", "adding") \/ AddEvidence(p)
  BY <1>2 DEF AnalysisOnly, RunPlugin, AddEvidence, Turn, In, Elsewhere
<1>3. CASE NoFigure(p) \/ RunPlugin(p, "visualization", "exporting") \/ WriteMember(p)
           \/ RegisterMember(p)
  BY <1>3 DEF NoFigure, RunPlugin, WriteMember, RegisterMember, Turn, In, Elsewhere
<1>4. CASE NoWriting(p) \/ ReadDocument(p) \/ AnswerRefused(p)
  BY <1>4 DEF NoWriting, ReadDocument, AnswerRefused, Turn, In, Elsewhere
<1>5. CASE WriteDraft(p) \/ RegisterDraft(p) \/ RestoreDocument(p) \/ RestoreFails(p)
           \/ WriteReport(p)
  BY <1>5 DEF WriteDraft, RegisterDraft, RestoreDocument, RestoreFails, WriteReport, In,
              Elsewhere
<1> QED  BY <1>1, <1>2, <1>3, <1>4, <1>5 DEF Agent

LEMMA ChainImplementsStep == RunShape /\ [ChainNext]_allVars => [Next]_vars
<1> SUFFICES ASSUME RunShape, [ChainNext]_allVars PROVE [Next]_vars
  OBVIOUS
<1>1. CASE \E p \in Callers : Begin(p) \/ Kill(p)
  BY <1>1 DEF Begin, Kill, Next
<1>2. ASSUME NEW p \in Callers, ChainStep(p) PROVE [Next]_vars
  <2>1. CASE Outside(p)
    BY <2>1, OutsideIsStep DEF Next
  <2>2. CASE Agent(p)
    BY <2>2, AgentIsInside
  <2>3. CASE WriteManifest(p)
    BY <2>3 DEF WriteManifest, RunShape, Step, Next
  <2>4. CASE ReportRaises(p)
    BY <2>4 DEF ReportRaises, Step, Next
  <2> QED  BY <1>2, <2>1, <2>2, <2>3, <2>4 DEF ChainStep
<1>3. CASE (\E scope \in {"mini", "full"} : Owner(scope)) \/ \E target \in Marks : Embedding(target)
  BY <1>3 DEF Owner, Embedding, Next
<1>4. CASE AuthorSaves \/ UNCHANGED allVars
  BY <1>4 DEF AuthorSaves, allVars
<1> QED  BY <1>1, <1>2, <1>3, <1>4 DEF ChainNext
----------------------------------------------------------------------------
BasesKept == \A p \in Callers : \/ run'[p].base \in {run[p].base, "absent"}
                                \/ run'[p].base = document /\ Accounted(document)
WritersStay == \A p \in Callers : In(p, "written") => In(p, "written")'

(* A step that writes no document and leaves no agent between a write and   *)
(* its registration keeps what is known of the document.                    *)
LEMMA QuietStep ==
  ASSUME DraftInv, RunShape', OnlyInside', BasesKept, WritersStay,
         document' = document, registered' = registered, left' = left
  PROVE  DraftInv'
<1>1. \A text : Accounted(text) => Accounted(text)'
  BY DEF Accounted
<1>2. BasesAreAccounted'
  BY <1>1 DEF DraftInv, BasesAreAccounted, Accounted, BasesKept
<1> QED  BY <1>2 DEF DraftInv, TextShape, Texts, DraftIsAccounted, WritersStay

(* Where only the holder of the claim can be, no other process is.          *)
LEMMA AloneInside ==
  ASSUME IInv, NEW p \in Callers, At(p, "executing"), NEW q \in Callers \ {p}
  PROVE  ~ At(q, "executing")
  BY DEF IInv, ExecutesAlone, Holding, At

LEMMA OutsideKeepsDraft ==
  ASSUME IInv, DraftInv, NEW p \in Callers, Begin(p) \/ Outside(p)
  PROVE  DraftInv'
<1>1. UNCHANGED chainVars /\ ~ At(p, "executing") /\ \E pc \in PCs : Goto(p, pc)
  <2>1. CASE Begin(p)
    BY <2>1 DEF Begin, Create, ResumeRead, ReleaseVerify, At, PCs
  <2>2. CASE Outside(p)
    <3>1. CASE Activate(p) \/ Await(p) \/ Reuse(p) \/ Resume(p) \/ AuthBlock(p) \/ Complete(p)
      BY <2>2, <3>1 DEF Outside, Activate, Await, Reuse, Resume, AuthBlock, Complete,
                        EnterOrRaise, Return, At, PCs
    <3>2. CASE Gate(p) \/ CheckApproval(p) \/ Claim(p) \/ NotClaimed(p) \/ ReleaseClaim(p)
      BY <2>2, <3>2 DEF Outside, Gate, CheckApproval, Claim, NotClaimed, ReleaseClaim,
                        Return, At, PCs
    <3>3. CASE \E outcome \in Outcomes : RecordCheckpoint(p, outcome)
      BY <2>2, <3>3 DEF Outside, RecordCheckpoint, At, PCs, Outcomes
    <3> QED  BY <2>2, <3>1, <3>2, <3>3 DEF Outside
  <2> QED  BY <2>1, <2>2
<1>2. \A q \in Callers : At(q, "executing") => At(q, "executing")'
  BY <1>1 DEF At, Goto, IInv, TypeOK
<1>3. UNCHANGED <<run, document, registered, left>>
  BY <1>1 DEF chainVars, files
<1>4. RunShape' /\ OnlyInside'
  BY <1>2, <1>3 DEF DraftInv, RunShape, OnlyInside, At
<1>5. WritersStay
  BY <1>2, <1>3 DEF In, WritersStay
<1>6. BasesKept
  BY <1>3 DEF BasesKept
<1> QED  BY <1>3, <1>4, <1>5, <1>6, QuietStep

(* Leaving the chain, by its end, an exception or a kill.                   *)
LEMMA LeaveShape ==
  ASSUME IInv, DraftInv, NEW p \in Callers, NEW pc \in PCs \ {"executing"},
         Goto(p, pc), run' = [run EXCEPT ![p] = Ready]
  PROVE  /\ RunShape' /\ OnlyInside' /\ Keeps(p) /\ ~ At(p, "executing")'
         /\ run'[p].base = "absent"
         /\ \A q \in Callers : In(q, "written")' <=> q # p /\ In(q, "written")
<1>1. Ready \in [turn : Nat, outcome : Outcomes, phase : Phases, done : Nat, base : Texts]
  BY DEF Ready, Outcomes, Phases, Texts
<1>2. RunShape' /\ Keeps(p) /\ ~ At(p, "executing")' /\ run'[p] = Ready
  BY <1>1 DEF DraftInv, RunShape, Keeps, At, Goto, IInv, TypeOK
<1> QED  BY <1>2 DEF DraftInv, OnlyInside, Keeps, At, In, Ready

LEMMA LeavingKeepsDraft ==
  ASSUME IInv, DraftInv, NEW p \in Callers, WriteManifest(p) \/ ReportRaises(p)
  PROVE  DraftInv'
<1>1. /\ UNCHANGED <<document, registered, left>> /\ run' = [run EXCEPT ![p] = Ready]
      /\ \E pc \in PCs \ {"executing"} : Goto(p, pc)
  BY DEF WriteManifest, ReportRaises, Execute, ExecuteRaises, files, DraftInv, RunShape, PCs,
         Outcomes
<1>2. ~ In(p, "written")
  BY DEF WriteManifest, ReportRaises, In
<1>3. /\ RunShape' /\ OnlyInside' /\ Keeps(p) /\ run'[p].base = "absent"
      /\ \A q \in Callers : In(q, "written")' <=> q # p /\ In(q, "written")
  BY <1>1, LeaveShape
<1>4. WritersStay
  BY <1>2, <1>3 DEF WritersStay
<1>5. BasesKept
  BY <1>3 DEF Keeps, BasesKept
<1> QED  BY <1>1, <1>3, <1>4, <1>5, QuietStep

LEMMA KillKeepsDraft ==
  ASSUME IInv, DraftInv, NEW p \in Callers, Kill(p)
  PROVE  DraftInv'
<1>1. Goto(p, "idle") /\ run' = [run EXCEPT ![p] = Ready] /\ UNCHANGED <<document, registered>>
  BY DEF Kill, Crash, Return
<1>2. left' = IF run[p].phase = "written" THEN left \cup ({document} \cap Drafts) ELSE left
  BY DEF Kill
<1>3. /\ RunShape' /\ OnlyInside' /\ Keeps(p) /\ run'[p].base = "absent"
      /\ \A q \in Callers : In(q, "written")' <=> q # p /\ In(q, "written")
  BY <1>1, LeaveShape DEF PCs
<1>4. TextShape'
  BY <1>1, <1>2 DEF DraftInv, TextShape
<1>5. BasesAreAccounted'
  BY <1>1, <1>2, <1>3 DEF DraftInv, BasesAreAccounted, Accounted, Keeps
<1>6. DraftIsAccounted'
  <2>1. SUFFICES ASSUME \A q \in Callers : ~ In(q, "written")'
                 PROVE  document \in registered \cup left' \cup {"author", "absent"}
    BY <1>1 DEF DraftIsAccounted
  <2>2. CASE In(p, "written")
    BY <1>2, <2>2 DEF In, DraftInv, TextShape, Texts
  <2>3. CASE ~ In(p, "written")
    BY <1>2, <1>3, <2>1, <2>3 DEF DraftInv, DraftIsAccounted
  <2> QED  BY <2>2, <2>3
<1> QED  BY <1>3, <1>4, <1>5, <1>6 DEF DraftInv

(* The agents that leave the document alone.                                *)
LEMMA InsideStays ==
  ASSUME DraftInv, NEW p \in Callers, At(p, "executing"), UNCHANGED caller, RunShape', Keeps(p)
  PROVE  OnlyInside' /\ \A q \in Callers \ {p} : In(q, "written")' <=> In(q, "written")
  BY DEF DraftInv, OnlyInside, Keeps, At, In

LEMMA QuietAgentKeepsDraft ==
  ASSUME IInv, DraftInv, NEW p \in Callers, At(p, "executing"), UNCHANGED caller,
         UNCHANGED <<document, registered, left>>, ~ In(p, "written"),
         \/ \E result : Ends(p, result)
         \/ \E phase \in Phases : Enters(p, phase)
         \/ \E n \in Nat : \/ run' = [run EXCEPT ![p].done = n]
                           \/ run' = [run EXCEPT ![p].done = n, ![p].phase = "exporting"]
  PROVE  DraftInv'
<1>1. RunShape' /\ Keeps(p) /\ run'[p].base \in {run[p].base, "absent"}
  <2>1. RunShape
    BY DEF DraftInv
  <2>2. CASE \E result : Ends(p, result)
    BY <2>1, <2>2, EndsShape
  <2>3. CASE \E phase \in Phases : Enters(p, phase)
    BY <2>1, <2>3, EntersShape
  <2>4. CASE \E n \in Nat : run' = [run EXCEPT ![p].done = n]
    <3>1. PICK n \in Nat : run' = [run EXCEPT ![p].done = n]
      BY <2>4
    <3> QED  BY <2>1, <3>1, NextItemShape DEF RunShape
  <2>5. CASE \E n \in Nat : run' = [run EXCEPT ![p].done = n, ![p].phase = "exporting"]
    <3>1. PICK n \in Nat : run' = [run EXCEPT ![p].done = n, ![p].phase = "exporting"]
      BY <2>5
    <3>2. "exporting" \in Phases
      BY DEF Phases
    <3> QED  BY <2>1, <3>1, <3>2, NextItemShape
  <2> QED  BY <2>2, <2>3, <2>4, <2>5
<1>2. OnlyInside' /\ WritersStay
  BY <1>1, InsideStays DEF WritersStay
<1>3. BasesKept
  BY <1>1 DEF Keeps, BasesKept
<1> QED  BY <1>1, <1>2, <1>3, QuietStep

LEMMA AgentKeepsDraft ==
  ASSUME IInv, DraftInv, NEW p \in Callers, Agent(p)
  PROVE  DraftInv'
<1>0. At(p, "executing") /\ UNCHANGED caller /\ RunShape /\ run[p].done + 1 \in Nat
  BY AgentIsInside DEF vars, DraftInv, RunShape
<1>1. CASE Research(p) \/ Experiment(p) \/ Code(p) \/ Compute(p) \/ Reviewer(p) \/ Release(p)
  BY <1>0, <1>1, QuietAgentKeepsDraft
  DEF Research, Experiment, Code, Compute, Reviewer, Release, Reads, Turn, In, files
<1>2. CASE AnalysisOnly(p) \/ NoFigure(p) \/ NoWriting(p) \/ AnswerRefused(p)
  BY <1>0, <1>2, QuietAgentKeepsDraft
  DEF AnalysisOnly, NoFigure, NoWriting, AnswerRefused, Turn, In, files
<1>3. CASE RunPlugin(p, "analysis", "adding") \/ RunPlugin(p, "visualization", "exporting")
  BY <1>0, <1>3, QuietAgentKeepsDraft DEF RunPlugin, Turn, In, files, Phases
<1>4. CASE AddEvidence(p)
  <2>1. /\ UNCHANGED <<document, registered, left>> /\ ~ In(p, "written")
        /\ \/ \E result : Ends(p, result)
           \/ run' = [run EXCEPT ![p].done = run[p].done + 1]
    BY <1>4 DEF AddEvidence, In
  <2> QED  BY <1>0, <2>1, QuietAgentKeepsDraft
<1>5. CASE WriteMember(p) \/ RegisterMember(p)
  <2>1. /\ UNCHANGED <<document, registered, left>> /\ ~ In(p, "written")
        /\ \/ \E result : Ends(p, result)
           \/ Enters(p, "unregistered")
           \/ run' = [run EXCEPT ![p].done = run[p].done + 1, ![p].phase = "exporting"]
    BY <1>5 DEF WriteMember, RegisterMember, In
  <2> QED  BY <1>0, <2>1, QuietAgentKeepsDraft DEF Phases
<1>6. CASE ReadDocument(p)
  <2>1. UNCHANGED <<document, registered, left>> /\ ~ In(p, "written")
    BY <1>6 DEF ReadDocument, Turn, In, files
  <2>2. CASE \E result : Ends(p, result)
    BY <1>0, <2>1, <2>2, QuietAgentKeepsDraft
  <2>3. CASE run' = [run EXCEPT ![p].phase = "asking", ![p].base = document]
    <3>1. RunShape' /\ Keeps(p) /\ run'[p].base = document
      BY <1>0, <2>3 DEF RunShape, Keeps, Phases, DraftInv, TextShape
    <3>2. Accounted(document)
      BY <1>0, <2>1, AloneInside DEF DraftInv, DraftIsAccounted, Accounted, In
    <3>3. OnlyInside' /\ WritersStay
      BY <1>0, <2>1, <3>1, InsideStays DEF WritersStay
    <3>4. BasesKept
      BY <3>1, <3>2 DEF Keeps, BasesKept
    <3> QED  BY <2>1, <3>1, <3>3, <3>4, QuietStep
  <2> QED  BY <1>6, <2>2, <2>3 DEF ReadDocument
<1>7. CASE WriteDraft(p)
  <2>1. RunShape' /\ Keeps(p) /\ run'[p].base = run[p].base /\ run'[p].phase = "written"
    BY <1>0, <1>7, EntersShape DEF WriteDraft, Phases
  <2>2. UNCHANGED <<registered, left>> /\ document' \in Drafts
    BY <1>7 DEF WriteDraft
  <2>3. In(p, "written")' /\ OnlyInside'
    BY <1>0, <2>1, InsideStays DEF In, At
  <2>4. TextShape' /\ BasesAreAccounted' /\ DraftIsAccounted'
    BY <2>1, <2>2, <2>3
    DEF DraftInv, TextShape, Texts, BasesAreAccounted, Accounted, DraftIsAccounted, Keeps
  <2> QED  BY <2>1, <2>3, <2>4 DEF DraftInv
<1>8. CASE RegisterDraft(p) \/ RestoreDocument(p) \/ RestoreFails(p)
  <2>1. RunShape' /\ Keeps(p) /\ run'[p].base = "absent"
    BY <1>0, <1>8, EndsShape DEF RegisterDraft, RestoreDocument, RestoreFails
  <2>2. OnlyInside'
    BY <1>0, <2>1, InsideStays
  <2>3. /\ registered \subseteq registered' /\ left \subseteq left'
        /\ registered' \subseteq Drafts /\ left' \subseteq Drafts
    BY <1>8 DEF RegisterDraft, RestoreDocument, RestoreFails, DraftInv, TextShape
  <2>4. document' \in registered' \cup left' \cup {"author", "absent"}
    <3>1. CASE RegisterDraft(p) \/ RestoreFails(p)
      BY <3>1 DEF RegisterDraft, RestoreFails, DraftInv, TextShape, Texts
    <3>2. CASE RestoreDocument(p)
      BY <3>2 DEF RestoreDocument, DraftInv, BasesAreAccounted, Accounted
    <3> QED  BY <1>8, <3>1, <3>2
  <2>5. TextShape' /\ BasesAreAccounted' /\ DraftIsAccounted'
    BY <2>1, <2>3, <2>4
    DEF DraftInv, TextShape, Texts, BasesAreAccounted, Accounted, DraftIsAccounted, Keeps
  <2> QED  BY <2>1, <2>2, <2>5 DEF DraftInv
<1>9. CASE WriteReport(p)
  BY <1>0, <1>9, QuietAgentKeepsDraft DEF WriteReport, In, Phases
<1> QED  BY <1>1, <1>2, <1>3, <1>4, <1>5, <1>6, <1>7, <1>8, <1>9 DEF Agent

LEMMA ChainKeepsDraft == IInv /\ DraftInv /\ [ChainNext]_allVars => DraftInv'
<1> SUFFICES ASSUME IInv, DraftInv, [ChainNext]_allVars PROVE DraftInv'
  OBVIOUS
<1>1. ASSUME NEW p \in Callers, Begin(p) \/ ChainStep(p) \/ Kill(p) PROVE DraftInv'
  BY <1>1, OutsideKeepsDraft, AgentKeepsDraft, LeavingKeepsDraft, KillKeepsDraft DEF ChainStep
<1>2. CASE (\E scope \in {"mini", "full"} : Owner(scope)) \/ (\E target \in Marks : Embedding(target))
           \/ UNCHANGED allVars
  <2>1. UNCHANGED <<caller, run, document, registered, left>>
    BY <1>2 DEF Owner, Embedding, Approve, Mark, chainVars, files, allVars, vars
  <2>2. RunShape' /\ OnlyInside'
    BY <2>1 DEF DraftInv, RunShape, OnlyInside, At
  <2>3. WritersStay
    BY <2>1 DEF In, At, WritersStay
  <2>4. BasesKept
    BY <2>1 DEF BasesKept
  <2> QED  BY <2>1, <2>2, <2>3, <2>4, QuietStep
<1>3. CASE AuthorSaves
  <2>1. UNCHANGED <<caller, run, registered, left>> /\ document' = "author"
    BY <1>3 DEF AuthorSaves, vars
  <2> QED
    BY <2>1
    DEF DraftInv, RunShape, OnlyInside, At, TextShape, Texts, BasesAreAccounted, Accounted,
        DraftIsAccounted
<1> QED  BY <1>1, <1>2, <1>3 DEF ChainNext

LEMMA ChainInvariant == ChainSpec => [](IInv /\ DraftInv) /\ [][Next]_vars
<1>1. ChainInit => Init /\ DraftInv
  <2> SUFFICES ASSUME ChainInit PROVE DraftInv
    BY DEF ChainInit
  <2>1. RunShape /\ OnlyInside /\ \A p \in Callers : run[p].base = "absent"
    BY DEF ChainInit, RunShape, OnlyInside, Ready, Outcomes, Phases, Texts
  <2> QED  BY <2>1 DEF ChainInit, DraftInv, TextShape, Texts, BasesAreAccounted, Accounted,
                       DraftIsAccounted
<1>2. Init => IInv
  <2> SUFFICES ASSUME Init PROVE IInv
    OBVIOUS
  <2>1. TypeOK
    BY DEF Init, TypeOK, PCs
  <2>2. \A p \in Callers : ~ Holding(p)
    BY DEF Init, Holding, Outcomes
  <2> QED  BY <2>1, <2>2 DEF IInv, ExecutesAlone, HolderHasClaim
<1>3. DraftInv => RunShape
  BY DEF DraftInv
<1>4. IInv /\ DraftInv /\ [ChainNext]_allVars => (IInv /\ DraftInv)' /\ [Next]_vars
  BY <1>3, ChainImplementsStep, ChainKeepsDraft, NextKeepsIInv
<1> QED  BY <1>1, <1>2, <1>4, PTL DEF ChainSpec

(* The runtime implements the workflow: to a caller of the service the chain *)
(* of agents is one Execute, so the theorems above hold of it as well.      *)
THEOREM ChainImplementsWorkflow == ChainSpec => Spec
<1>1. ChainInit => Init
  BY DEF ChainInit
<1> QED  BY <1>1, ChainInvariant, PTL DEF ChainSpec, Spec

COROLLARY AgentsExcludeEachOther == ChainSpec => []ExecutesAlone
  BY ChainImplementsWorkflow, ExecutionExcludes, PTL

(* Whatever fails, is killed or is edited, a document at rest is the author's, *)
(* registered, gone, or left behind by a kill (WritingEngine.write).        *)
THEOREM DraftStaysAccounted == ChainSpec => []DraftIsAccounted
<1>1. DraftInv => DraftIsAccounted
  BY DEF DraftInv
<1> QED  BY <1>1, ChainInvariant, PTL

----------------------------------------------------------------------------
(* What a chain that reports success has left behind.                       *)

Analysed == request.rows # "half" /\ (request.rows = "given" => evidence = 1..Metrics)
Drawn == request.rows = "given" => \A i \in 1..Members : figure[i] = "registered"

Delivered == /\ report = "complete"
             /\ HasRole("analysis") => Analysed
             /\ HasRole("visualization") => Drawn

(* Where a chain is: which agent works, and how many items it has done.     *)
Passed(p, role) == \E i \in DOMAIN Roles : i < run[p].turn /\ Roles[i] = role
Busy(p, role) == ~ AllReported(p) /\ Roles[run[p].turn] = role /\ run[p].outcome = "complete"
Drawing(p) == run[p].phase \in {"exporting", "unregistered"}

ChainPhase(p) ==
  LET done == run[p].done IN
  /\ run[p].phase = "next" => done = 0
  /\ run[p].phase = "adding" => /\ Busy(p, "analysis") /\ request.rows = "given"
                                /\ done < Metrics /\ 1..done \subseteq evidence
  /\ Drawing(p) => /\ Busy(p, "visualization") /\ request.rows = "given"
                   /\ done < Members /\ \A i \in 1..done : figure[i] = "registered"
  /\ run[p].phase \in {"asking", "written"} => Busy(p, "paper")
  /\ run[p].phase = "manifest" =>
       AllReported(p) /\ (run[p].outcome = "complete" => report = "complete")

(* The agents that have passed left what they report; one that did not pass *)
(* has ended the chain.                                                     *)
ChainResult(p) ==
  IF run[p].outcome = "complete"
  THEN /\ Passed(p, "analysis") => Analysed
       /\ Passed(p, "visualization") => Drawn \/ Drawing(p)
  ELSE AllReported(p)

FilesShape == /\ evidence \subseteq 1..Metrics
              /\ figure \in [1..Members -> {"absent", "file", "registered"}]

DeliveryInv ==
  /\ FilesShape
  /\ \A p \in Callers : At(p, "executing") => ChainPhase(p) /\ ChainResult(p)
  /\ \A p \in Callers : At(p, "complete") => Delivered
  /\ executed => Delivered

(* While one process executes nothing has been promised to a caller yet, so *)
(* only its own chain has to be followed.                                   *)
LEMMA OnlyTheChain ==
  ASSUME IInv, DeliveryInv, NEW p \in Callers, At(p, "executing"),
         UNCHANGED <<caller, executed>>, FilesShape', ChainPhase(p)', ChainResult(p)'
  PROVE  DeliveryInv'
<1>1. ~ executed /\ \A q \in Callers : ~ At(q, "complete") /\ (At(q, "executing") => q = p)
  BY DEF IInv, ExecutesAlone, HolderHasClaim, Holding, At, Outcomes
<1> QED  BY <1>1 DEF DeliveryInv, At

(* An agent passes the turn on when what it reports is there.               *)
LEMMA PassedOn ==
  ASSUME RunShape, NEW p \in Callers, UNCHANGED <<caller, request>>, FilesShape',
         ChainResult(p), NEW result, Ends(p, result),
         ~ AllReported(p),
         result \in {"completed", "skipped"} =>
           /\ Roles[run[p].turn] = "analysis" => Analysed'
           /\ Roles[run[p].turn] = "visualization" => Drawn'
           /\ Analysed => Analysed'
           /\ Drawn => Drawn'
           /\ Drawing(p) => Roles[run[p].turn] = "visualization"
  PROVE  ChainPhase(p)' /\ ChainResult(p)'
<1>1. /\ run'[p].phase = "next" /\ run'[p].done = 0
      /\ \/ /\ result \in {"completed", "skipped"}
            /\ run'[p].turn = run[p].turn + 1 /\ run'[p].outcome = "complete"
         \/ /\ result \notin {"completed", "skipped"}
            /\ run'[p].turn = Len(Roles) + 1 /\ run'[p].outcome \in {"blocked", "auth"}
  BY EndsShape
<1>2. ChainPhase(p)'
  BY <1>1 DEF ChainPhase, Drawing
<1>3. CASE result \notin {"completed", "skipped"}
  BY <1>1, <1>2, <1>3, LenRoles DEF ChainResult, AllReported
<1>4. CASE result \in {"completed", "skipped"}
  <2>1. run[p].turn \in Nat /\ run[p].outcome = "complete"
    BY DEF RunShape, ChainResult
  <2>2. \A role : Passed(p, role)' => Passed(p, role) \/ Roles[run[p].turn] = role
    BY <1>1, <1>4, <2>1, LenRoles DEF Passed
  <2>3. Passed(p, "analysis")' => Analysed'
    BY <1>4, <2>1, <2>2 DEF ChainResult
  <2>4. Passed(p, "visualization")' => Drawn'
    BY <1>4, <2>1, <2>2 DEF ChainResult
  <2> QED  BY <1>1, <1>2, <1>4, <2>3, <2>4 DEF ChainResult
<1> QED  BY <1>3, <1>4

(* The agents that leave evidence and figure alone.                         *)
LEMMA ReadersKeepDelivery ==
  ASSUME IInv, DraftInv, DeliveryInv, NEW p \in Callers, UNCHANGED <<caller, executed, request>>,
         At(p, "executing"), UNCHANGED <<evidence, figure>>, ~ AllReported(p), ~ Drawing(p),
         NEW result, Ends(p, result),
         result \in {"completed", "skipped"} =>
           /\ Roles[run[p].turn] = "analysis" => Analysed
           /\ Roles[run[p].turn] = "visualization" => Drawn
  PROVE  DeliveryInv'
<1>1. /\ RunShape /\ ChainResult(p) /\ FilesShape' /\ (Analysed <=> Analysed')
      /\ (Drawn <=> Drawn')
  BY DEF DraftInv, DeliveryInv, FilesShape, Analysed, Drawn
<1>2. ChainPhase(p)' /\ ChainResult(p)'
  BY <1>1, PassedOn
<1> QED  BY <1>1, <1>2, OnlyTheChain

(* An agent that goes on to its next phase has not reported yet.            *)
LEMMA PhaseKeepsDelivery ==
  ASSUME IInv, DraftInv, DeliveryInv, NEW p \in Callers, UNCHANGED <<caller, executed, request>>,
         At(p, "executing"), UNCHANGED <<evidence, figure>>,
         Keeps(p), run'[p].turn = run[p].turn, run'[p].outcome = run[p].outcome,
         ChainPhase(p)', Drawing(p) => Drawing(p)'
  PROVE  DeliveryInv'
<1>1. ChainResult(p) /\ FilesShape'
  BY DEF DeliveryInv, FilesShape
<1>2. ChainResult(p)'
  BY <1>1 DEF ChainResult, Passed, AllReported, Analysed, Drawn
<1> QED  BY <1>1, <1>2, OnlyTheChain

LEMMA ReadAgents ==
  ASSUME IInv, DraftInv, DeliveryInv, NEW p \in Callers, At(p, "executing"),
         UNCHANGED <<caller, executed, request>>,
         \/ Research(p) \/ Experiment(p) \/ Code(p) \/ Compute(p) \/ Reviewer(p) \/ Release(p)
         \/ AnalysisOnly(p) \/ NoFigure(p) \/ NoWriting(p) \/ AnswerRefused(p)
         \/ RegisterDraft(p) \/ RestoreDocument(p) \/ RestoreFails(p)
  PROVE  DeliveryInv'
<1>0. ChainPhase(p)
  BY DEF DeliveryInv
<1>1. CASE Research(p) \/ Experiment(p) \/ Code(p) \/ Compute(p) \/ Reviewer(p) \/ Release(p)
  <2>1. /\ UNCHANGED <<evidence, figure>> /\ ~ AllReported(p) /\ ~ Drawing(p)
        /\ Roles[run[p].turn] \notin {"analysis", "visualization"}
        /\ \E result : Ends(p, result)
    BY <1>1 DEF Research, Experiment, Code, Compute, Reviewer, Release, Reads, Turn, In, files,
                Drawing
  <2> QED  BY <2>1, ReadersKeepDelivery
<1>2. CASE AnalysisOnly(p) \/ NoFigure(p) \/ NoWriting(p)
  <2>1. /\ UNCHANGED <<evidence, figure>> /\ ~ AllReported(p) /\ ~ Drawing(p)
    BY <1>2 DEF AnalysisOnly, NoFigure, NoWriting, Turn, In, files, Drawing
  <2>2. PICK result : /\ Ends(p, result)
                      /\ result \in {"completed", "skipped"} =>
                           /\ Roles[run[p].turn] = "analysis" => Analysed
                           /\ Roles[run[p].turn] = "visualization" => Drawn
    BY <1>2 DEF AnalysisOnly, NoFigure, NoWriting, Turn, Analysed, Drawn
  <2> QED  BY <2>1, <2>2, ReadersKeepDelivery
<1>3. CASE AnswerRefused(p) \/ RegisterDraft(p) \/ RestoreDocument(p) \/ RestoreFails(p)
  <2>1. /\ UNCHANGED <<evidence, figure>> /\ run[p].phase \in {"asking", "written"}
        /\ \E result : Ends(p, result)
    BY <1>3 DEF AnswerRefused, RegisterDraft, RestoreDocument, RestoreFails, In, files
  <2>2. ~ AllReported(p) /\ ~ Drawing(p) /\ Roles[run[p].turn] = "paper"
    BY <1>0, <2>1 DEF ChainPhase, Busy, Drawing
  <2> QED  BY <2>1, <2>2, ReadersKeepDelivery
<1> QED  BY <1>1, <1>2, <1>3

LEMMA PhaseAgents ==
  ASSUME IInv, DraftInv, DeliveryInv, NEW p \in Callers, At(p, "executing"),
         UNCHANGED <<caller, executed, request>>,
         \/ RunPlugin(p, "analysis", "adding") \/ RunPlugin(p, "visualization", "exporting")
         \/ ReadDocument(p) \/ WriteDraft(p) \/ WriteReport(p)
  PROVE  DeliveryInv'
<1>0. RunShape /\ ChainPhase(p) /\ ChainResult(p)
  BY DEF DraftInv, DeliveryInv
<1>1. CASE RunPlugin(p, "analysis", "adding") \/ RunPlugin(p, "visualization", "exporting")
  <2>1. /\ UNCHANGED <<evidence, figure>> /\ ~ AllReported(p) /\ ~ Drawing(p)
        /\ run[p].phase = "next" /\ request.rows = "given"
    BY <1>1 DEF RunPlugin, Turn, In, files, Drawing
  <2>2. CASE Ends(p, "failed")
    BY <2>1, <2>2, ReadersKeepDelivery
  <2>3. CASE Enters(p, "adding") /\ Roles[run[p].turn] = "analysis"
    <3>1. Keeps(p) /\ run'[p].phase = "adding" /\ run'[p].done = 0
          /\ run'[p].turn = run[p].turn /\ run'[p].outcome = run[p].outcome
      BY <1>0, <2>1, <2>3, EntersShape DEF Phases, ChainPhase
    <3>2. ChainPhase(p)'
      BY <1>0, <2>1, <2>3, <3>1, CountsAreNaturals
      DEF ChainPhase, Drawing, Busy, AllReported, ChainResult
    <3> QED  BY <2>1, <3>1, <3>2, PhaseKeepsDelivery
  <2>4. CASE Enters(p, "exporting") /\ Roles[run[p].turn] = "visualization"
    <3>1. Keeps(p) /\ run'[p].phase = "exporting" /\ run'[p].done = 0
          /\ run'[p].turn = run[p].turn /\ run'[p].outcome = run[p].outcome
      BY <1>0, <2>1, <2>4, EntersShape DEF Phases, ChainPhase
    <3>2. ChainPhase(p)'
      BY <1>0, <2>1, <2>4, <3>1, CountsAreNaturals
      DEF ChainPhase, Drawing, Busy, AllReported, ChainResult
    <3> QED  BY <2>1, <3>1, <3>2, PhaseKeepsDelivery
  <2> QED  BY <1>1, <2>2, <2>3, <2>4 DEF RunPlugin, Turn
<1>2. CASE ReadDocument(p)
  <2>1. /\ UNCHANGED <<evidence, figure>> /\ ~ AllReported(p) /\ ~ Drawing(p)
        /\ Roles[run[p].turn] = "paper"
    BY <1>2 DEF ReadDocument, Turn, In, files, Drawing
  <2>2. CASE \E result : Ends(p, result)
    BY <2>1, <2>2, ReadersKeepDelivery
  <2>3. CASE run' = [run EXCEPT ![p].phase = "asking", ![p].base = document]
    <3>1. Keeps(p) /\ run'[p].phase = "asking"
          /\ run'[p].turn = run[p].turn /\ run'[p].outcome = run[p].outcome
      BY <1>0, <2>3 DEF RunShape, Keeps
    <3>2. ChainPhase(p)'
      BY <1>0, <2>1, <3>1 DEF ChainPhase, Drawing, Busy, AllReported, ChainResult
    <3> QED  BY <2>1, <3>1, <3>2, PhaseKeepsDelivery
  <2> QED  BY <1>2, <2>2, <2>3 DEF ReadDocument
<1>3. CASE WriteDraft(p)
  <2>1. UNCHANGED <<evidence, figure>> /\ run[p].phase = "asking" /\ Enters(p, "written")
    BY <1>3 DEF WriteDraft, In
  <2>2. Keeps(p) /\ run'[p].phase = "written"
        /\ run'[p].turn = run[p].turn /\ run'[p].outcome = run[p].outcome
    BY <1>0, <2>1, EntersShape DEF Phases
  <2>3. ChainPhase(p)' /\ ~ Drawing(p)
    BY <1>0, <2>1, <2>2 DEF ChainPhase, Drawing, Busy, AllReported
  <2> QED  BY <2>1, <2>2, <2>3, PhaseKeepsDelivery
<1>4. CASE WriteReport(p)
  <2>1. /\ UNCHANGED <<evidence, figure>> /\ run[p].phase = "next" /\ Enters(p, "manifest")
        /\ AllReported(p) /\ (run[p].outcome = "complete" => report' = "complete")
    BY <1>4 DEF WriteReport, In
  <2>2. Keeps(p) /\ run'[p].phase = "manifest"
        /\ run'[p].turn = run[p].turn /\ run'[p].outcome = run[p].outcome
    BY <1>0, <2>1, EntersShape DEF Phases
  <2>3. ChainPhase(p)' /\ ~ Drawing(p)
    BY <1>0, <2>1, <2>2 DEF ChainPhase, Drawing, AllReported
  <2> QED  BY <2>1, <2>2, <2>3, PhaseKeepsDelivery
<1> QED  BY <1>1, <1>2, <1>3, <1>4

(* One item of an agent: the last one completes what the agent reports.     *)
LEMMA EvidenceKeepsDelivery ==
  ASSUME IInv, DraftInv, DeliveryInv, NEW p \in Callers, At(p, "executing"),
         UNCHANGED <<caller, executed, request>>, AddEvidence(p)
  PROVE  DeliveryInv'
<1> DEFINE next == run[p].done + 1
<1>1. /\ RunShape /\ FilesShape /\ ChainResult(p) /\ Busy(p, "analysis")
      /\ request.rows = "given" /\ run[p].done < Metrics /\ 1..run[p].done \subseteq evidence
      /\ ~ AllReported(p) /\ ~ Drawing(p) /\ figure' = figure /\ run[p].phase = "adding"
  BY DEF AddEvidence, In, DraftInv, DeliveryInv, ChainPhase, Busy, Drawing
<1>2. run[p].done \in Nat /\ Metrics \in Nat /\ next \in 1..Metrics
  BY <1>1, CountsAreNaturals DEF RunShape
<1>3. CASE Ends(p, "failed") /\ UNCHANGED evidence
  BY <1>1, <1>3, ReadersKeepDelivery
<1>4. CASE evidence' = evidence \cup {next}
  <2>1. FilesShape' /\ 1..next \subseteq evidence'
    <3>1. FilesShape'
      BY <1>1, <1>2, <1>4 DEF FilesShape
    <3>2. \A i \in 1..next : i \in 1..run[p].done \/ i = next
      BY <1>2
    <3> QED  BY <1>1, <1>4, <3>1, <3>2
  <2>2. (Analysed => Analysed') /\ (Drawn <=> Drawn')
    BY <1>1, <1>4, <2>1 DEF Analysed, Drawn, FilesShape
  <2>3. CASE next = Metrics /\ Ends(p, "completed")
    <3>1. Analysed' /\ Roles[run[p].turn] = "analysis"
      BY <1>1, <2>1, <2>3 DEF Analysed, FilesShape, Busy
    <3>2. ChainPhase(p)' /\ ChainResult(p)'
      BY <1>1, <2>1, <2>2, <2>3, <3>1, PassedOn
    <3> QED  BY <2>1, <3>2, OnlyTheChain
  <2>4. CASE next # Metrics /\ run' = [run EXCEPT ![p].done = next]
    <3>1. /\ run'[p].phase = "adding" /\ run'[p].done = next
          /\ run'[p].turn = run[p].turn /\ run'[p].outcome = run[p].outcome
      BY <1>1, <1>2, <2>4 DEF RunShape
    <3>2. ChainPhase(p)'
      BY <1>1, <1>2, <2>1, <2>4, <3>1 DEF ChainPhase, Drawing, Busy, AllReported
    <3>3. ChainResult(p)'
      BY <1>1, <2>2, <3>1 DEF ChainResult, Passed, Busy, Drawing
    <3> QED  BY <2>1, <3>2, <3>3, OnlyTheChain
  <2> QED  BY <1>3, <2>3, <2>4 DEF AddEvidence
<1> QED  BY <1>3, <1>4 DEF AddEvidence

LEMMA MemberKeepsDelivery ==
  ASSUME IInv, DraftInv, DeliveryInv, NEW p \in Callers, At(p, "executing"),
         UNCHANGED <<caller, executed, request>>, WriteMember(p) \/ RegisterMember(p)
  PROVE  DeliveryInv'
<1> DEFINE next == run[p].done + 1
<1>1. /\ RunShape /\ FilesShape /\ ChainResult(p) /\ Busy(p, "visualization")
      /\ request.rows = "given" /\ run[p].done < Members
      /\ \A i \in 1..run[p].done : figure[i] = "registered"
      /\ ~ AllReported(p) /\ Drawing(p) /\ evidence' = evidence
  BY DEF WriteMember, RegisterMember, In, DraftInv, DeliveryInv, ChainPhase, Busy, Drawing
<1>2. run[p].done \in Nat /\ Members \in Nat /\ next \in 1..Members
  BY <1>1, CountsAreNaturals DEF RunShape
<1>3. Analysed <=> Analysed'
  BY <1>1 DEF Analysed
<1>4. CASE Ends(p, "failed") /\ UNCHANGED figure
  <2>1. FilesShape'
    BY <1>1, <1>4 DEF FilesShape
  <2>2. ChainPhase(p)' /\ ChainResult(p)'
    BY <1>1, <1>4, <2>1, PassedOn
  <2> QED  BY <2>1, <2>2, OnlyTheChain
<1>5. CASE WriteMember(p) /\ Enters(p, "unregistered")
  <2>1. /\ Enters(p, "unregistered")
        /\ \/ UNCHANGED figure
           \/ figure' = [figure EXCEPT ![next] = IF next < Members /\ @ = "registered" THEN @ ELSE "file"]
    BY <1>5 DEF WriteMember
  <2>2. FilesShape' /\ \A i \in 1..run[p].done : figure'[i] = "registered"
    BY <1>1, <1>2, <2>1 DEF FilesShape
  <2>3. /\ run'[p].phase = "unregistered" /\ run'[p].done = run[p].done
        /\ run'[p].turn = run[p].turn /\ run'[p].outcome = run[p].outcome
    BY <1>1, <2>1, EntersShape DEF Phases
  <2>4. ChainPhase(p)'
    BY <1>1, <2>2, <2>3 DEF ChainPhase, Drawing, Busy, AllReported
  <2>5. ChainResult(p)'
    BY <1>1, <1>3, <2>3 DEF ChainResult, Passed, Busy, Drawing
  <2> QED  BY <2>2, <2>4, <2>5, OnlyTheChain
<1>6. CASE /\ figure' = [figure EXCEPT ![next] = "registered"]
           /\ \/ next = Members /\ Ends(p, "completed")
              \/ next # Members /\ run' = [run EXCEPT ![p].done = next, ![p].phase = "exporting"]
  <2>2. FilesShape' /\ \A i \in 1..next : figure'[i] = "registered"
    BY <1>1, <1>2, <1>6 DEF FilesShape
  <2>3. CASE next = Members /\ Ends(p, "completed")
    <3>1. Drawn' /\ Roles[run[p].turn] = "visualization"
      BY <1>1, <2>2, <2>3 DEF Drawn, Busy
    <3>2. ChainPhase(p)' /\ ChainResult(p)'
      BY <1>1, <1>3, <2>2, <2>3, <3>1, PassedOn
    <3> QED  BY <2>2, <3>2, OnlyTheChain
  <2>4. CASE next # Members /\ run' = [run EXCEPT ![p].done = next, ![p].phase = "exporting"]
    <3>1. /\ run'[p].phase = "exporting" /\ run'[p].done = next
          /\ run'[p].turn = run[p].turn /\ run'[p].outcome = run[p].outcome
      <4>1. PICK n \in Nat : n = next
        BY <1>2
      <4>2. run' = [run EXCEPT ![p].done = n, ![p].phase = "exporting"]
        BY <1>1, <2>4, <4>1 DEF RunShape
      <4>3. /\ run'[p].phase = "exporting" /\ run'[p].done = n
            /\ run'[p].turn = run[p].turn /\ run'[p].outcome = run[p].outcome
        BY <1>1, <4>2 DEF RunShape
      <4> QED  BY <4>1, <4>3
    <3>2. ChainPhase(p)'
      <4>1. next \in 1..(Members - 1)
        BY <1>2, <2>4
      <4> QED  BY <1>1, <1>2, <2>2, <3>1, <4>1 DEF ChainPhase, Drawing, Busy, AllReported
    <3>3. ChainResult(p)'
      BY <1>1, <1>3, <3>1 DEF ChainResult, Passed, Busy, Drawing
    <3> QED  BY <2>2, <3>2, <3>3, OnlyTheChain
  <2> QED  BY <1>6, <2>3, <2>4
<1> QED  BY <1>4, <1>5, <1>6 DEF WriteMember, RegisterMember

(* The result of a chain is promised only once all of it is there, and stays. *)
LEMMA LeavingKeepsDelivery ==
  ASSUME IInv, DraftInv, DeliveryInv, NEW p \in Callers,
         WriteManifest(p) \/ ReportRaises(p) \/ Kill(p)
  PROVE  DeliveryInv'
<1>1. UNCHANGED <<request, evidence, figure, report, executed>>
  BY DEF WriteManifest, ReportRaises, Kill, Execute, ExecuteRaises, Crash, Store, files
<1>2. run' = [run EXCEPT ![p] = Ready] /\ run \in [Callers -> [turn : Nat, outcome : Outcomes,
        phase : Phases, done : Nat, base : Texts]]
  BY DEF WriteManifest, ReportRaises, Kill, DraftInv, RunShape
<1>3. PICK pc \in PCs \ {"executing"} :
        /\ caller' = [caller EXCEPT ![p] = pc]
        /\ pc = "complete" => In(p, "manifest") /\ run[p].outcome = "complete"
  <2>1. CASE WriteManifest(p)
    <3>1. run[p].outcome \in PCs \ {"executing"}
      BY <1>2 DEF PCs, Outcomes
    <3>2. caller' = [caller EXCEPT ![p] = run[p].outcome] /\ In(p, "manifest")
      BY <2>1 DEF WriteManifest, Execute, Goto
    <3> QED  BY <3>1, <3>2
  <2>2. CASE ReportRaises(p)
    <3>1. "raised" \in PCs \ {"executing"} /\ caller' = [caller EXCEPT ![p] = "raised"]
      BY <2>2 DEF ReportRaises, ExecuteRaises, Goto, PCs
    <3> QED  BY <3>1
  <2>3. CASE Kill(p)
    BY <2>3 DEF Kill, Crash, Return, Goto, PCs, Outcomes
  <2> QED  BY <2>1, <2>2, <2>3
<1>4. pc = "complete" => Delivered
  <2> SUFFICES ASSUME pc = "complete" PROVE Delivered
    OBVIOUS
  <2>1. ChainPhase(p) /\ ChainResult(p) /\ run[p].phase = "manifest" /\ run[p].outcome = "complete"
    BY <1>3 DEF DeliveryInv, In
  <2>2. \A role : HasRole(role) => Passed(p, role)
    BY <1>2, <2>1, LenRoles DEF ChainPhase, AllReported, HasRole, Passed
  <2> QED  BY <2>1, <2>2 DEF ChainPhase, ChainResult, Drawing, Delivered
<1>5. (Delivered => Delivered') /\ FilesShape'
  BY <1>1 DEF Delivered, Analysed, Drawn, DeliveryInv, FilesShape
<1>6. \A q \in Callers \ {p} : /\ At(q, "executing")' <=> At(q, "executing")
                               /\ At(q, "complete")' <=> At(q, "complete")
                               /\ run'[q] = run[q]
  BY <1>2, <1>3 DEF At, IInv, TypeOK
<1>7. ~ At(p, "executing")' /\ (At(p, "complete")' => Delivered)
  BY <1>3, <1>4 DEF At, IInv, TypeOK
<1>8. ASSUME NEW q \in Callers, At(q, "executing")' PROVE ChainPhase(q)' /\ ChainResult(q)'
  <2>1. q # p /\ ChainPhase(q) /\ ChainResult(q) /\ run'[q] = run[q]
    BY <1>6, <1>7, <1>8 DEF DeliveryInv
  <2>2. ChainPhase(q)'
    BY <1>1, <2>1 DEF ChainPhase, Busy, Drawing, AllReported
  <2>3. ChainResult(q)'
    BY <1>1, <2>1 DEF ChainResult, Passed, Drawing, AllReported, Analysed, Drawn
  <2> QED  BY <2>2, <2>3
<1> QED  BY <1>1, <1>5, <1>6, <1>7, <1>8 DEF DeliveryInv

(* A process outside the chain changes nothing a chain has left; it claims  *)
(* and then starts with the first agent, or stores a result.                *)
LEMMA OutsideKeepsDelivery ==
  ASSUME IInv, DraftInv, DeliveryInv, NEW p \in Callers, Begin(p) \/ Outside(p)
  PROVE  DeliveryInv'
<1>1. UNCHANGED <<request, run, evidence, figure, report>>
  BY DEF Begin, Outside, chainVars, files
<1>2. PICK pc \in PCs : caller' = [caller EXCEPT ![p] = pc] /\ pc # "complete" /\ ~ At(p, "executing")
  <2>1. CASE Begin(p)
    BY <2>1 DEF Begin, Create, ResumeRead, ReleaseVerify, Goto, At, PCs
  <2>2. CASE Activate(p) \/ Await(p) \/ Reuse(p) \/ Resume(p) \/ AuthBlock(p) \/ Complete(p)
    BY <2>2 DEF Activate, Await, Reuse, Resume, AuthBlock, Complete, EnterOrRaise, Return,
                Goto, At,
                PCs
  <2>3. CASE Gate(p) \/ CheckApproval(p) \/ Claim(p) \/ NotClaimed(p) \/ ReleaseClaim(p)
    BY <2>3 DEF Gate, CheckApproval, Claim, NotClaimed, ReleaseClaim, Return, Goto, At, PCs
  <2>4. CASE \E outcome \in Outcomes : RecordCheckpoint(p, outcome)
    BY <2>4 DEF RecordCheckpoint, Goto, At, PCs, Outcomes
  <2> QED  BY <2>1, <2>2, <2>3, <2>4 DEF Outside
<1>3. executed' => executed \/ At(p, "complete")
  BY DEF Begin, Create, ResumeRead, ReleaseVerify, Outside, Activate, Await, Reuse, Resume,
         AuthBlock,
         Complete, EnterOrRaise, Enter, Gate, CheckApproval, Claim, NotClaimed, ReleaseClaim,
         RecordCheckpoint, Store
<1>4. (Delivered <=> Delivered') /\ FilesShape'
  BY <1>1 DEF Delivered, Analysed, Drawn, DeliveryInv, FilesShape
<1>5. \A q \in Callers : At(q, "complete")' => At(q, "complete")
  BY <1>2 DEF At, IInv, TypeOK
<1>6. ASSUME NEW q \in Callers, At(q, "executing")' PROVE ChainPhase(q)' /\ ChainResult(q)'
  <2>1. CASE At(q, "executing")
    <3>1. ChainPhase(q)'
      BY <1>1, <2>1 DEF DeliveryInv, ChainPhase, Busy, Drawing, AllReported
    <3>2. ChainResult(q)'
      BY <1>1, <2>1 DEF DeliveryInv, ChainResult, Passed, Drawing, AllReported, Analysed, Drawn
    <3> QED  BY <3>1, <3>2
  <2>2. CASE ~ At(q, "executing")
    <3>1. run'[q] = Ready
      BY <1>1, <2>2 DEF DraftInv, OnlyInside
    <3>2. ChainPhase(q)'
      BY <3>1 DEF ChainPhase, Drawing, Ready
    <3>3. ChainResult(q)'
      BY <3>1, LenRoles DEF ChainResult, Passed, Ready
    <3> QED  BY <3>2, <3>3
  <2> QED  BY <2>1, <2>2
<1> QED  BY <1>3, <1>4, <1>5, <1>6 DEF DeliveryInv

LEMMA ChainKeepsDelivery == IInv /\ DraftInv /\ DeliveryInv /\ [ChainNext]_allVars => DeliveryInv'
<1> SUFFICES ASSUME IInv, DraftInv, DeliveryInv, [ChainNext]_allVars PROVE DeliveryInv'
  OBVIOUS
<1>1. ASSUME NEW p \in Callers, Agent(p) PROVE DeliveryInv'
  <2>1. At(p, "executing") /\ UNCHANGED <<caller, executed, request>>
    BY <1>1, AgentIsInside DEF vars
  <2> QED  BY <1>1, <2>1, ReadAgents, PhaseAgents, EvidenceKeepsDelivery,
              MemberKeepsDelivery DEF Agent
<1>2. ASSUME NEW p \in Callers, Begin(p) \/ ChainStep(p) \/ Kill(p) PROVE DeliveryInv'
  BY <1>1, <1>2, OutsideKeepsDelivery, LeavingKeepsDelivery DEF ChainStep
<1>3. CASE \/ \E scope \in {"mini", "full"} : Owner(scope)
           \/ \E target \in Marks : Embedding(target)
           \/ AuthorSaves \/ UNCHANGED allVars
  <2>1. UNCHANGED <<caller, executed, request, run, evidence, figure, report>>
    BY <1>3 DEF Owner, Embedding, Approve, Mark, Enter, AuthorSaves, chainVars, files,
                allVars, vars
  <2> QED  BY <2>1 DEF DeliveryInv, FilesShape, At, Delivered, Analysed, Drawn, ChainPhase,
                       ChainResult,
                      Passed, Busy, Drawing, AllReported
<1> QED  BY <1>2, <1>3 DEF ChainNext

(* Whatever fails, is killed or is repeated, a stored complete result means   *)
(* that the report says so and that the evidence and the figure it tells of   *)
(* are on record (ResearchOSRuntime.execute, record_checkpoint).            *)
THEOREM CompleteMeansDelivered == ChainSpec => []CompleteIsDelivered
<1>1. ChainInit => DeliveryInv
  BY DEF ChainInit, Init, DeliveryInv, FilesShape, At
<1>2. DeliveryInv => CompleteIsDelivered
  BY DEF DeliveryInv, Delivered, Analysed, Drawn, CompleteIsDelivered
<1> QED  BY <1>1, <1>2, ChainInvariant, ChainKeepsDelivery, PTL DEF ChainSpec
=============================================================================
