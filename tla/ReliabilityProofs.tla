--------------------------- MODULE ReliabilityProofs ---------------------------
(***************************************************************************)
(* The two recoverable operations of docs/u4c-reliability.md, proved for     *)
(* every number of their calls and wherever between two writes these are     *)
(* killed.  Result updates: the audit trail, the author's text and the       *)
(* approved text.  External imports: one measurement per run, final evidence *)
(* and kept mismatches.                                                     *)
(***************************************************************************)
EXTENDS ResultUpdate, ExternalImport, TLAPS

(* Result updates.                                                          *)

(* The program of an apply around the replacement; a repair joins it after.  *)
Before == {"checked", "claimed", "replacing"}
After == {"replaced", "rechecking", "finishing", "recorded"}

(* What an apply has read of the approval stays so.                          *)
CallIsCurrent == call.pc \in Before \cup After =>
  /\ Bound(call.proposal)
  /\ call.approval = approvalFile[call.proposal]
  /\ call.approval \in 1..approvals[call.proposal]

(* What it has read of the manuscript is what it was approved for; the owner  *)
(* may have saved another text since, and only a comparison tells.           *)
CallText ==
  /\ call.pc \in Before => call.text = Old[call.proposal]
  /\ call.pc = "replacing" => target = Old[call.proposal]
  /\ call.pc \in {"finishing", "recorded"} => target = New[call.proposal]

(* An update is not finished twice: while it is, its row is still APPLYING,   *)
(* and once it is, there is a baseline for the file.                         *)
CallState == call.pc \in (Before \cup After) \ {"checked"} =>
  state[call.proposal] = "APPLYING"
CallRecord == call.pc = "recorded" => applied[call.proposal] = call.approval
AppliedHasBaseline == (\E p \in Proposals : state[p] = "APPLIED") => baseline # NoBaseline

IInv == /\ TypeOK
        /\ CallIsCurrent /\ CallText /\ CallState /\ CallRecord
        /\ AppliedHasBaseline
        /\ RecordsAgree

----------------------------------------------------------------------------
(* A call under way knows its proposal and its approval.                    *)
LEMMA CallTypes ==
  ASSUME TypeOK, call.pc # "idle"
  PROVE  call \in [pc : PCs \ {"idle"}, proposal : Proposals \cup {NoProposal}, approval : 0..MaxApprovals,
                   text : Contents]
BY DEF TypeOK, Idle

(* An untouched manuscript without updates satisfies the invariant.         *)
LEMMA InitIInv == Init => IInv
<1> SUFFICES ASSUME Init PROVE IInv
  OBVIOUS
<1>1. TypeOK
  BY TextAssumption, BoundsAssumption DEF Init, TypeOK, States
<1>2. CallIsCurrent /\ CallText /\ CallState /\ CallRecord
  BY DEF Init, Idle, Before, After, CallIsCurrent, CallText, CallState, CallRecord
<1> QED  BY <1>1, <1>2 DEF Init, IInv, AppliedHasBaseline, RecordsAgree

(* A proposal is built or approved: its own state leaves APPLIED behind.     *)
LEMMA ProposalStep ==
  ASSUME IInv, NEW p \in Proposals, Build(p) \/ BuildRow(p) \/ Approve(p) \/ ApproveFile(p)
  PROVE  IInv'
<1>1. call'.pc \notin Before \cup After
  BY DEF Build, BuildRow, Approve, ApproveFile, Begin, Return, Idle, Before, After
<1>2. TypeOK'
  <2>1. CASE Build(p)
    BY <2>1, BoundsAssumption DEF IInv, TypeOK, Build, Begin, PCs
  <2>2. CASE BuildRow(p)
    BY <2>2 DEF IInv, TypeOK, BuildRow, Return, States
  <2>3. CASE Approve(p)
    <3>1. approvals[p] + 1 \in 0..MaxApprovals
      BY <2>3, BoundsAssumption DEF IInv, TypeOK, Approve
    <3>2. approvals' = [approvals EXCEPT ![p] = approvals[p] + 1]
      BY <2>3 DEF Approve
    <3> QED  BY <2>3, <3>1, <3>2 DEF IInv, TypeOK, Approve, Begin, PCs, States
  <2>4. CASE ApproveFile(p)
    <3>1. call.approval \in 0..MaxApprovals
      BY <2>4, CallTypes DEF IInv, ApproveFile, At
    <3> QED  BY <2>4, <3>1 DEF IInv, TypeOK, ApproveFile, Return
  <2> QED  BY <2>1, <2>2, <2>3, <2>4
<1>3. /\ UNCHANGED <<applied, baseline>>
      /\ \A q \in Proposals : state'[q] = "APPLIED" => state[q] = "APPLIED"
  BY DEF IInv, TypeOK, Build, BuildRow, Approve, ApproveFile
<1>4. \A q \in Proposals : approvals[q] \in Nat /\ approvals'[q] \in Nat
                           /\ approvals[q] <= approvals'[q]
  BY BoundsAssumption DEF IInv, TypeOK, Build, BuildRow, Approve, ApproveFile
<1>5. RecordsAgree'
  BY <1>3, <1>4 DEF IInv, TypeOK, RecordsAgree
<1>6. CallIsCurrent' /\ CallText' /\ CallState' /\ CallRecord'
  BY <1>1 DEF CallIsCurrent, Bound, CallText, CallState, CallRecord, Before, After
<1> QED  BY <1>2, <1>3, <1>5, <1>6 DEF IInv, AppliedHasBaseline

(* An apply begins, or a repair joins it: only the call changes.            *)
LEMMA BeginStep ==
  ASSUME IInv, NEW p \in Proposals, Apply(p) \/ Repair(p)
  PROVE  IInv'
<1>1. UNCHANGED <<target, inputs, stored, kills>>
  BY DEF Apply, Repair
<1>2. /\ call'.proposal = p
      /\ \/ call'.pc = "rollingback" /\ call'.approval = 0
         \/ call'.pc = "checked" /\ call'.text = Old[p] /\ ApprovalForRecovery(p)
            /\ call'.approval = approvalFile[p]
         \/ /\ call'.pc = "rechecking" /\ ApprovalForRecovery(p)
            /\ call'.approval = approvalFile[p]
            /\ Forward(p)
  BY DEF Apply, Repair, Begin, Forward
<1>3. Forward(p) => state[p] = "APPLYING"
  BY BoundsAssumption
  DEF IInv, Forward, Complete, AppliedHasBaseline, RecordsAgree, TypeOK
<1>4. TypeOK'
  <2>1. \E pc \in PCs \ {"idle"}, a \in 0..MaxApprovals : Begin(p, pc, a)
    BY BoundsAssumption DEF Apply, Repair, PCs, IInv, TypeOK, NoProposal
  <2> QED  BY <1>1, <2>1 DEF IInv, TypeOK, Begin, stored
<1>5. CallIsCurrent' /\ CallText' /\ CallState' /\ CallRecord'
  BY <1>1, <1>2, <1>3
  DEF CallIsCurrent, Bound, CallText, CallState, CallRecord, Before, After,
      ApprovalForRecovery, stored
<1> QED
  BY <1>1, <1>4, <1>5 DEF IInv, stored, AppliedHasBaseline, RecordsAgree

(* The steps of an apply up to the record leave what is recorded alone.      *)
LEMMA ApplyStep ==
  ASSUME IInv, NEW p \in Proposals,
         \/ ApplyClaim(p) \/ ApplyCheck(p) \/ ApplyRefused(p)
         \/ Replace(p) \/ Verify(p) \/ RollBack(p)
  PROVE  IInv'
<1>1. /\ call \in [pc : PCs \ {"idle"}, proposal : Proposals \cup {NoProposal}, approval : 0..MaxApprovals,
                   text : Contents]
      /\ call.proposal = p
  BY CallTypes DEF IInv, ApplyClaim, ApplyCheck, ApplyRefused, Replace, Verify, RollBack, At
<1>2. /\ UNCHANGED <<inputs, files, approvals, approvalFile, applied, baseline, kills>>
      /\ \A q \in Proposals : state'[q] = "APPLIED" => state[q] = "APPLIED"
  BY DEF IInv, TypeOK, ApplyClaim, ApplyCheck, ApplyRefused, Replace, Verify, RollBack, stored
<1>3. TypeOK'
  <2>1. target' \in Contents /\ state' \in [Proposals -> States]
    BY TextAssumption
    DEF IInv, TypeOK, ApplyClaim, ApplyCheck, ApplyRefused, Replace, Verify, RollBack, stored, States
  <2>2. call' = Idle \/ \E pc \in PCs \ {"idle"} : call' = [call EXCEPT !.pc = pc]
    BY DEF ApplyClaim, ApplyCheck, ApplyRefused, Replace, Verify, RollBack, Goto, Return, PCs
  <2> QED  BY <1>1, <1>2, <2>1, <2>2 DEF IInv, TypeOK
<1>4. CallIsCurrent' /\ CallText' /\ CallState' /\ CallRecord'
  <2>1. CASE ApplyClaim(p)
    BY <1>1, <1>2, <2>1 DEF IInv, TypeOK, ApplyClaim, At, Goto, CallIsCurrent, Bound, CallText,
       CallState, CallRecord, Before, After
  <2>2. CASE ApplyCheck(p)
    BY <1>1, <2>2 DEF IInv, ApplyCheck, At, Goto, CallIsCurrent, Bound, CallText, CallState,
       CallRecord, Before, After, stored
  <2>3. CASE Replace(p)
    BY <1>1, <2>3 DEF IInv, Replace, At, Goto, CallIsCurrent, Bound, CallText, CallState,
       CallRecord, Before, After, stored
  <2>4. CASE Verify(p)
    BY <1>1, <2>4 DEF IInv, Verify, At, Goto, Return, Idle, CallIsCurrent, Bound, CallText,
       CallState, CallRecord, Before, After, stored
  <2>5. CASE RollBack(p)
    BY <2>5 DEF RollBack, Return, Idle, CallIsCurrent, Bound, CallText, CallState, CallRecord,
       Before, After
  <2>6. CASE ApplyRefused(p)
    BY <2>6 DEF ApplyRefused, Return, Idle, CallIsCurrent, Bound, CallText, CallState,
       CallRecord, Before, After
  <2> QED  BY <2>1, <2>2, <2>3, <2>4, <2>5, <2>6
<1>5. RecordsAgree' /\ AppliedHasBaseline'
  BY <1>2 DEF IInv, RecordsAgree, AppliedHasBaseline
<1> QED  BY <1>3, <1>4, <1>5 DEF IInv

(* _finish_applied: the record, then baseline and state together.           *)
LEMMA FinishStep ==
  ASSUME IInv, NEW p \in Proposals, FinishFile(p) \/ FinishRows(p)
  PROVE  IInv'
<1>1. /\ call \in [pc : PCs \ {"idle"}, proposal : Proposals \cup {NoProposal}, approval : 0..MaxApprovals,
                   text : Contents]
      /\ call.proposal = p /\ call.pc \in After
  BY CallTypes DEF IInv, FinishFile, FinishRows, At, After
<1>2. /\ call.approval \in 1..approvals[p] /\ call.approval \in 1..MaxApprovals
      /\ state[p] = "APPLYING"
  BY <1>1, BoundsAssumption DEF IInv, TypeOK, CallIsCurrent, Bound, CallState, Before, After
<1>3. CASE FinishFile(p)
  <2>1. /\ applied' = [applied EXCEPT ![p] = call.approval]
        /\ call' = [call EXCEPT !.pc = "recorded"]
        /\ UNCHANGED <<target, inputs, files, state, approvals, approvalFile, kills>>
    BY <1>3 DEF FinishFile, Goto
  <2>2. \/ baseline' = baseline
        \/ baseline.proposal = p /\ baseline' = [baseline EXCEPT !.dated = FALSE]
    BY <1>3 DEF FinishFile
  <2>3. baseline.proposal = p => baseline \in [proposal : Proposals,
                                     approval : 1..MaxApprovals, dated : BOOLEAN]
    BY NoProposalAssumption DEF IInv, TypeOK, NoBaseline
  <2>4. /\ baseline'.proposal = baseline.proposal
        /\ baseline.proposal # p => baseline' = baseline
        /\ baseline' \in [proposal : Proposals, approval : 1..MaxApprovals, dated : BOOLEAN]
                         \cup {NoBaseline}
    BY <2>2, <2>3 DEF IInv, TypeOK
  <2>5. TypeOK'
    BY <1>1, <1>2, <2>1, <2>4 DEF IInv, TypeOK, PCs
  <2>6. CallIsCurrent' /\ CallText' /\ CallState' /\ CallRecord'
    <3>1. call'.pc = "recorded" /\ call'.proposal = p /\ call'.approval = call.approval
      BY <1>1, <2>1
    <3>2. call.pc = "finishing" /\ applied'[p] = call.approval
      BY <1>3, <2>1 DEF FinishFile, At, IInv, TypeOK
    <3>3. CallIsCurrent' /\ CallState'
      BY <1>1, <2>1, <3>1 DEF IInv, CallIsCurrent, Bound, CallState, Before, After
    <3>4. CallText' /\ CallRecord'
      BY <1>1, <2>1, <3>1, <3>2 DEF IInv, CallText, CallRecord, Before
    <3> QED  BY <3>3, <3>4
  <2>7. RecordsAgree'
    BY <1>2, <2>1, <2>4 DEF IInv, TypeOK, RecordsAgree
  <2>8. AppliedHasBaseline'
    BY <2>1, <2>2, <2>3, <2>4, NoProposalAssumption DEF IInv, AppliedHasBaseline, NoBaseline
  <2> QED  BY <2>5, <2>6, <2>7, <2>8 DEF IInv
<1>4. CASE FinishRows(p)
  <2>1. /\ baseline' = [proposal |-> p, approval |-> call.approval, dated |-> TRUE]
        /\ state' = [state EXCEPT ![p] = "APPLIED"]
        /\ call' = Idle /\ applied[p] = call.approval
        /\ UNCHANGED <<target, inputs, files, approvals, approvalFile, applied, kills>>
    BY <1>4, <1>1 DEF FinishRows, Return, At, IInv, CallRecord
  <2>2. TypeOK'
    BY <1>1, <1>2, <2>1 DEF IInv, TypeOK, States
  <2>3. CallIsCurrent' /\ CallText' /\ CallState' /\ CallRecord'
    BY <2>1 DEF Idle, CallIsCurrent, Bound, CallText, CallState, CallRecord, Before, After
  <2>4. RecordsAgree'
    BY <1>2, <2>1 DEF IInv, TypeOK, RecordsAgree
  <2>5. AppliedHasBaseline'
    BY <2>1, NoProposalAssumption DEF AppliedHasBaseline, NoBaseline
  <2> QED  BY <2>2, <2>3, <2>4, <2>5 DEF IInv
<1> QED  BY <1>3, <1>4

(* The author edits, bindings change, a call is killed.                     *)
LEMMA OutsideStep ==
  ASSUME IInv,
         \/ \E content \in OwnerTexts \ {target} : Edit(content)
         \/ Rebind \/ Kill \/ UNCHANGED vars
  PROVE  IInv'
<1>1. CASE UNCHANGED vars
  BY <1>1 DEF vars, stored, IInv, TypeOK, CallIsCurrent, Bound, CallText, CallState, CallRecord,
     AppliedHasBaseline, RecordsAgree
<1>2. CASE \E content \in OwnerTexts \ {target} : Edit(content)
  <2>1. UNCHANGED <<inputs, stored, call, kills>> /\ target' \in Contents
    BY <1>2, TextAssumption DEF Edit
  <2>2. TypeOK'
    BY <2>1 DEF IInv, TypeOK, stored
  <2>3. call.pc \in {"idle", "checked", "claimed", "replaced"}
    BY <1>2 DEF Edit
  <2>4. CallIsCurrent' /\ CallText' /\ CallState' /\ CallRecord'
    BY <2>1, <2>3 DEF IInv, CallIsCurrent, Bound, CallText, CallState, CallRecord, Before, After,
                      stored
  <2> QED
    BY <2>1, <2>2, <2>4 DEF IInv, stored, AppliedHasBaseline, RecordsAgree
<1>3. CASE Rebind \/ Kill
  <2>1. UNCHANGED <<target, stored>> /\ call' = Idle
    BY <1>3 DEF Rebind, Kill, Return
  <2>2. inputs' \in Inputs /\ kills' \in 0..MaxKills
    BY <1>3, BoundsAssumption DEF IInv, TypeOK, Rebind, Kill
  <2>3. CallIsCurrent' /\ CallText' /\ CallState' /\ CallRecord'
    BY <2>1 DEF Idle, CallIsCurrent, Bound, CallText, CallState, CallRecord, Before, After
  <2> QED
    BY <2>1, <2>2, <2>3 DEF IInv, TypeOK, stored, AppliedHasBaseline, RecordsAgree
<1> QED  BY <1>1, <1>2, <1>3

(* A patch changes the manuscript and nothing that is recorded, outside the   *)
(* steps of an apply.                                                       *)
LEMMA PatchStep ==
  ASSUME IInv, (\E r \in PatchRequests : PatchWrite(r)) \/ PatchEnd
  PROVE  IInv'
<1>1. UNCHANGED <<inputs, stored, kills>> /\ call'.pc \notin Before \cup After
  BY DEF PatchWrite, PatchEnd, Begin, Return, Idle, Before, After
<1>2. TypeOK'
  <2>1. CASE \E r \in PatchRequests : PatchWrite(r)
    <3>1. target' \in Contents
      BY <2>1, TextAssumption DEF PatchWrite
    <3>2. call' \in [pc : PCs \ {"idle"}, proposal : Proposals \cup {NoProposal},
                    approval : 0..MaxApprovals, text : Contents]
      BY <2>1, BoundsAssumption DEF PatchWrite, Begin, IInv, TypeOK, PCs
    <3> QED  BY <1>1, <3>1, <3>2 DEF IInv, TypeOK, stored
  <2>2. CASE PatchEnd
    <3>1. call' = Idle /\ target' \in Contents
      BY <2>2, CallTypes DEF PatchEnd, Return, IInv, TypeOK
    <3> QED  BY <1>1, <3>1 DEF IInv, TypeOK, stored
  <2> QED  BY <2>1, <2>2
<1>3. CallIsCurrent' /\ CallText' /\ CallState' /\ CallRecord'
  BY <1>1 DEF CallIsCurrent, CallText, CallState, CallRecord, Before, After
<1> QED
  BY <1>1, <1>2, <1>3 DEF IInv, stored, AppliedHasBaseline, RecordsAgree

(* Every step keeps the invariant.                                          *)
LEMMA NextKeepsIInv == IInv /\ [Next]_vars => IInv'
<1> SUFFICES ASSUME IInv, [Next]_vars PROVE IInv'
  OBVIOUS
<1> QED  BY ProposalStep, BeginStep, ApplyStep, FinishStep, PatchStep, OutsideStep
         DEF Next, Step

(* It holds in every reachable state.                                       *)
LEMMA Invariant == Spec => []IInv
<1> QED  BY InitIInv, NextKeepsIInv, PTL DEF Spec

----------------------------------------------------------------------------
(* Rows, files and calls keep their types.                                  *)
THEOREM UpdateTypes == Spec => []TypeOK
<1>1. IInv => TypeOK
  BY DEF IInv
<1> QED  BY <1>1, Invariant, PTL

(* Row, record and baseline of an applied update name the same approval.     *)
THEOREM AuditTrailHolds == Spec => []RecordsAgree
<1>1. IInv => RecordsAgree
  BY DEF IInv
<1> QED  BY <1>1, Invariant, PTL

(* apply_proposal never replaces a text other than the one it was built from, *)
(* although the owner may save the file after it was first compared.         *)
THEOREM AuthorKeepsText == Spec => OverwritesOnlyOld
<1>1. IInv /\ [Next]_vars => [\A p \in Proposals :
        At(p, "replacing") /\ target' # target => target = Old[p]]_vars
  BY DEF IInv, CallText, At
<1> QED  BY <1>1, Invariant, PTL DEF Spec, OverwritesOnlyOld

(* _finish_applied only records the approved text, under the approval that is *)
(* current then.                                                            *)
THEOREM AppliedWasApproved == Spec => FinishedAsApproved
<1>1. IInv /\ [Next]_vars => [\A p \in Proposals :
        state[p] # "APPLIED" /\ state'[p] = "APPLIED" =>
          target = New[p] /\ Bound(p) /\ approvalFile[p] = baseline'.approval]_vars
  <2> SUFFICES ASSUME IInv, Next, NEW p \in Proposals,
                      state[p] # "APPLIED", state'[p] = "APPLIED"
               PROVE  target = New[p] /\ Bound(p) /\ approvalFile[p] = baseline'.approval
    OBVIOUS
  <2>1. FinishRows(p)
    BY DEF IInv, TypeOK, Next, Step, Build, BuildRow, Approve, ApproveFile, Apply, Repair,
       ApplyClaim, ApplyCheck, ApplyRefused, Replace, Verify, FinishFile, FinishRows, RollBack,
       PatchWrite, PatchEnd, Edit, Rebind, Kill, stored
  <2> QED
    BY <2>1 DEF IInv, FinishRows, At, CallIsCurrent, CallText, Before, After
<1> QED  BY <1>1, Invariant, PTL DEF Spec, FinishedAsApproved

----------------------------------------------------------------------------
(* An approval's file names a row that was written before it, and an update   *)
(* that is being applied has one.                                           *)
ApprovalInv ==
  /\ call.pc = "approved" => call.approval \in 1..approvals[call.proposal]
  /\ \A p \in Proposals : state[p] = "APPLYING" => approvalFile[p] \in 1..approvals[p]

(* approve_proposal: the row is counted, then its file names it.            *)
LEMMA ApprovingStep ==
  ASSUME IInv, ApprovalInv, NEW p \in Proposals, Approve(p) \/ ApproveFile(p)
  PROVE  ApprovalInv'
<1>1. approvals \in [Proposals -> 0..MaxApprovals] /\ state \in [Proposals -> States]
      /\ approvalFile \in [Proposals -> 0..MaxApprovals] /\ MaxApprovals \in Nat
  BY BoundsAssumption DEF IInv, TypeOK
<1>2. CASE Approve(p)
  <2>1. /\ approvals' = [approvals EXCEPT ![p] = approvals[p] + 1]
        /\ approvalFile' = approvalFile
        /\ \A q \in Proposals : state'[q] = "APPLYING" => state[q] = "APPLYING"
        /\ call'.proposal = p /\ call'.approval = approvals'[p]
    BY <1>1, <1>2 DEF Approve, Begin
  <2> QED  BY <1>1, <2>1 DEF ApprovalInv
<1>3. CASE ApproveFile(p)
  <2>1. /\ approvals' = approvals /\ state' = state
        /\ approvalFile' = [approvalFile EXCEPT ![p] = call.approval]
        /\ call.pc = "approved" /\ call.proposal = p /\ call'.pc = "idle"
    BY <1>3 DEF ApproveFile, At, Return, Idle
  <2> QED  BY <1>1, <2>1 DEF ApprovalInv
<1> QED  BY <1>2, <1>3

(* Only an apply makes a row APPLYING, under the approval it has read.       *)
LEMMA NextKeepsApproval ==
  ASSUME IInv, ApprovalInv, [Next]_vars
  PROVE  ApprovalInv'
<1>1. CASE \E p \in Proposals : Approve(p) \/ ApproveFile(p)
  BY <1>1, ApprovingStep
<1>2. ASSUME NEW p \in Proposals, ApplyClaim(p) PROVE ApprovalInv'
  <2>1. approvalFile[p] \in 1..approvals[p]
    BY <1>2 DEF IInv, CallIsCurrent, ApplyClaim, At, Before
  <2>2. /\ UNCHANGED <<approvals, approvalFile>> /\ call'.pc = "claimed"
        /\ \A q \in Proposals \ {p} : state'[q] = state[q]
    BY <1>2, CallTypes DEF IInv, TypeOK, ApplyClaim, At, Goto
  <2> QED  BY <2>1, <2>2 DEF ApprovalInv
<1>3. ASSUME NEW p \in Proposals,
             \/ Build(p) \/ BuildRow(p) \/ Apply(p) \/ Repair(p) \/ ApplyCheck(p)
             \/ ApplyRefused(p) \/ Replace(p) \/ Verify(p) \/ FinishFile(p) \/ FinishRows(p) \/ RollBack(p)
      PROVE  ApprovalInv'
  <2>1. /\ UNCHANGED <<approvals, approvalFile>> /\ call'.pc # "approved"
    BY <1>3, CallTypes
    DEF IInv, Build, BuildRow, Apply, Repair, ApplyCheck, ApplyRefused, Replace, Verify, FinishFile,
        FinishRows, RollBack, Begin, Goto, Return, Idle, At, stored
  <2>2. \A q \in Proposals : state'[q] = "APPLYING" => state[q] = "APPLYING"
    BY <1>3
    DEF IInv, TypeOK, Build, BuildRow, Apply, Repair, ApplyCheck, ApplyRefused, Replace, Verify,
        FinishFile, FinishRows, RollBack, stored
  <2> QED  BY <2>1, <2>2 DEF ApprovalInv
<1>4. CASE \/ \E content \in OwnerTexts \ {target} : Edit(content)
           \/ \E request \in PatchRequests : PatchWrite(request)
           \/ PatchEnd \/ Rebind \/ Kill \/ UNCHANGED vars
  <2>1. UNCHANGED stored /\ (call' = call \/ call'.pc # "approved")
    BY <1>4 DEF Edit, PatchWrite, PatchEnd, Rebind, Kill, Begin, Return, Idle, vars
  <2> QED  BY <2>1 DEF ApprovalInv, stored
<1> QED  BY <1>1, <1>2, <1>3, <1>4 DEF Next, Step

(* Wherever an apply is killed, reconcile repairs it unless a record of       *)
(* another update or approval is in the way, the text is another one, or what *)
(* the approval rests on has changed.                                       *)
THEOREM InterruptedIsRepaired == Spec => []InterruptedIsRepairable
<1>1. Init => ApprovalInv
  BY DEF Init, Idle, ApprovalInv
<1>2. IInv /\ ApprovalInv /\ [Next]_vars => ApprovalInv'
  BY NextKeepsApproval
<1>3. ApprovalInv => InterruptedIsRepairable
  BY DEF ApprovalInv, InterruptedIsRepairable, Rollback, Forward, Loaded, ApprovalForRecovery,
     Complete
<1> QED  BY <1>1, <1>2, <1>3, Invariant, PTL DEF Spec

----------------------------------------------------------------------------
(* External imports.                                                        *)


(* Rows and evidence name each other.                                       *)
KeyHeld == \A m \in materials : evidence[m.import] = m.key
EvidenceRecorded == \A i \in Imports : evidence[i] # NoBinding =>
  [import |-> i, key |-> evidence[i]] \in materials

(* An import that is still "materialized" has not been approved for anything  *)
(* else: a new approval would have changed its state.                        *)
StateMatches == \A i \in Imports : importState[i] = "materialized" =>
  /\ evidence[i] # NoBinding
  /\ approval[i] \in {NoBinding, evidence[i]}

(* Nothing is approved before it has a report, nothing staged is approved.    *)
ReportFirst == \A i \in Imports :
  report[i] = NoReport => approval[i] = NoBinding /\ evidence[i] = NoBinding
StagingIsNew == \A i \in Imports : importCall = [pc |-> "staging", import |-> i] =>
  approval[i] = NoBinding /\ evidence[i] = NoBinding

ImportInv == /\ ImportTypeOK
             /\ KeyHeld
             /\ EvidenceRecorded
             /\ StateMatches
             /\ ReportFirst
             /\ StagingIsNew
             /\ OneMeasurementPerRun

----------------------------------------------------------------------------
(* The steps that leave materialisations and evidence alone: only their       *)
(* states, approvals, reports and calls have to fit.                         *)
LEMMA QuietStep ==
  ASSUME ImportInv, ImportTypeOK', UNCHANGED <<materials, evidence>>,
         StateMatches', ReportFirst', StagingIsNew'
  PROVE  ImportInv'
BY DEF ImportInv, KeyHeld, EvidenceRecorded, OneMeasurementPerRun

(* What a report says is an approval's binding.                             *)
LEMMA DigestType ==
  ASSUME ImportTypeOK, NEW i \in Imports, report[i] # NoReport
  PROVE  Digest(i) \in Bindings
BY DEF ImportTypeOK, Digest, Reports, Bindings

(* A binding is not the absence of one.                                      *)
LEMMA BindingExists == \A b \in Bindings : b # NoBinding /\ b.version \in Versions
BY VersionsAssumption DEF Bindings, NoBinding

(* The empty database satisfies the invariant.                              *)
LEMMA InitImportInv == ImportInit => ImportInv
BY DEF ImportInit, ImportInv, ImportTypeOK, ManifestContents, ImportStates, NoImportCall,
       KeyHeld, EvidenceRecorded, StateMatches,
   ReportFirst, StagingIsNew, OneMeasurementPerRun

(* A step of stage_import or validate_import.                               *)
LEMMA WriteStep ==
  ASSUME ImportInv, NEW i \in Imports,
         \/ \E version \in Versions : StageFiles(i, version)
         \/ StageRow(i) \/ ValidateReport(i) \/ ValidateRow(i)
  PROVE  ImportInv'
<1>1. CASE \E version \in Versions : StageFiles(i, version)
  <2>1. ImportTypeOK'
    BY <1>1 DEF ImportInv, ImportTypeOK, StageFiles, ManifestContents, tables
  <2>2. StagingIsNew'
    BY <1>1 DEF ImportInv, ReportFirst, StagingIsNew, StageFiles, tables
  <2> QED
    BY <1>1, <2>1, <2>2, QuietStep
    DEF ImportInv, StageFiles, tables, StateMatches, ReportFirst
<1>2. CASE StageRow(i)
  <2>1. ImportTypeOK' /\ StagingIsNew'
    BY <1>2 DEF ImportInv, ImportTypeOK, StageRow, ImportStates, StagingIsNew, NoImportCall
  <2>2. StateMatches'
    BY <1>2 DEF ImportInv, ImportTypeOK, StateMatches, StageRow
  <2> QED
    BY <1>2, <2>1, <2>2, QuietStep DEF ImportInv, StageRow, ReportFirst
<1>3. CASE ValidateReport(i)
  <2>1. Others(i) \subseteq Imports /\ manifest[i] \in Versions
    BY <1>3 DEF ImportInv, ImportTypeOK, ManifestContents, Others, ValidateReport
  <2> DEFINE new == [version |-> manifest[i], intact |-> intact[i], others |-> Others(i),
                     genuine |-> TRUE]
  <2>2. ImportTypeOK'
    <3>1. new \in Reports
      BY <2>1 DEF ImportInv, ImportTypeOK, Reports
    <3>2. report' = report \/ report' = [report EXCEPT ![i] = new]
      BY <1>3 DEF ValidateReport
    <3>3. report' \in [Imports -> Reports \cup {NoReport}]
      <4> HIDE DEF new
      <4> QED  BY <3>1, <3>2 DEF ImportInv, ImportTypeOK
    <3>4. importCall' \in [pc : {"staging", "validating"}, import : Imports]
      BY <1>3 DEF ValidateReport
    <3> QED
      BY <1>3, <3>3, <3>4 DEF ImportInv, ImportTypeOK, ValidateReport, tables
  <2>3. StagingIsNew'
    BY <1>3 DEF StagingIsNew, ValidateReport
  <2>4. ReportFirst'
    <3>1. ASSUME NEW j \in Imports, report'[j] = NoReport
          PROVE  report[j] = NoReport
      BY <1>3, <2>1, <3>1, VersionsAssumption DEF ImportInv, ImportTypeOK, ValidateReport,
                                                  NoReport
    <3> QED
      BY <1>3, <3>1 DEF ImportInv, ReportFirst, ValidateReport, tables
  <2> QED
    BY <1>3, <2>2, <2>3, <2>4, QuietStep DEF ImportInv, ValidateReport, tables, StateMatches
<1>4. CASE ValidateRow(i)
  <2>1. ImportTypeOK' /\ StagingIsNew' /\ StateMatches'
    BY <1>4 DEF ImportInv, ImportTypeOK, ValidateRow, SetState, ImportStates, StagingIsNew,
                StateMatches, NoImportCall
  <2> QED
    BY <1>4, <2>1, QuietStep DEF ImportInv, ValidateRow, ReportFirst
<1> QED  BY <1>1, <1>2, <1>3, <1>4

(* An approval is given, or found stale.                                    *)
LEMMA ApprovalStep ==
  ASSUME ImportInv, NEW i \in Imports, ApproveImport(i) \/ Invalidate(i)
  PROVE  ImportInv'
<1>1. approval'[i] \in Bindings \cup {NoBinding}
      /\ approval' = [approval EXCEPT ![i] = approval'[i]]
      /\ (approval'[i] # NoBinding => report[i] # NoReport)
  BY DigestType DEF ImportInv, ImportTypeOK, ApproveImport, Invalidate, Readable
<1>2. \E new \in {"approved", "invalidated"} : SetState(i, new)
  BY DEF ApproveImport, Invalidate
<1>3. UNCHANGED <<manifest, intact, report, materials, evidence, importCall>> /\ importCall = NoImportCall
  BY DEF ApproveImport, Invalidate
<1>4. ImportTypeOK' /\ StateMatches'
  BY <1>1, <1>2, <1>3 DEF ImportInv, ImportTypeOK, SetState, ImportStates, StateMatches
<1>5. StagingIsNew' /\ ReportFirst'
  BY <1>1, <1>3 DEF ImportInv, StagingIsNew, ReportFirst, NoImportCall, ImportTypeOK
<1> QED  BY <1>3, <1>4, <1>5, QuietStep

(* Evidence is only written for an import that has none: with evidence it     *)
(* would be "materialized", approved for nothing else, and have its row.      *)
LEMMA MaterializeIsNew ==
  ASSUME ImportInv, NEW i \in Imports, Materialize(i)
  PROVE  evidence[i] = NoBinding
<1> SUFFICES ASSUME evidence[i] # NoBinding PROVE FALSE
  OBVIOUS
<1> DEFINE m == [import |-> i, key |-> evidence[i]]
<1>1. m \in materials
  BY DEF ImportInv, EvidenceRecorded
<1>2. importState[i] = "materialized"
  BY <1>1 DEF Materialize, Consistent, Mismatch, Orphan, RowsOf
<1>3. approval[i] = evidence[i]
  BY <1>2 DEF ImportInv, StateMatches, Materialize, ApprovalValid
<1> QED  BY <1>1, <1>3 DEF Materialize, ApprovalValid

(* materialize_import: the one transaction that makes evidence.              *)
LEMMA MaterializeStep ==
  ASSUME ImportInv, NEW i \in Imports, Materialize(i)
  PROVE  ImportInv'
<1> DEFINE key == Digest(i)
           new == [import |-> i, key |-> key]
<1>1. evidence[i] = NoBinding
  BY MaterializeIsNew
<1>2. /\ key \in Bindings /\ key # NoBinding /\ approval[i] = key
      /\ key.version = manifest[i] /\ report[i] # NoReport
  BY DigestType, BindingExists DEF ImportInv, Materialize, ApprovalValid, Readable
<1>3. /\ materials' = materials \cup {new}
      /\ evidence' = [evidence EXCEPT ![i] = key]
      /\ SetState(i, "materialized")
      /\ UNCHANGED <<manifest, intact, report, approval, importCall>> /\ importCall = NoImportCall
  BY DEF Materialize, InsertEvidence
<1> HIDE DEF key
<1>4. \A m \in materials : m.import \in Imports /\ m.import # i
  BY <1>1, BindingExists DEF ImportInv, ImportTypeOK, KeyHeld
<1>5. ImportTypeOK'
  BY <1>2, <1>3 DEF ImportInv, ImportTypeOK, SetState, ImportStates
<1>6. KeyHeld' /\ EvidenceRecorded'
  BY <1>3, <1>4 DEF ImportInv, ImportTypeOK, KeyHeld, EvidenceRecorded
<1>7. StateMatches'
  BY <1>2, <1>3 DEF ImportInv, ImportTypeOK, StateMatches, SetState
<1>8. ReportFirst' /\ StagingIsNew'
  BY <1>2, <1>3 DEF ImportInv, ImportTypeOK, ReportFirst, StagingIsNew, NoImportCall
<1>9. ASSUME NEW m \in materials,
             Identity[m.import][m.key.version] = Identity[i][key.version]
      PROVE  FALSE
  <2>1. m.import \in Imports \ {i} /\ m.key \in Bindings
    BY <1>4 DEF ImportInv, ImportTypeOK
  <2>2. importState[m.import] # "ABSENT" /\ manifest[m.import] = m.key.version
    BY DEF Materialize, Consistent, Orphan
  <2>3. m.import \in Others(i)
    BY <1>2, <1>9, <2>1, <2>2, BindingExists, VersionsAssumption DEF Others, Measured
  <2>4. RowsOf(m.import) # {}
    BY DEF RowsOf
  <2> QED  BY <2>3, <2>4 DEF Materialize, Conflict
<1>10. OneMeasurementPerRun'
  BY <1>3, <1>9 DEF ImportInv, OneMeasurementPerRun
<1> QED  BY <1>5, <1>6, <1>7, <1>8, <1>10 DEF ImportInv

(* The files are edited, or a call is killed.                               *)
LEMMA ImportOutsideStep ==
  ASSUME ImportInv,
         \/ \E i \in Imports : \/ \E content \in ManifestContents : EditManifest(i, content)
                               \/ EditSource(i) \/ AlterReport(i)
         \/ KillImport
         \/ UNCHANGED importVars
  PROVE  ImportInv'
<1>1. UNCHANGED tables /\ importCall' \in {importCall, NoImportCall}
  BY DEF EditManifest, EditSource, AlterReport, KillImport, importVars
<1>2. ImportTypeOK'
  <2>1. CASE \E i \in Imports, content \in ManifestContents : EditManifest(i, content)
    BY <2>1 DEF ImportInv, ImportTypeOK, EditManifest, tables
  <2>2. CASE \E i \in Imports : EditSource(i)
    BY <2>2 DEF ImportInv, ImportTypeOK, EditSource, tables
  <2>3. CASE \E i \in Imports : AlterReport(i)
    <3>1. PICK i \in Imports : AlterReport(i)
      BY <2>3
    <3>2. report[i] \in Reports /\ report[i].genuine \in BOOLEAN
      BY <3>1 DEF ImportInv, ImportTypeOK, AlterReport, Reports
    <3>3. [report[i] EXCEPT !.genuine = ~ report[i].genuine] \in Reports
      BY <3>2 DEF Reports
    <3>4. report' = [report EXCEPT ![i] = [report[i] EXCEPT !.genuine = ~ report[i].genuine]]
      BY <3>1 DEF AlterReport
    <3>5. report' \in [Imports -> Reports \cup {NoReport}]
      BY <3>3, <3>4 DEF ImportInv, ImportTypeOK
    <3> QED  BY <3>1, <3>5 DEF ImportInv, ImportTypeOK, AlterReport, tables
  <2>4. CASE KillImport
    BY <2>4 DEF ImportInv, ImportTypeOK, KillImport, tables
  <2>5. CASE UNCHANGED importVars
    BY <2>5 DEF ImportInv, ImportTypeOK, importVars, tables
  <2> QED  BY <2>1, <2>2, <2>3, <2>4, <2>5
<1>3. \A i \in Imports : report'[i] = NoReport => report[i] = NoReport
  <2>1. CASE \E j \in Imports : AlterReport(j)
    <3>1. PICK j \in Imports : AlterReport(j)
      BY <2>1
    <3>2. \A i \in Imports \ {j} : report'[i] = report[i]
      BY <3>1 DEF ImportInv, ImportTypeOK, AlterReport
    <3>3. report[j] \in Reports
      BY <3>1 DEF ImportInv, ImportTypeOK, AlterReport
    <3>4. report[j].version \in Versions /\ report'[j].version = report[j].version
      BY <3>1, <3>3 DEF ImportInv, ImportTypeOK, AlterReport, Reports
    <3>5. report'[j] # NoReport
      BY <3>4, VersionsAssumption DEF NoReport
    <3> QED  BY <3>2, <3>5
  <2>2. CASE UNCHANGED report
    BY <2>2
  <2> QED
    BY <2>1, <2>2 DEF EditManifest, EditSource, KillImport, importVars
<1>4. StateMatches' /\ ReportFirst' /\ StagingIsNew'
  <2>1. StateMatches' /\ ReportFirst'
    BY <1>1, <1>3 DEF ImportInv, tables, StateMatches, ReportFirst
  <2>2. StagingIsNew'
    BY <1>1 DEF ImportInv, tables, StagingIsNew, NoImportCall
  <2> QED  BY <2>1, <2>2
<1> QED  BY <1>1, <1>2, <1>4, QuietStep DEF tables

(* Every step keeps the invariant.                                          *)
LEMMA NextKeepsImportInv == ImportInv /\ [ImportNext]_importVars => ImportInv'
<1> SUFFICES ASSUME ImportInv, [ImportNext]_importVars PROVE ImportInv'
  OBVIOUS
<1> QED  BY WriteStep, ApprovalStep, MaterializeStep, ImportOutsideStep DEF ImportNext

(* It holds in every reachable state.                                       *)
LEMMA ImportInvariant == ImportSpec => []ImportInv
<1> QED  BY InitImportInv, NextKeepsImportInv, PTL DEF ImportSpec

----------------------------------------------------------------------------
(* Rows, states, approvals and calls have their types.                      *)
THEOREM ImportTypes == ImportSpec => []ImportTypeOK
<1>1. ImportInv => ImportTypeOK
  BY DEF ImportInv
<1> QED  BY <1>1, ImportInvariant, PTL

(* Two imports of one scientific run never both become evidence.            *)
THEOREM OneMeasurement == ImportSpec => []OneMeasurementPerRun
<1>1. ImportInv => OneMeasurementPerRun
  BY DEF ImportInv
<1> QED  BY <1>1, ImportInvariant, PTL

(* Evidence that was made is never written over.                            *)
THEOREM EvidenceStays == ImportSpec => EvidenceIsFinal
<1>1. ImportInv /\ [ImportNext]_importVars =>
        [\A i \in Imports : evidence[i] # NoBinding => evidence'[i] = evidence[i]]_importVars
  <2> SUFFICES ASSUME ImportInv, ImportNext, NEW i \in Imports, evidence[i] # NoBinding
               PROVE  evidence'[i] = evidence[i]
    OBVIOUS
  <2>1. ASSUME NEW j \in Imports, Materialize(j) PROVE evidence'[i] = evidence[i]
    BY <2>1, MaterializeIsNew DEF Materialize, InsertEvidence, ImportInv, ImportTypeOK
  <2> QED
    BY <2>1 DEF ImportNext, StageFiles, StageRow, ValidateReport, ValidateRow,
                ApproveImport, Invalidate,
                EditManifest, EditSource, AlterReport, KillImport, tables
<1> QED  BY <1>1, ImportInvariant, PTL DEF ImportSpec, EvidenceIsFinal

(* No call makes an inconsistent store look consistent.                     *)
THEOREM MismatchStays == ImportSpec => MismatchIsKept
<1>1. ASSUME ImportInv, ImportNext, manifest' = manifest, Consistent' PROVE Consistent
  <2>1. CASE \E i \in Imports : Materialize(i)
    BY <2>1 DEF Materialize
  <2>2. CASE ~ \E i \in Imports : Materialize(i)
    <3>1. UNCHANGED <<materials, evidence>>
      BY <1>1, <2>2
      DEF ImportNext, StageFiles, StageRow, ValidateReport, ValidateRow, ApproveImport,
          Invalidate,
          EditManifest, EditSource, AlterReport, KillImport, tables
    <3>2. ASSUME NEW i \in Imports, importState'[i] # importState[i]
          PROVE  /\ importState'[i] \notin {"materialized", "ABSENT"}
                 /\ importState[i] = "ABSENT" => evidence[i] = NoBinding
      BY <1>1, <2>2, <3>2
      DEF ImportInv, ImportTypeOK, StagingIsNew, ImportNext, StageFiles, StageRow,
          ValidateReport, ValidateRow,
          ApproveImport, Invalidate, EditManifest, EditSource, AlterReport, KillImport, SetState, tables
    <3>3. ASSUME NEW m \in materials PROVE ~ Orphan(m)
      <4>1. m.import \in Imports /\ evidence[m.import] # NoBinding
        BY <1>1, BindingExists DEF ImportInv, KeyHeld, ImportTypeOK
      <4> QED  BY <1>1, <3>1, <3>2, <4>1 DEF Consistent, Orphan
    <3>4. ASSUME NEW i \in Imports PROVE ~ Mismatch(i)
      <4>1. CASE importState'[i] = importState[i]
        BY <1>1, <3>1, <4>1 DEF Consistent, Mismatch, Orphan, RowsOf
      <4>2. CASE importState'[i] # importState[i]
        <5>1. RowsOf(i) = {}
          BY <1>1, <3>1, <3>2, <4>2 DEF Consistent, Mismatch, RowsOf
        <5>2. importState[i] # "materialized"
          <6>1. importState[i] = "materialized" => [import |-> i, key |-> evidence[i]] \in RowsOf(i)
            BY <1>1 DEF ImportInv, StateMatches, EvidenceRecorded, RowsOf
          <6> QED  BY <5>1, <6>1
        <5> QED  BY <5>1, <5>2 DEF Mismatch
      <4> QED  BY <4>1, <4>2
    <3> QED  BY <1>1, <3>1, <3>3, <3>4 DEF Consistent
  <2> QED  BY <2>1, <2>2
<1>2. ImportInv /\ [ImportNext]_importVars => [~ Consistent /\ Consistent' => manifest' # manifest]_importVars
  BY <1>1
<1> QED  BY <1>2, ImportInvariant, PTL DEF ImportSpec, MismatchIsKept
=============================================================================
