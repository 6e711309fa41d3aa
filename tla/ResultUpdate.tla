----------------------------- MODULE ResultUpdate -----------------------------
(***************************************************************************)
(* Updates of one manuscript file (paperforge/result_update.py).  A         *)
(* proposal replaces the protected block of the text it was built from; it   *)
(* is approved, applied and, after a kill, classified and repaired.  An      *)
(* apply spans the database, the manuscript and two audit files, none of     *)
(* which share a transaction.  Calls run one at a time, as                   *)
(* docs/u4c-reliability.md demands of the operators, and a call can be       *)
(* killed between any two of its writes.  The owner may save the file at any *)
(* time but between a comparison of its bytes and what rests on it.  Besides  *)
(* the updates of its block, a model may rewrite the prose around it         *)
(* (paperforge/writing_patch.py).                                           *)
(***************************************************************************)
EXTENDS Naturals, Sequences, PatchRules

CONSTANTS
  Contents,      \* contents of the manuscript file
  Proposals,     \* identifiers of proposals (digests of what they contain)
  Old, New,      \* proposal -> the content it was built from and leads to
  Texts,         \* content -> its markers, blocks, anchors and structure
  Blocks,        \* block -> the numbers, citations and claims in it
  Draft,         \* proposal -> its spec, the index of its block and the block
  Hashes,        \* proposal -> the hashes of the artifacts it was made from
  Facts,         \* the facts a proposal is built with
  Acknowledgements, \* what an approver may acknowledge, and why
  Inputs, Data,  \* states of the bound artifacts and ledgers; name -> state
  PatchRequests, \* patches that may be asked for, each with its answer
  PromptLimit,   \* bound on what a model is asked
  OwnerTexts,    \* contents the owner may write by hand
  MaxApprovals,  \* bound on the approvals of one proposal
  MaxKills       \* bound on the calls that are killed

ASSUME TextAssumption == /\ OwnerTexts \subseteq Contents
                         /\ Old \in [Proposals -> Contents]
                         /\ New \in [Proposals -> Contents]
                         /\ \A p \in Proposals : Old[p] # New[p]
                         /\ \A r \in PatchRequests : r.result \in Contents
ASSUME BoundsAssumption == MaxApprovals \in Nat /\ MaxKills \in Nat

NoProposal == "none"
ASSUME NoProposalAssumption == NoProposal \notin Proposals

VARIABLES
  target,        \* the manuscript
  inputs,        \* the state of the artifacts and ledgers that are bound
  files,         \* proposal -> its proposal.json against its row
  state,         \* proposal -> result_updates.state
  approvals,     \* proposal -> number of its rows in result_approvals
  approvalFile,  \* proposal -> the approval in approval.json, or 0
  applied,       \* proposal -> the approval in applied.json, or 0
  baseline,      \* the row of result_baselines for the file; "dated" tells
                 \* whether its applied_at is the one in applied.json
  call,          \* the call that is under way
  kills

stored == <<files, state, approvals, approvalFile, applied, baseline>>
vars == <<target, inputs, stored, call, kills>>

States == {"ABSENT", "VALIDATED", "APPROVED", "APPLYING", "APPLIED"}
PCs == {"idle", "patched", "built", "approved", "checked", "claimed", "replacing",
        "replaced", "rechecking", "finishing", "recorded", "rollingback"}
Idle == [pc |-> "idle", proposal |-> NoProposal, approval |-> 0]
NoBaseline == [proposal |-> NoProposal, approval |-> 0, dated |-> TRUE]

TypeOK ==
  /\ target \in Contents
  /\ inputs \in Inputs
  /\ files \in [Proposals -> {"absent", "newer", "stored"}]
  /\ state \in [Proposals -> States]
  /\ approvals \in [Proposals -> 0..MaxApprovals]
  /\ approvalFile \in [Proposals -> 0..MaxApprovals]
  /\ applied \in [Proposals -> 0..MaxApprovals]
  /\ baseline \in [proposal : Proposals, approval : 1..MaxApprovals, dated : BOOLEAN]
                \cup {NoBaseline}
  /\ call \in [pc : PCs \ {"idle"}, proposal : Proposals \cup {NoProposal}, approval : 0..MaxApprovals,
               text : Contents] \cup {Idle}
  /\ kills \in 0..MaxKills

Init ==
  /\ target \in {Old[p] : p \in Proposals}
  /\ inputs \in Inputs
  /\ files = [p \in Proposals |-> "absent"]
  /\ state = [p \in Proposals |-> "ABSENT"]
  /\ approvals = [p \in Proposals |-> 0]
  /\ approvalFile = [p \in Proposals |-> 0]
  /\ applied = [p \in Proposals |-> 0]
  /\ baseline = NoBaseline
  /\ call = Idle
  /\ kills = 0

At(p, pc) == call.pc = pc /\ call.proposal = p
Begin(p, pc, approval) ==
  call' = [pc |-> pc, proposal |-> p, approval |-> approval, text |-> target]
Goto(pc) == call' = [call EXCEPT !.pc = pc]
Return == call' = Idle

----------------------------------------------------------------------------
OldBlock(p) == Blocks[Texts[Old[p]].blocks[Draft[p].index]]
NewBlock(p) == Blocks[Draft[p].block]

(* What build_proposal demands of the text, of the artifacts and of the block. *)
Proposable(p) ==
  /\ SpecAdmissible(Draft[p].spec) /\ Resolves(Draft[p].spec)
  /\ target = Old[p]
  /\ WellMarked(Texts[target].marks)
  /\ Draft[p].index \in DOMAIN Texts[target].blocks
  /\ BlockAdmissible(OldBlock(p), NewBlock(p), Draft[p].spec, Facts)
  /\ ProposalArtifactsIntact(Data[inputs], Draft[p].spec, Hashes[p])

(* What an approval rests on besides the proposal itself.                    *)
Supports(data, p) ==
  /\ LedgersEligible(data, Draft[p].spec.ledgers)
  /\ ProposalArtifactsIntact(data, Draft[p].spec, Hashes[p])
Bound(p) == Supports(Data[inputs], p)

(* build_proposal: the files are written first, then the row is replaced    *)
(* whatever state it was in.  Warnings of the semantic diff ("NEEDS_HUMAN")  *)
(* only ask the approver for a rationale.                                   *)
Build(p) ==
  /\ call = Idle
  /\ Proposable(p)
  /\ files' = [files EXCEPT ![p] = "newer"]
  /\ Begin(p, "built", 0)
  /\ UNCHANGED <<target, inputs, state, approvals, approvalFile, applied, baseline, kills>>

BuildRow(p) ==
  /\ At(p, "built")
  /\ files' = [files EXCEPT ![p] = "stored"]
  /\ state' = [state EXCEPT ![p] = "VALIDATED"]
  /\ Return
  /\ UNCHANGED <<target, inputs, approvals, approvalFile, applied, baseline, kills>>

(* approve_proposal reads the files and the bindings; neither the state of   *)
(* the row nor the manuscript matters to it.                                *)
Approve(p) ==
  /\ call = Idle
  /\ files[p] # "absent"
  /\ \E a \in Acknowledgements : Acknowledged(OldBlock(p), NewBlock(p), a.claims, a.rationale)
  /\ Bound(p)
  /\ approvals[p] < MaxApprovals
  /\ approvals' = [approvals EXCEPT ![p] = @ + 1]
  /\ state' = [state EXCEPT ![p] = IF @ = "ABSENT" THEN @ ELSE "APPROVED"]
  /\ Begin(p, "approved", approvals'[p])
  /\ UNCHANGED <<target, inputs, files, approvalFile, applied, baseline, kills>>

ApproveFile(p) ==
  /\ At(p, "approved")
  /\ approvalFile' = [approvalFile EXCEPT ![p] = call.approval]
  /\ Return
  /\ UNCHANGED <<target, inputs, files, state, approvals, applied, baseline, kills>>

----------------------------------------------------------------------------
(* _load_update and _approval_for_recovery.                                 *)
Loaded(p) == state[p] # "ABSENT" /\ files[p] = "stored"
ApprovalForRecovery(p) == approvalFile[p] \in 1..approvals[p] /\ Bound(p)

(* apply_proposal.  Of an update that is applied already it only returns    *)
(* the record.                                                              *)
Apply(p) ==
  /\ call = Idle
  /\ Loaded(p) /\ ApprovalForRecovery(p)
  /\ state[p] = "APPROVED"
  /\ target = Old[p]
  /\ Begin(p, "checked", approvalFile[p])
  /\ UNCHANGED <<target, inputs, stored, kills>>

ApplyClaim(p) ==
  /\ At(p, "checked")
  /\ state[p] = "APPROVED"
  /\ state' = [state EXCEPT ![p] = "APPLYING"]
  /\ Goto("claimed")
  /\ UNCHANGED <<target, inputs, files, approvals, approvalFile, applied, baseline, kills>>

(* Mutation: the text compared before the row was claimed is taken to be     *)
(* there still.                                                             *)
ApplyUnchecked(p) ==
  /\ At(p, "claimed")
  /\ Goto("replacing")
  /\ UNCHANGED <<target, inputs, stored, kills>>

(* The last look at the file before it is replaced.                         *)
ApplyCheck(p) ==
  /\ At(p, "claimed")
  /\ target = call.text
  /\ Goto("replacing")
  /\ UNCHANGED <<target, inputs, stored, kills>>

(* The exception leaves the row in APPLYING.                                *)
ApplyRefused(p) ==
  /\ At(p, "claimed")
  /\ target # call.text
  /\ Return
  /\ UNCHANGED <<target, inputs, stored, kills>>

Replace(p) ==
  /\ At(p, "replacing")
  /\ target' = New[p]
  /\ Goto("replaced")
  /\ UNCHANGED <<inputs, stored, kills>>

(* Both an apply and a repair look at the file once more.                   *)
Verify(p) ==
  /\ At(p, "replaced") \/ At(p, "rechecking")
  /\ IF target = New[p] THEN Goto("finishing") ELSE Return
  /\ UNCHANGED <<target, inputs, stored, kills>>

(* Mutation: the record is written after the commit, that is, it is not     *)
(* written when the call is killed.                                         *)
FinishUnrecorded(p) ==
  /\ At(p, "finishing")
  /\ Goto("recorded")
  /\ UNCHANGED <<target, inputs, stored, kills>>

(* _finish_applied: the file first, then baseline and state in one commit.  *)
FinishFile(p) ==
  /\ At(p, "finishing")
  /\ applied' = [applied EXCEPT ![p] = call.approval]
  /\ baseline' = IF baseline.proposal = p THEN [baseline EXCEPT !.dated = FALSE] ELSE baseline
  /\ Goto("recorded")
  /\ UNCHANGED <<target, inputs, files, state, approvals, approvalFile, kills>>

FinishRows(p) ==
  /\ At(p, "recorded")
  /\ baseline' = [proposal |-> p, approval |-> call.approval, dated |-> TRUE]
  /\ state' = [state EXCEPT ![p] = "APPLIED"]
  /\ Return
  /\ UNCHANGED <<target, inputs, files, approvals, approvalFile, applied, kills>>

----------------------------------------------------------------------------
(* reconcile_result_updates, for one proposal.                              *)

(* A record that does not fit the update and its approval.                   *)
Conflicting(p) ==
  \/ applied[p] \notin {0, approvalFile[p]}
  \/ baseline \notin {NoBaseline,
                      [proposal |-> p, approval |-> approvalFile[p], dated |-> TRUE]}
Complete(p) == state[p] = "APPLIED" /\ applied[p] # 0 /\ baseline # NoBaseline

Clean(p) ==
  /\ Loaded(p)
  /\ \/ state[p] = "VALIDATED" /\ target = Old[p]
     \/ state[p] = "APPROVED" /\ target = Old[p] /\ ApprovalForRecovery(p)
     \/ /\ Complete(p) /\ target = New[p]
        /\ ApprovalForRecovery(p) /\ ~ Conflicting(p)

Rollback(p) ==
  Loaded(p) /\ ApprovalForRecovery(p) /\ state[p] = "APPLYING" /\ target = Old[p]

(* Mutation: only an update whose rows were written is finished.            *)
ForwardApplied(p) ==
  /\ Loaded(p) /\ ApprovalForRecovery(p)
  /\ state[p] = "APPLIED" /\ target = New[p]
  /\ ~ Conflicting(p) /\ ~ Complete(p)
(* Mutation: the text and the approval are taken to be as they were.         *)
ForwardUnchecked(p) ==
  /\ Loaded(p)
  /\ state[p] \in {"APPLYING", "APPLIED"}
  /\ ~ Conflicting(p) /\ ~ Complete(p)
Forward(p) ==
  /\ Loaded(p) /\ ApprovalForRecovery(p)
  /\ state[p] \in {"APPLYING", "APPLIED"} /\ target = New[p]
  /\ ~ Conflicting(p) /\ ~ Complete(p)

(* Everything else is left to a person.                                     *)
Manual(p) == ~ (Clean(p) \/ Rollback(p) \/ Forward(p))

Repair(p) ==
  /\ call = Idle
  /\ \/ Rollback(p) /\ Begin(p, "rollingback", 0)
     \/ Forward(p) /\ Begin(p, "rechecking", approvalFile[p])
  /\ UNCHANGED <<target, inputs, stored, kills>>

(* Mutation: the repair reports the rollback without writing it.            *)
RollBackReported(p) ==
  At(p, "rollingback") /\ Return /\ UNCHANGED <<target, inputs, stored, kills>>

RollBack(p) ==
  /\ At(p, "rollingback")
  /\ state' = [state EXCEPT ![p] = IF @ = "APPLYING" THEN "APPROVED" ELSE @]
  /\ Return
  /\ UNCHANGED <<target, inputs, files, approvals, approvalFile, applied, baseline, kills>>

----------------------------------------------------------------------------
(* apply_patch: the file is written once everything about the request, the    *)
(* answer and the document with the answer in it is as it should be, and is   *)
(* then registered; when it is not found as it was written, or cannot be      *)
(* registered, the text before the patch is put back.                        *)
PatchWrite(request) ==
  /\ call = Idle
  /\ request.source = target
  /\ Patchable(request, Texts[target])
  /\ PromptFits(request, PromptLimit)
  /\ AnswerAdmissible(request.answer)
  /\ SplicedAdmissible(Texts[target], Texts[request.result])
  /\ target' = request.result
  /\ Begin(NoProposal, "patched", 0)
  /\ UNCHANGED <<inputs, stored, kills>>

PatchEnd ==
  /\ call.pc = "patched"
  /\ target' \in {target, call.text}
  /\ Return
  /\ UNCHANGED <<inputs, stored, kills>>

(* The owner saves the manuscript, also while an apply has not yet taken its  *)
(* last look at it, or has not yet looked at what it wrote.  For a repair     *)
(* the writers are quiesced (result_update.py:735).                          *)
Edit(content) ==
  /\ call.pc \in {"idle", "checked", "claimed", "replaced"}
  /\ target' = content
  /\ UNCHANGED <<inputs, stored, call, kills>>

(* The bound data change between calls.                                     *)
Rebind ==
  /\ call = Idle
  /\ inputs' \in Inputs \ {inputs}
  /\ UNCHANGED <<target, stored, call, kills>>

Kill ==
  /\ call # Idle
  /\ kills < MaxKills
  /\ kills' = kills + 1
  /\ Return
  /\ UNCHANGED <<target, inputs, stored>>

Step(p) == \/ BuildRow(p) \/ ApproveFile(p)
           \/ ApplyClaim(p) \/ ApplyCheck(p) \/ ApplyRefused(p) \/ Replace(p)
           \/ Verify(p) \/ FinishFile(p) \/ FinishRows(p) \/ RollBack(p)

Next == \/ \E p \in Proposals :
             Build(p) \/ Approve(p) \/ Apply(p) \/ Repair(p) \/ Step(p)
        \/ \E content \in OwnerTexts \ {target} : Edit(content)
        \/ \E request \in PatchRequests : PatchWrite(request)
        \/ PatchEnd
        \/ Rebind
        \/ Kill

Spec == Init /\ [][Next]_vars

(* A call runs on unless it is killed, and the operators repair again and   *)
(* again what reconcile offers to repair.                                   *)
FairSpec == Spec /\ WF_vars(PatchEnd)
                 /\ \A p \in Proposals : WF_vars(Step(p)) /\ SF_vars(Repair(p))

----------------------------------------------------------------------------
(* The audit trail of an applied update holds together whatever was killed   *)
(* on the way: applied.json names an approval that was really given, and the  *)
(* baseline, while it is this update's, names the same one.                  *)
RecordsAgree == \A p \in Proposals : state[p] = "APPLIED" =>
  /\ applied[p] \in 1..approvals[p]
  /\ baseline.proposal = p => baseline.approval = applied[p] /\ baseline.dated

(* An apply that was killed, or failed, between any two of its writes is one  *)
(* that reconcile repairs, unless a record of another update or of another    *)
(* approval is in the way, the text is neither the old nor the new one, or    *)
(* what it was approved with has changed.                                    *)
InterruptedIsRepairable == \A p \in Proposals :
  /\ state[p] = "APPLYING" /\ call = Idle
  /\ files[p] = "stored" /\ Bound(p)
  /\ target \in {Old[p], New[p]} /\ ~ Conflicting(p)
  => Rollback(p) \/ Forward(p)

(* An update only ever overwrites the text it was built from and approved    *)
(* for, however the owner's saves fall between its steps: what was written    *)
(* since is not lost (result_update.py:709 and 724).                         *)
OverwritesOnlyOld == [][\A p \in Proposals :
  At(p, "replacing") /\ target' # target => target = Old[p]]_vars

(* An update is only recorded as applied while the manuscript is the text     *)
(* that was approved, whole, and the approval and what it rests on are       *)
(* current (RU-6 and RU-7 of docs/u4c-reliability.md).                       *)
FinishedAsApproved == [][\A p \in Proposals :
  state[p] # "APPLIED" /\ state'[p] = "APPLIED" =>
    target = New[p] /\ Bound(p) /\ approvalFile[p] = baseline'.approval]_vars

(* An interrupted apply does not stay interrupted: it is rolled back, it is   *)
(* finished, or reconcile asks for a person.                                 *)
InterruptionEnds == \A p \in Proposals :
  state[p] = "APPLYING" ~> state[p] # "APPLYING" \/ Manual(p)
=============================================================================
