----------------------------- MODULE RuntimeChain -----------------------------
(***************************************************************************)
(* What a call of Workflow does while it executes: the chain of agents of   *)
(* ResearchOSRuntime.execute (paperforge/runtime.py) and what the agents    *)
(* leave in the workspace and in the scientific memory, one transaction or  *)
(* one file at a time - the evidence of a domain plugin, the figure, the    *)
(* draft of the writing engine (writing.py), the report.  The author edits  *)
(* the document meanwhile, calls are killed, and a chain that stopped is    *)
(* run again from its first agent by the next resume.                       *)
(***************************************************************************)
EXTENDS Workflow, RunRequest, Sequences

CONSTANTS Mode,     \* compatibility mode of the command line, or "none"
          Requests,  \* the inputs a workflow may be started with
          Metrics,   \* how many metrics the domain plugin computes
          Members,   \* how many files a figure has
          Answers,   \* what the language model may answer with
          Keys,      \* keys of the bibliography
          Drafts     \* texts of acceptable answers

AllRoles == <<"research", "experiment", "code", "compute", "analysis",
              "visualization", "paper", "reviewer", "release">>

ProfileRoles == [
  writing_only |-> <<"paper", "reviewer">>,
  research     |-> <<"research", "analysis", "paper", "reviewer">>,
  full         |-> AllRoles]

LegacyRoles == [
  writeup          |-> <<"paper", "reviewer">>,
  research_partner |-> <<"research", "analysis", "reviewer">>,
  mvp              |-> <<"research", "code", "analysis", "visualization", "paper", "reviewer">>,
  scientist        |-> AllRoles]

(* A mode narrows the roles of the profile and never adds one.              *)
Roles == IF Mode = "none" THEN ProfileRoles[Profile]
         ELSE SelectSeq(LegacyRoles[Mode],
                        LAMBDA role : \E i \in DOMAIN ProfileRoles[Profile] :
                                        ProfileRoles[Profile][i] = role)

HasRole(role) == \E i \in DOMAIN Roles : Roles[i] = role

(* The action each role needs, and the actions a profile permits.           *)
RoleAction == [
  research |-> "evidence.read",  experiment |-> "experiment.static",
  code     |-> "code.patch",     compute    |-> "compute.local",
  analysis |-> "evidence.read",  visualization |-> "publication.visual",
  paper    |-> "draft.edit",     reviewer   |-> "evidence.read",
  release  |-> "github.write"]

WritingActions == {"evidence.read", "draft.edit", "publication.visual"}

Permitted(action) == Profile = "full" \/ action \in WritingActions

(* The policy is asked before every agent and, for these roles, never denies. *)
ASSUME RolesArePermitted ==
         /\ Roles \in Seq(DOMAIN RoleAction)
         /\ \A i \in DOMAIN Roles : Permitted(RoleAction[Roles[i]])
ASSUME ProfileIsGated == NeedsApproval = (Profile = "full")
ASSUME RequestsAreInputs ==
         /\ Requests # {}
         /\ \A r \in Requests : r.rows \in {"none", "half", "given"} /\ r.source \in BOOLEAN
ASSUME CountsAreNaturals == {Metrics, Members} \subseteq Nat \ {0}

VARIABLES
  request,     \* the inputs of the workflow
  run,         \* process -> the chain it executes: whose turn it is, what the
               \* results so far amount to, and where the agent is
  evidence,    \* metrics whose evidence row is recorded
  figure,      \* file of the figure -> "absent", "file" or "registered"
  document,    \* text of the document or draft, or "absent"
  registered,  \* drafts the artifact registry has a row for
  left,        \* drafts a killed or failed write left behind
  report       \* "none", or whether the report on disk is of a "complete" chain

files == <<evidence, figure, document, registered, left, report>>
chainVars == <<request, run, files>>
allVars == <<vars, chainVars>>

Phases == {"next", "adding", "exporting", "unregistered", "asking", "written", "manifest"}
Ready == [turn |-> 1, outcome |-> "complete", phase |-> "next", done |-> 0, base |-> "absent"]

ChainInit ==
  /\ Init
  /\ request \in Requests /\ Accepted(request)
  /\ run = [p \in Callers |-> Ready]
  /\ evidence = {}
  /\ figure = [i \in 1..Members |-> "absent"]
  /\ document = IF request.source THEN "author" ELSE "absent"
  /\ registered = {} /\ left = {}
  /\ report = "none"

----------------------------------------------------------------------------
In(p, phase) == At(p, "executing") /\ run[p].phase = phase
AllReported(p) == run[p].turn > Len(Roles)
Turn(p, role) == In(p, "next") /\ ~ AllReported(p) /\ Roles[run[p].turn] = role

(* Mutation: an agent that has failed does not halt the chain.              *)
FailuresPass(p, result) ==
  run' = [run EXCEPT ![p] =
    CASE result \in {"completed", "skipped", "failed"} -> [Ready EXCEPT !.turn = run[p].turn + 1]
      [] result = "auth" -> [Ready EXCEPT !.turn = Len(Roles) + 1, !.outcome = "auth"]
      [] OTHER -> [Ready EXCEPT !.turn = Len(Roles) + 1, !.outcome = "blocked"]]

(* The result of an agent.  Completed and skipped ones pass; the first that *)
(* is "blocked", has "failed" or is blocked for want of a credential        *)
(* ("auth") halts the chain, and the agents after it are reported as        *)
(* blocked without a call.                                                  *)
Ends(p, result) ==
  run' = [run EXCEPT ![p] =
    CASE result \in {"completed", "skipped"} -> [Ready EXCEPT !.turn = run[p].turn + 1]
      [] result = "auth" -> [Ready EXCEPT !.turn = Len(Roles) + 1, !.outcome = "auth"]
      [] OTHER -> [Ready EXCEPT !.turn = Len(Roles) + 1, !.outcome = "blocked"]]

Enters(p, phase) == run' = [run EXCEPT ![p].phase = phase]
Elsewhere == UNCHANGED <<vars, request>>

(* An agent that only reads: it lists files, or evaluates the claim gate.   *)
Reads(p, role, results) ==
  /\ Turn(p, role)
  /\ \E result \in results : Ends(p, result)
  /\ Elsewhere /\ UNCHANGED files

Research(p) == Reads(p, "research", {"completed", "failed"})
Code(p) == Reads(p, "code", {"completed", "failed"})
Experiment(p) == Reads(p, "experiment", {"completed", "failed"})
Reviewer(p) == Reads(p, "reviewer", {"completed", "blocked", "failed"})
Release(p) == Reads(p, "release", {"completed", "blocked", "failed"})

(* The compute agent has a model of its own (BackendStage).  Without a job   *)
(* it may run it is blocked, and it asks for the approval again.            *)
Compute(p) ==
  Reads(p, "compute", IF request.job = NoJob THEN {"blocked"}
                      ELSE IF approval # "full" THEN {"failed"}
                      ELSE IF ~ Executable(request) THEN {"blocked"}
                      ELSE {"completed", "blocked", "failed"})

(* Without rows the analysis is a snapshot of the claim gate; a plugin      *)
(* without rows, or rows without a plugin, is a TypeError.                  *)
AnalysisOnly(p) ==
  /\ Turn(p, "analysis") /\ request.rows # "given"
  /\ Ends(p, IF request.rows = "none" THEN "completed" ELSE "failed")
  /\ Elsewhere /\ UNCHANGED files

(* The plugin validates every row before it computes anything.              *)
RunPlugin(p, role, phase) ==
  /\ Turn(p, role) /\ request.rows = "given"
  /\ Enters(p, phase) \/ Ends(p, "failed")
  /\ Elsewhere /\ UNCHANGED files

(* add_evidence, an upsert under an identifier made of the excerpt.         *)
AddEvidence(p) ==
  LET next == run[p].done + 1 IN
  /\ In(p, "adding")
  /\ \/ /\ evidence' = evidence \cup {next}
        /\ IF next = Metrics THEN Ends(p, "completed")
           ELSE run' = [run EXCEPT ![p].done = next]
     \/ Ends(p, "failed") /\ UNCHANGED evidence
  /\ Elsewhere /\ UNCHANGED <<figure, document, registered, left, report>>

NoFigure(p) ==
  /\ Turn(p, "visualization") /\ request.rows # "given"
  /\ Ends(p, IF request.rows = "none" THEN "skipped" ELSE "blocked")
  /\ Elsewhere /\ UNCHANGED files

(* Each file is replaced and then registered.  All but the last, the source *)
(* manifest with its times of creation, are written byte for byte again.    *)
WriteMember(p) ==
  LET next == run[p].done + 1 IN
  /\ In(p, "exporting")
  /\ \/ /\ figure' = [figure EXCEPT ![next] =
                        IF next < Members /\ @ = "registered" THEN @ ELSE "file"]
        /\ Enters(p, "unregistered")
     \/ Ends(p, "failed") /\ UNCHANGED figure
  /\ Elsewhere /\ UNCHANGED <<evidence, document, registered, left, report>>

RegisterMember(p) ==
  LET next == run[p].done + 1 IN
  /\ In(p, "unregistered")
  /\ \/ /\ figure' = [figure EXCEPT ![next] = "registered"]
        /\ IF next = Members THEN Ends(p, "completed")
           ELSE run' = [run EXCEPT ![p].done = next, ![p].phase = "exporting"]
     \/ Ends(p, "failed") /\ UNCHANGED figure
  /\ Elsewhere /\ UNCHANGED <<evidence, document, registered, left, report>>

----------------------------------------------------------------------------
(* WritingEngine.write.                                                     *)

NoWriting(p) ==
  /\ Turn(p, "paper") /\ ~ request.writing
  /\ Ends(p, IF Profile = "writing_only" THEN "blocked" ELSE "skipped")
  /\ Elsewhere /\ UNCHANGED files

(* The text the model is asked about, its references, its protected blocks  *)
(* and its bibliography are read once.  A document without a protected      *)
(* block, a brief that is empty or a prompt too long is a WritingError,     *)
(* which blocks; a missing file, an unsafe path or a reference that does    *)
(* not load fails.                                                          *)
ReadDocument(p) ==
  /\ Turn(p, "paper") /\ request.writing
  /\ \/ /\ Loads(request.references)
        /\ run' = [run EXCEPT ![p].phase = "asking", ![p].base = document]
     \/ \E result \in {"blocked", "failed"} : Ends(p, result)
  /\ Elsewhere /\ UNCHANGED files

(* No credential; a truncated answer, or one the candidate check refuses;   *)
(* any other error of the provider.                                         *)
AnswerRefused(p) ==
  /\ In(p, "asking")
  /\ \/ \E answer \in Answers : ~ Acceptable(answer, Keys) /\ Ends(p, "blocked")
     \/ \E result \in {"auth", "failed"} : Ends(p, result)
  /\ Elsewhere /\ UNCHANGED files

WriteDraft(p) ==
  /\ In(p, "asking")
  /\ \E answer \in Answers : Acceptable(answer, Keys)
  /\ document' \in Drafts
  /\ Enters(p, "written")
  /\ Elsewhere /\ UNCHANGED <<evidence, figure, registered, left, report>>

(* The registry hashes whatever is on disk by now.                          *)
RegisterDraft(p) ==
  /\ In(p, "written")
  /\ registered' = registered \cup ({document} \cap Drafts)
  /\ Ends(p, "completed")
  /\ Elsewhere /\ UNCHANGED <<evidence, figure, document, left, report>>

(* Mutation: the exception passes without putting the document back.        *)
RestoreNothing(p) ==
  /\ In(p, "written")
  /\ \E result \in {"blocked", "failed"} : Ends(p, result)
  /\ Elsewhere /\ UNCHANGED files

(* The protected text has changed under the write, or the registration      *)
(* failed: a document is put back as it was read, a new draft is removed,   *)
(* also one that an earlier execution had registered.                       *)
RestoreDocument(p) ==
  /\ In(p, "written")
  /\ document' = IF request.source THEN run[p].base ELSE "absent"
  /\ \E result \in {"blocked", "failed"} :
       Ends(p, result) /\ (result = "blocked" => document = "author")
  /\ Elsewhere /\ UNCHANGED <<evidence, figure, registered, left, report>>

(* The document cannot be put back either.                                  *)
RestoreFails(p) ==
  /\ In(p, "written")
  /\ left' = left \cup ({document} \cap Drafts)
  /\ Ends(p, "failed")
  /\ Elsewhere /\ UNCHANGED <<evidence, figure, document, registered, report>>

----------------------------------------------------------------------------
(* Written once all results are known, and says whether any is blocked or   *)
(* has failed.                                                              *)
WriteReport(p) ==
  /\ In(p, "next") /\ AllReported(p)
  /\ report' = IF run[p].outcome = "complete" THEN "complete" ELSE "stopped"
  /\ Enters(p, "manifest")
  /\ Elsewhere /\ UNCHANGED <<evidence, figure, document, registered, left>>

WriteManifest(p) ==
  /\ In(p, "manifest")
  /\ Execute(p, run[p].outcome)
  /\ run' = [run EXCEPT ![p] = Ready]
  /\ UNCHANGED <<request, files>>

(* Exceptions of the agents are results; those of the report and of its     *)
(* manifest leave execute.                                                  *)
ReportRaises(p) ==
  /\ (In(p, "next") /\ AllReported(p)) \/ In(p, "manifest")
  /\ ExecuteRaises(p)
  /\ run' = [run EXCEPT ![p] = Ready]
  /\ UNCHANGED <<request, files>>

Kill(p) ==
  /\ Crash(p)
  /\ run' = [run EXCEPT ![p] = Ready]
  /\ left' = IF run[p].phase = "written" THEN left \cup ({document} \cap Drafts) ELSE left
  /\ UNCHANGED <<request, evidence, figure, document, registered, report>>

(* The author saves the document, also while an agent writes it.            *)
AuthorSaves ==
  /\ document # "absent"
  /\ document' = "author"
  /\ UNCHANGED <<vars, request, run, evidence, figure, registered, left, report>>

Agent(p) ==
  \/ Research(p) \/ Experiment(p) \/ Code(p) \/ Compute(p)
  \/ AnalysisOnly(p) \/ RunPlugin(p, "analysis", "adding") \/ AddEvidence(p)
  \/ NoFigure(p) \/ RunPlugin(p, "visualization", "exporting")
  \/ WriteMember(p) \/ RegisterMember(p)
  \/ NoWriting(p) \/ ReadDocument(p) \/ AnswerRefused(p)
  \/ WriteDraft(p) \/ RegisterDraft(p) \/ RestoreDocument(p) \/ RestoreFails(p)
  \/ Reviewer(p) \/ Release(p) \/ WriteReport(p)

(* The steps of a call outside the chain leave the chain alone.             *)
Outside(p) ==
  /\ \/ Activate(p) \/ Gate(p) \/ Await(p)
     \/ Reuse(p) \/ CheckApproval(p) \/ Resume(p)
     \/ Claim(p) \/ NotClaimed(p) \/ ReleaseClaim(p)
     \/ \E outcome \in Outcomes : RecordCheckpoint(p, outcome)
     \/ AuthBlock(p) \/ Complete(p)
  /\ UNCHANGED chainVars

ChainStep(p) == Outside(p) \/ Agent(p) \/ WriteManifest(p) \/ ReportRaises(p)

Begin(p) == (Create(p) \/ ResumeRead(p) \/ ReleaseVerify(p)) /\ UNCHANGED chainVars
Owner(scope) == Approve(scope) /\ UNCHANGED chainVars
Embedding(target) == Mark(target) /\ UNCHANGED chainVars

ChainNext ==
  \/ \E p \in Callers : Begin(p) \/ ChainStep(p) \/ Kill(p)
  \/ \E scope \in {"mini", "full"} : Owner(scope)
  \/ \E target \in Marks : Embedding(target)
  \/ AuthorSaves

ChainSpec == ChainInit /\ [][ChainNext]_allVars

(* Every agent ends: commands, requests and jobs have time limits.          *)
ChainFairSpec == ChainSpec /\ \A p \in Callers : WF_allVars(ChainStep(p))

----------------------------------------------------------------------------
(* test_writing.py:33: a write that cannot be registered is undone.  So the  *)
(* document is, whenever no agent is between the write and the registration, *)
(* the author's, or registered, or gone, unless a kill or a second failure   *)
(* came in between - however chains fail, are repeated and meet the author.  *)
DraftIsAccounted ==
  (\A p \in Callers : ~ In(p, "written")) =>
     document \in registered \cup left \cup {"author", "absent"}

(* A workflow whose result is stored has what its agents report: a report    *)
(* that says so, the evidence of every metric, and every file of the figure. *)
CompleteIsDelivered ==
  executed => /\ report = "complete"
              /\ HasRole("analysis") => request.rows # "half"
              /\ request.rows = "given" =>
                   /\ HasRole("analysis") => evidence = 1..Metrics
                   /\ HasRole("visualization") =>
                        \A i \in 1..Members : figure[i] = "registered"
=============================================================================
