------------------------------ MODULE RunRequest ------------------------------
(***************************************************************************)
(* What a run is asked for and whether it is accepted: the checks that      *)
(* PaperForgeService.run (paperforge/api.py) makes of a profile and its      *)
(* inputs before the workflow row exists, those of a reference file, and    *)
(* those of the text a language model answers with (writing.py).            *)
(***************************************************************************)
EXTENDS Integers

CONSTANTS Profile,   \* execution profile of the workflow
          NoJob      \* no job, or no proposal, among the inputs

(* A request: rows for a domain plugin ("half" of them: a plugin without     *)
(* rows or the reverse), a wish to write, into an existing document or not,  *)
(* the kinds of files its path fields name, references, a job, a proposal    *)
(* that exists already, and whether anything in it looks like a secret.      *)

Documents == {"document"}

(* A writing-only run takes texts, paths of documents and nothing else.      *)
WritingOnlyInputs(r) ==
  /\ r.rows = "none" /\ r.job = NoJob
  /\ r.paths \subseteq Documents

(* The stages that come before the full experiment, with what they may use.  *)
StageLimits == [static_check    |-> [gpus |-> 0, seconds |-> 300],
                mini_experiment |-> [gpus |-> 1, seconds |-> 1800]]
Unlimited == 0   \* no timeout is set

StageAllowed(name, stage, job) ==
  /\ stage.backend = "local" /\ stage.execute
  /\ stage.command # job.command
  /\ stage.gpus <= StageLimits[name].gpus
  /\ stage.seconds <= StageLimits[name].seconds

(* A cost, or a limit, that is not a finite positive number is 0 here.       *)
CostsAreCovered(job) ==
  LET static == job.stages["static_check"]
      mini == job.stages["mini_experiment"]
  IN /\ job.cost > 0 /\ static.cost > 0 /\ mini.cost > 0
     /\ job.cost + static.cost + mini.cost <= job.limit

JobAllowed(job) ==
  job # NoJob =>
    /\ Profile = "full"
    /\ \A name \in DOMAIN job.stages : StageAllowed(name, job.stages[name], job)
    /\ job.execute => DOMAIN job.stages = DOMAIN StageLimits /\ CostsAreCovered(job)

(* A proposal that exists keeps its limit and the jobs it was bound to; one  *)
(* from before jobs were bound has none.                                     *)
ProposalAgrees(r) ==
  Profile = "full" /\ r.proposal # NoJob /\ r.job # NoJob =>
    /\ r.job.limit \in {0, r.proposal.limit}
    /\ r.proposal.job \in {NoJob, r.job}

Accepted(r) ==
  /\ ~ r.secret
  /\ Profile = "writing_only" => WritingOnlyInputs(r)
  /\ JobAllowed(r.job)
  /\ ProposalAgrees(r)

(* The job the compute agent may run: bound by the proposal it belongs to,   *)
(* which the run itself proposed if it named none.                           *)
Executable(r) ==
  /\ r.job # NoJob
  /\ r.proposal = NoJob \/ r.proposal.job = r.job \/ ~ r.job.execute

----------------------------------------------------------------------------
(* A reference file must be a regular text or PDF file in the workspace.     *)
Resolvable(reference) ==
  reference.inside /\ reference.readable /\ reference.regular

(* Every reference is loaded, a share of the budget each, or the load raises. *)
Loads(references) == \A reference \in references : Resolvable(reference)

(* The candidate check: what an answer must and must not hold.               *)
Usable(answer) == ~ answer.cut /\ answer.text # "empty"

Acceptable(answer, keys) ==
  /\ Usable(answer)
  /\ answer.text = "whole"                   \* of a class, begun and ended
  /\ answer.blocks = "kept"                  \* the protected experiment blocks
  /\ answer.adds \cap {"secret", "command", "result", "too much"} = {}
  /\ answer.cites \subseteq keys
=============================================================================
