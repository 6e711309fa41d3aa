# PaperForge: a TLA+ model of its workflow, budget, evidence and release logic

PaperForge turns an idea into a paper: it plans experiments, runs them locally
or on remote machines inside an approved budget, gathers evidence, writes and
compiles a manuscript, reviews it and releases it. Everything it does is driven
by short-lived commands (`paperforge run`, `resume`, `experiment ...`, the web
console) that share one SQLite database (`.paperforge/`, "scientific memory")
and the files of a workspace. A command can be killed at any point and another
one can run at the same time. That is what this project models: which steps a
command takes, in which order they reach the database and the files, and what is
left when it stops half-way. The rules by which a step is allowed - whether a
proposal, a manifest, a patch, a claim or a page is admissible - are operators
on abstract data, used by those steps or tried at their edges.

Paths below are relative to `src/paperforge/` unless they start with `src/`.

## The parts of the system

| Part | State it keeps | Operations | Hard behaviour | Modules |
|---|---|---|---|---|
| Workflow engine and service (`workflow.py`, `api.py`, `policy.py`) | one `workflows` row (status, metadata with the runtime claim and result), `workflow_events` | `run`, `resume`, `approve`, `release`; `create`, `transition`, `record_checkpoint`, `claim_runtime_execution`, `release_runtime_claim` | commands race for one row; one is killed with the claim taken | `Workflow`, `RunRequest` |
| Research runtime (`runtime.py`, `agents.py`) | nothing of its own | one handler per agent in a fixed order | killed and run again over what it left | `RuntimeChain`; compute handler: `BackendStage`, `StageFiles` |
| Writing (`writing.py`, `writing_patch.py`, `grounded_narrative.py`, `visualization.py`, `references.py`) | the draft and figures, their registry rows | write, patch, ground, export | text on disk before it is registered | `RuntimeChain`, `RunRequest`, `PatchRules`, `NarrativeRules` |
| Experiment manager (`experiments.py`) | proposals, `experiment_approvals`, `experiment_budget_events`, `experiment_runs` | propose, approve, `execute_stage`, reserve/charge/finalize/release of a backend stage, `record_stage` | money reserved and settled in separate transactions; stage order checked before and recorded after the run; fresh outputs told from old ones by hashes | `ExperimentStore`, `LocalStage`, `BackendStage`, `BudgetLedger`, `ProposalRules` |
| Compute contracts and binding (`compute/base.py`, `binding.py`, `state.py`, `source_bundle.py`, `_artifacts.py`) | saved job results, snapshots, bundles | bind, verify, stage, sync | the worktree changes under a binding; a transfer stops half-way | `BindingRules`, `ComputeClient`, `ComputeJob`, `StageFiles` |
| Compute backends (`compute/local.py`, `slurm.py`, `ssh.py`, `docker.py`, `kubernetes.py`) | job directories, supervisor identity and completion files, submission intents, markers | submit, status, cancel, resume, recover, sync | lost answers, deadlines, restarted controllers, executions nobody knows of | `LocalBackend`, `SlurmBackend`, `SSHBackend`, `DockerBackend`, `KubernetesBackend`, `ComputeBackends` |
| External import (`external_import.py`, `evidence_semantics.py`) | manifest and report files, import, approval and materialisation rows, evidence | stage, validate, approve, materialise, reconcile | approval bound to hashes; a kill before or after the one transaction | `ExternalImport`, `ImportManifest` |
| Result ledger (`result_ledger.py`, `metric_adapters.py`) | frozen ledgers | query, freeze, load | contradicting evidence; a ledger outlives what it was made of | `LedgerQuery`, `FrozenReview` |
| Immutable bundles (`immutable_artifacts.py`, `artifacts.py`) | files and registry rows | freeze, register, verify | a kill between two files, damage before registration | `FrozenReview` |
| Scientific review, layout check, matrix (`scientific_review.py`, `pdf_qa.py`, `reviewer_matrix.py`) | frozen reports, human reviews | check, review, derive, freeze | a review outlives its ledger or its PDF | `ScienceReview`, `LayoutReview`, `ReviewerMatrix`, `FrozenReview` |
| Result update (`result_update.py`) | the manuscript, proposal, approval and record files, `result_updates`, `result_approvals`, `result_baselines` | build, approve, apply, reconcile | killed between writes; edited by the author in between | `ResultUpdate`, `UpdateRules`, `PatchRules` |
| Publication engine (`publication/`) | the manuscript under repair, snapshot, reports, PDF | publish | repair rounds, rollback, a mixture of two publications | `Publication` |
| Release (`release.py`, `release_eligibility.py`) | reports, assessment, acknowledgement | inspect, verify, assess, acknowledge, authorize | inputs change between two reads, or after the acknowledgement | `Publication`, `FrozenReview`, `ReviewerMatrix` |
| Providers, plug-ins, command line | none | requests, arithmetic, parsing | none of their own | a step of `RuntimeChain` |
| Web console (`src/frontend/`) | one record per child process, its reader threads | launch, pause, resume, stop | threads against the child's end | not modelled |
| Legacy engine (`src/engine`, `src/agents`, launchers) | files of a workspace | a pipeline that `paperforge/` replaces | workspace lock | not modelled |

They meet in three places: the database (every transaction of the code is one
atomic step here), files of the workspace (each write and each hash is a step of
its own), and the calls from the runtime into the experiment manager and a
compute backend.

What makes each part correct:

- **Experiment manager**: reserved and charged amounts never exceed the limit the
  owner approved, each reservation is settled once and for good, stages pass in
  the order static, mini, full and are not repeated, and a run that counts as
  evidence has outputs produced after its budget was reserved.
- **Remote path**: the job starts on the source that was approved, is paid for
  once however often the handler is killed, its outputs enter the workspace only
  after the charge and all together, and a charge, once made, stays.
- **Backends**: an execution is launched only once its job is on record, an attempt
  counts as succeeded only after an execution of it did, a verdict is final, and
  a launch whose answer was lost is resolved before the next one.
- **Workflow and chain**: the agents run once at a time, a stored result is kept and
  what it reports was delivered, the document at rest is the author's or accounted
  for, and a claim is given back by whoever lives.
- **External import**: one scientific run has evidence from one import only,
  evidence that was made is not written over, a mismatch stays visible until a
  person looks at it.
- **Result update**: what the author wrote is not overwritten, only approved text
  is recorded as applied, and a killed apply can be repaired.
- **Publication and release**: repairs change layout and nothing of the science,
  what is released is one publication as it was written and supported by the claim
  gate, a refusal has a cause, and every call ends.
- **Frozen bundles**: what is registered is what was frozen, nothing is rewritten,
  nothing unfinished has authority, and only the assessment the owner acknowledged
  authorizes.

## Modules

```
BudgetLedger            abstract: what the budget rows promise
ExperimentStore         the rows of one proposal, one operator per transaction
  LocalStage            execute_stage by several processes ----implements--> BudgetLedger
  BackendStage          the compute handler around a remote job -implements-> BudgetLedger
    StageFiles          the same with the source and the outputs it moves
BindingRules            what a compute job is bound to
  ProposalRules         what is accepted as a proposal, and how inputs are hashed
ComputeJob              abstract: what a backend promises of one job
ComputeClient           what every backend shares
  LocalBackend, SlurmBackend, SSHBackend, DockerBackend, KubernetesBackend
    ComputeBackends     a job bound to one of them -----------implements--> ComputeJob
Workflow                the service calls of several processes on one workflow
RunRequest              what a run may ask for
  RuntimeChain          Workflow with the chain of agents ----implements--> Workflow
Publication             publish and release of one paper
ImportManifest          what a manifest must say
  ExternalImport        imports, their approvals and evidence
  LedgerQuery           what a ledger takes from the evidence
  ScienceReview         the checkers of the scientific review
LayoutReview            the layout check of a PDF and its human reviews
ReviewerMatrix          the reviewers' matrix and the gates of a release
  FrozenReview          ledger, review, layout check, assessment, acknowledgement
UpdateRules             what an update has to satisfy
  PatchRules            what a patch of a .tex file has to satisfy
    ResultUpdate        updates of one manuscript and their repair
  NarrativeRules        what generated prose has to satisfy
ExperimentStoreProofs, LocalStageProofs, BackendStageProofs, ComputeBackendsProofs,
WorkflowProofs, ReliabilityProofs, PublicationProofs, FrozenReviewProofs
MC...                   small instances for TLC
```

### ExperimentStore, BudgetLedger, LocalStage

`ExperimentStore` has the rows of *one* proposal: `approvals` (one per scope),
`budget`, `runs`, `status`, and `output`, the declared metrics file in the
workspace. Each operator that primes a variable is one transaction of
`experiments.py`. Money is counted in whole cost units, one "coin" per unit
(`Coins`), so that the sum over rows is the cardinality of a set: TLC evaluates
it and the proofs need no recursion. Two details of the code are kept because
they matter: `_reserve_budget` sums and inserts under `BEGIN IMMEDIATE`
(`ReserveRow` is atomic), and `_settle_budget` updates by identifier without
looking at the row (`SettleRow` has no guard). `BudgetLedger` says what the rows
are meant to be, with the guard that `SettleRow` lacks; `Ledger == INSTANCE
BudgetLedger WITH ...` maps the rows onto it, `KeepsLedger` is the refinement.

In `LocalStage`, `local[x]` holds what a call of `execute_stage` has read and
done. Its `pc` follows the code: authorized, hashed (output hashes before),
reserved, ran or raised, charged, verified (hashes after), recording (authorised
once more). A killed process is `Crash`: what the call had read is forgotten, the
rows stay and the process may call again. `bound` tells a call that runs the
approved job from one with an executor argument.

### BindingRules, ProposalRules

A path is the sequence of its names and a file tree maps paths to files,
directories and links. `Bindable`, `Binding` and `BindingVerified` are
`build_compute_binding` and `verify_compute_binding` for all six kinds of backend:
which files, tools, keys and images are hashed, what is skipped, what has to be
pinned. `ProposalRules` has the path rules and hashes of `experiments.py`, the
limits of the two cheap stages, and `Propose` with its identifier. They are pure;
`MCLocalStage` states what they must satisfy as named assumptions over a small
workspace (`BindingRule`, `LinkRule`, `HashRule`, ...): a fresh binding verifies
until something it covers changes, and only then.

### BackendStage, StageFiles

`worker[w]` is one call of the compute handler `_handle_compute` on one remote
`job`. The static and mini stages have passed; the handler takes up or creates
the reservation of the lifecycle, asks the backend for the job's status, submits,
releases when that raises, charges, synchronises and finalises. The job is
external: it runs, ends with any result and cost, and answers with its state.
`StageFiles` extends each of these steps with the files it needs and leaves
(`FilesStep`): the worktree, which the owner edits; the local snapshot under its
key; the source on the job's machine, which a command given up after a timeout
may still write (`StrayExtracts`); the outputs, one by one, on their way back.

### ComputeClient, the backends, ComputeBackends, ComputeJob

`ComputeClient` is one backend object: the result in its `memory`, the one in
its durable table (`row`), and the `runs` - executions of the job that exist
outside it. `Reopen` makes a new object, as the runtime does for every
call of the handler; it is a crash too. Each backend module says what `site`, its own
outside world, holds: supervisor, identity and completion files (local), the scheduler and the
intent (Slurm), shell, container and watcher (SSH), container, watchdog and
marker (Docker), Jobs by name (Kubernetes). A command may fail before or after it
took effect. Of a Docker launch the container, its watchdog (`WatchdogStarts`) and its
record (`Answered`) are three steps, with a kill possible before each; an attempt has one
marker file, written by whichever of its watchdogs comes last. A Kubernetes Job that
has ended may expire at any time (`JobExpires`, `ttlSecondsAfterFinished`). `ComputeJob` is the promise they all make; `KeepsPromise` is the
refinement.

### Workflow, RunRequest, RuntimeChain

`status`, `claimed` and `executed` are what the calls read of the workflow row,
`approvals` the approval rows of its proposal, and `caller[p]` where a command in
process `p` is. Transitions, the claim and checkpoints are one transaction each;
`Execute` stands for the agents between claim and checkpoint. `Marks` are
statuses that other programs set through the engine directly (only tests do so).
`RuntimeChain` replaces `Execute` by the agents: research, experiment, code,
compute, plug-in rows, figure members, the draft (read, write, register, restore),
reviewer, release. What a call may ask for is `Accepted` of `RunRequest`. The
chain is started anew, from its first agent, by every resume.

### Publication

A manuscript is what it says (`science`), how it is set (`layout`) and the lines
before its text. A call of `publish` reads, snapshots, compiles, diagnoses,
repairs, verifies or rolls back and writes its artifacts one by one; a call of
`release` reads them one by one and the claim gate last. The author saves, and
claims are imported, at any time; a killed call leaves what it had written.

### ImportManifest, ExternalImport

An import is known by its manifest, its validation report and its rows. Content
stands for its hash: `manifest[i]` is which version of the manifest is there,
`intact[i]` whether the source still has the hash that the manifest lists,
`report[i]` what the digest of the report covers and whether it still says so.
`approval[i]` is the newest valid row of `import_approvals`; it binds manifest and
report, and so does the key of a materialisation (`Bindings`). Staging and
validation write files first and a row afterwards, so they are two steps each with
`Kill` in between; approval and materialisation are one transaction after reads
that nothing interrupts under the single-writer contract. Between calls the files
of the imports in `Edited` change in any way. What makes a version admissible, and
which run it measured, is read from the records of `Manifests` by the operators of
`ImportManifest`.

### LedgerQuery, ScienceReview, LayoutReview, ReviewerMatrix, FrozenReview

`FrozenReview` has the life of the five kinds of bundle: each is its content, its
name being a digest of it; `file` and `registry` map a bundle and a member to
what is there, and one `call` writes a file or a row per step. `LedgerQuery` decides what a query finds, whether it
contradicts itself and may be pooled; `ScienceReview` has the checkers and the
coverage of a claim; `LayoutReview` the rules for fonts, pages and human reviews;
`ReviewerMatrix` the derivation of an action's state and the release gates. The
facts and the paper change at any time (`ChangeFacts`, `EditPaper`), `Damage` to
files happens between calls, kills anywhere.

### UpdateRules, PatchRules, NarrativeRules, ResultUpdate

Two proposals for one file, the second built on the text the first leads to.
Calls run one at a time - `src/docs/u4c-reliability.md:215-216` demands a single
writer - but are killed between any two writes. The owner saves the file between calls,
and during an apply after it has been read and until the last comparison before the
write (`result_update.py:724`), or between the write and its verification (`Edit`); what
is refused there leaves the row APPLYING (`ApplyRefused`). A save between the comparison
and the write itself is lost to the program, which has no lock on the file, and is left
out; so is one during a repair, for which the writers are to be quiesced
(`result_update.py:735`). A model patches the prose around the block (`PatchWrite`,
`PatchEnd`) and the ledgers and artifacts behind a proposal change (`inputs`) between
calls. A proposal can be
made if `Proposable`, is bound while `Bound`, both decided by `UpdateRules`. A
killed call is `Kill`; `Repair` starts the repair that `reconcile_result_updates`
offers (roll back, or finish).

## Runs

| Run | Instance | Question | Answer |
|---|---|---|---|
| `local_pair` | two executors, kills, unit costs, limit 3 | do two processes on one proposal keep the budget, the stage order and the ledger? | yes: `WithinCostLimit`, `StagesInOrder`, `KeepsLedger` |
| `local_alone` | one executor, kills and retries, both kinds of call, two file contents, limit 4 | is eligible evidence newer than the budget it was paid from, and does no stage repeat? | yes: `EligibleIsFresh`, `NoStageRepeats` |
| `local_stuck` | one executor, kills | can a resume always finish a killed full stage? | no: finding `ResumeHasAWay` |
| `backend_alone` | one handler, kills, four events, limit 3, any result and cost of the job, a checkpoint beside the metrics | does the job start on the approved source, is it paid once and before its outputs are used, and does a stage pass on all of them only? | yes: `JobPaidOnce`, `LedgerSteps`, `ArtifactsArePaid`, `SourceIsApproved`, `PassedIsWhole` |
| `compute_jobs` | one job on each of five backends, three attempts, two executions, crashes | is what a backend records of a job true, and is an attempt executed again only when no record names its first execution and that is over? | yes: `OnlyLostAttemptsRepeat`, `IntentIsUnambiguous`, `LocalVerdictIsFinal`, `DeadlineIsFinal`, `CleanupNeverSucceeds`, `PendingLaunchIsResolved`, `KeepsPromise` |
| `compute_replaced` | Kubernetes, no crash | is the Job of an attempt gone before the next is applied? | no: finding `ReplacedJobIsGone` |
| `workflow_races` | two callers, one of them killable, seven accepted and five refused requests, five answers, two metrics, two figure files | do the agents run once at a time, is a result kept and delivered, is the draft accounted for, and is every claim given back by who lives? | yes: `ExecutesAlone`, `ResultKept`, `CompleteIsDelivered`, `DraftIsAccounted`, `ClaimsEnd` |
| `workflow_stuck` | one caller, kills | is a claim always somebody's? | no: finding `ClaimHasHolder` |
| `update_crash` | two chained updates, two approvals each, two kills, three states of the inputs, two patches, the owner saving between and during calls, fairness | does the audit trail hold together, is the author's text safe, and does a killed apply end? | yes: `RecordsAgree`, `InterruptedIsRepairable`, `OverwritesOnlyOld`, `FinishedAsApproved`, `InterruptionEnds` |
| `import_crash` | two imports of one run, two versions, two metrics, kills, the files of one edited | is there one measurement per run, is evidence final, do mismatches stay visible? | yes: `OneMeasurementPerRun`, `EvidenceIsFinal`, `MismatchIsKept` |
| `publication` | three calls of publish and release, two rounds, one edit, one kill, fairness | is only whole, supported and authored text released, with a cause for every refusal, and does every call end? | yes: `ScienceIsAuthored`, `OnlyWholeIsReleased`, `SupportedIsReleased`, `RefusalHasCause`, `CallsEnd` |
| `frozen` | four bundles, one kill, one damage, one change of facts, two papers | has only what is finished, as frozen and acknowledged, authority? | yes: `RegisteredIsFrozen`, `NothingIsRewritten`, `AuthorityIsFinished`, `AuthorizedAsAcknowledged`, `RefusedForCause` |

The pure rules have no states to explore. The MC module that extends them states
what they must satisfy as named assumptions, which TLC evaluates when it
starts the run: `MCLocalStage` for bindings and proposals, `MCResultUpdate` for
updates, patches and prose, `MCExternalImport` for manifests, `MCFrozenReview` for
queries, reviews, pages and matrices. Each tries the cases on both sides of every
edge the code draws.

Some invariants that used to be checked by a run are now theorems only:
`TypeOK` everywhere, `RunsAreCharged`, `SettledBeforeReturn`, `PassedIsEvidence`,
`TerminalIsFinal`.

### Bounds and why they are enough

- *Events of a proposal* (`Events`): a row is never reused, so this bounds the
  attempts. Four give three stages and one retry. With unit estimates the cost
  limit is hit exactly when the rows are, so refusals and the last affordable
  reservation both occur. *Costs* range over `0..CostLimit + 1`: free, exact and
  more than was approved.
- *Contents of the metrics file*: one tells "written" from "missing" where freshness
  is not the question; two where it is, so that a retry can find an old file and
  write the same one or another. One extra output tells a whole set from a part.
- *Executors, callers*: two show every race between a pair. Nothing in `Workflow`
  or `RuntimeChain` counts, so those state spaces are complete for their callers.
- *Attempts and executions of a job* (`MaxAttempt` 3, `MaxRuns` 2): a first attempt, a
  resume, and one more after a failed resume; the second execution is the one
  that must not be there.
- *Updates*: the second proposal is built on the first one's result, which is the
  only way two updates of one file interact. Two approvals tell the old one from
  the new one, two kills allow a repair to be killed as well; of the three inputs
  one lacks what the proposals rest on. One patch fits, one would change the
  protected block.
- *Imports*: two, of the same run as staged; amending the second makes it another
  run's, and one version of the first is inadmissible. Kills and calls are
  unbounded.
- *Publication*: two rounds allow a repair, its rollback and a give-up; three calls a
  publish, another over it and a release; one edit and one kill fall anywhere.
  Sciences and bibliographies are interchangeable, so the run starts from the
  first (`FirstSpec`).
- *Frozen bundles*: four are a ledger, a review, a layout check and an assessment, or
  one of them twice; one kill leaves every partial bundle, one damage every damaged
  file. The evidence is one imported row, so that an approval can be withdrawn.

Symmetry is declared for executors, handlers and events, in runs that check no
liveness; none of these values is compared otherwise than by equality. Deadlock
is not checked where the system really stops: `compute_jobs`, `compute_replaced`
and `publication` have bounded calls.

The theorems drop all of these bounds.

### Fairness

- `RuntimeChain!ChainFairSpec` is weak fairness of the steps of a call that has
  begun (`ChainStep`). Agents call providers with a timeout, local jobs run under
  a deadline, and the remaining steps are the process's own statements. Starting
  a call, an approval, an edit and a mark of the engine are not fair. `ClaimsEnd`
  speaks of the processes that are not in `Killable`: what a kill leaves is the
  finding `ClaimHasHolder`.
- `Publication` has weak fairness of a step of the running call: every external
  command runs under a timeout (`publication/compiler.py`).
- `ResultUpdate!FairSpec` is weak fairness of the steps of a call and strong
  fairness of `Repair`: the operator who sees an interrupted update runs
  `reconcile` with repair again and again, as `src/docs/u4c-reliability.md`
  describes the recovery. Edits and changed inputs come and go in between, which
  is why weak fairness would not do. Kills are bounded by `MaxKills`.

## Findings

Three violations of something the repository says; each has its counterexample in
the run named.

1. `local_stuck`, `experiments.py:1770`: a full local stage killed after its
   outputs were copied back is retried with those outputs as the "before" hash,
   passes unverified and blocks every resume, which `src/README.md:105-106`
   promises to recover.
2. `workflow_stuck`, `api.py:588`: a kill while the agents run leaves
   `runtime_claimed` set and `resume` refuses from then on.
3. `compute_replaced`, `compute/kubernetes.py:1119`: a resume whose delete failed
   records the attempt it never applied; the next resume deletes a Job that does
   not exist and starts another beside the one that still runs.

Observations met while modelling, none of which a document contradicts plainly
enough for a finding, or which need a case the runs leave out:

- *Budget*: with two handlers of one remote job, `release_backend_stage`
  (`experiments.py:1732`) reads RESERVED and writes RELEASED in two transactions and
  undoes a charge in between; the limit can then be exceeded. Two executors may
  record one stage twice, and record metrics of the other's file.
- *Proposals*: the identifier covers neither the limit nor the risk level and the row is
  inserted `ON CONFLICT DO NOTHING` (`experiments.py:583-590`), so proposing again
  with another limit silently keeps the old one (assumption `RepeatRule`). The
  time limits of the cheap stages are not applied to a job that states no timeout.
  An executor's mapping without a return code counts as a success. The order of
  the declared paths changes their aggregate hash.
- *Bindings*: `.`, which `_normalize_paths` accepts, is refused only when it is hashed. A
  commit of unchanged files changes the Git identity and with it the binding, so
  approved work has to be proposed again. Files in skipped parts of a bound
  directory (`runs`, `results`, `logs`, ...) are neither hashed nor copied.
- *Workflow*: a full run killed before AWAITING_APPROVAL is resumed without its approval
  (`api.py:589`, against `src/docs/V3_ARCHITECTURE.md:30-31`). A run repeated under
  its idempotency key after an input changed makes another proposal and checks
  *its* approval while the row keeps the old one (`api.py:380-413`). PAUSED,
  INTERRUPTED, FAILED and CANCELLED are only set by direct callers of the engine.
- *Chain*: a resume starts from the first agent again and overwrites the draft; the
  registration of a draft hashes whatever is on disk by then; the evidence id of a
  plug-in row leaves the hash of the data set out; a full run without a job always
  ends blocked at the compute agent.
- *Files of a stage*: an edit while the snapshot is copied leaves a wrong snapshot under
  its key and every later binding of that content is refused until somebody
  clears it (`compute/binding.py:419`). A timed-out extraction goes on remotely and the
  marker `source.sha256` is not removed before the next one. Editing the worktree
  while a remote job runs blocks its collection.
- *Backends*: a restarted local controller never saves the verdict it reads
  (`compute/local.py:926`); a Slurm cancel that failed is recorded as FAILED while the job
  runs; an intent whose launch never reached Slurm is UNKNOWN for ever; an SSH
  controller that died after its intent executes again on resume; the Docker
  watchdog may turn a success into a timeout. An attempt can be executed twice: a
  controller dies after it started the watchdog of a resumed container
  (`compute/docker.py:865`) and before it records the attempt (`:895`), the watchdog removes
  the container at its deadline and frees the name, and the next resume starts the same
  attempt; or a Kubernetes Job that was applied and not recorded ends and expires
  (`compute/kubernetes.py:364`). No document promises that an attempt runs once;
  `OnlyLostAttemptsRepeat` says what is left of it.
- *Import*: files whose row was never inserted can be approved and materialised
  (`external_import.py:911`, against `src/docs/u4c-reliability.md:19`).
- *Updates and prose*: a value such as "3 seeds" is classified as a measurement in seconds, so
  no protocol entry binds it, though the docstring of `_classify_candidates` lists it as a
  protocol value; numbers of fewer than four characters without a unit need no
  binding; units are not compared with the fact's; only opening markers of a block
  are counted; `apply_patch` writes without reading the file again after the model's
  answer.
- *Publication*: a repair that inserts lines before `\begin{document}` moves the spans of
  the claims; an author's edit during a repair is overwritten by its rollback; the
  snapshot is taken once per publish, not before each repair as
  `src/docs/V3_ARCHITECTURE.md:37-39` says; a kill between writing and verifying a
  proposal leaves the unverified text.
- *Reviews and gates*: `check_layer_consistency` walks a *set* of kinds, so the verdict on a
  "hardware validated" claim over measured and simulated facts depends on hash order
  (`LayerOrder`); four comparison dimensions have names no run identity has; an
  action's derived status is never "verified" (`DerivedRule`); one failed human
  review fails the layout check, stale or not.
- *Frozen bundles*: a deleted main file is rewritten by a retry with another `created_at` and
  refused for ever; `query.json` and `target.json` are neither registered nor verified;
  damage between the check and the registration would be registered.

## Proofs

All theorems are checked by `tlapm` 1.4.5; they hold for every value of the
constants that satisfies the named assumptions in the modules. Each proof has an
inductive invariant, one lemma per action or kind of action, and theorems that
follow from it by temporal reasoning.

- **ExperimentStoreProofs** has what the rows' transactions do to the coins:
  coins are finite, a reservation adds at most its estimate, a settlement for no
  more than was reserved adds none. The other proofs cite these.
- **LocalStageProofs**: `TypeCorrect`, `LocalBudgetSafe` (`WithinCostLimit`),
  `LocalStagesInOrder`, `LocalRunsAreCharged`, `LocalKeepsLedger` (refinement of
  `BudgetLedger`), `LocalSettledBeforeReturn`; and under one process at a time (`Alone`)
  `LocalNoStageRepeats` and `LocalEligibleIsFresh`. `WithinCostLimit` is not inductive,
  because `SettleRow` has no guard: the invariant has to say that a call between
  its reservation and its settlement *owns* its event - the row is RESERVED with
  the amount of its stage, no other call names it - and that rows of calls that
  went on are CHARGED and stay so. Stage order needs that the stages below that of
  an authorised call have passed. The last two rest on `AloneInv`: a lone call that is
  about to record still finds its stage not passed, and the file it hashes is the one it
  compared. Assumptions: estimates and limit are positive
  (`CostAssumption`), scopes are sets of stages.
- **BackendStageProofs**: `Typed`, `RemoteWithinLimit`, `PaidOnce`, `PassedCounts`,
  `PaidBeforeHandled`, `RemoteKeepsLedger`, all under one handler at a time
  (`\A v, w \in Workers : v = w`), which `ExecutionExcludes` below justifies. The invariant
  relates the handler's place to its row (`HandlerInv`), says that at most one row is
  open (`OneOpen`) and that the hashes of the first reservation are kept
  (`FirstHashKept`): that is why a resumed handler compares with the right ones.
  `FilesImplementHandler` is `FilesSpec => Spec`, without that hypothesis: a step that
  moves files is a stutter of the handler, so all of this holds of `StageFiles` too.
  With it, `LaunchedAsApproved` (`SourceIsApproved`) and `PassedWhole` (`PassedIsWhole`)
  follow from `FilesInv`: a verified binding stands on an approved snapshot that nobody clears
  away under the handler, what it placed on the machine is approved unless an extraction
  it gave up still runs, and no output is missing from what is staged and copied together.
- **ComputeBackendsProofs**: `BackendsTyped`, `RepeatsAreOfLostAttempts`
  (`OnlyLostAttemptsRepeat`),
  `IntentFindsOneJob` (`IntentIsUnambiguous`), `LocalVerdictStands`
  (`LocalVerdictIsFinal`), `DeadlineStands` (`DeadlineIsFinal`), `CleanupStands`
  (`CleanupNeverSucceeds`), `NoShellIsLeft` (`PendingLaunchIsResolved`) and
  `BackendsKeepPromise` (`KeepsPromise`, the refinement of `ComputeJob`), for every
  number of attempts and executions. `CInv` has one part per kind. Four kinds save what
  they learn before they answer and share `Remote`: memory is what is saved
  (`Synced`), and a recorded success is an execution's (`Justified`). On top, an open
  Slurm intent has at most one job, and none while sbatch has not been called
  (`SlurmInv`); a call names the next attempt, and an execution that runs still has
  the name of its own, so that nothing is started beside it (`Reserved`, Docker and
  Kubernetes); a call over SSH has
  its intent
  on record (`SSHInv`); and each flag of a result says what the host or the daemon holds
  (`HostMarks`, `ContainerMarks`). The local kind keeps answers in memory: a nonce belongs
  to one attempt wherever it is written (`OneAttemptPerNonce`), and once a verdict is saved
  the memory of a controller holds that verdict or nothing (`Cached`). For the refinement every action is put in one of three
  forms (`RunStep`: runs stop, one wins, one starts), and the lemma `JobStep` maps these to
  `ComputeJob`. `ReplacedJobIsGone` is refuted by a run, so nothing is proved of it.
- **WorkflowProofs**: `ExecutionExcludes`, `ResultIsKept`, `TerminalStays`, with
  `HolderHasClaim`: whoever runs the agents holds the claim and no result is stored
  yet. `ChainImplementsWorkflow` is the refinement `ChainSpec => Spec`: a step of an
  agent is a stutter of the workflow, an end of the chain one execution.
  `DraftStaysAccounted` needs the shape of a chain's place (`RunShape`), that only
  the holder writes (`OnlyInside`, from `ExecutesAlone`), and that each base a
  writer restores is accounted for (`BasesAreAccounted`). `CompleteMeansDelivered`
  (`CompleteIsDelivered`) follows from `DeliveryInv`: a chain that goes on past an agent has
  left what that agent delivers, a result is complete only at the end of the chain, and
  nobody removes the evidence and the figure it tells of.
- **ReliabilityProofs** has two invariants, one of the imports and one of the updates.
  Imports: `ImportTypes`, `OneMeasurement`, `EvidenceStays`,
  `MismatchStays`. The invariant says that rows and evidence name each other
  (`KeyHeld`, `EvidenceRecorded`) and that an import still in state `materialized` has
  not been approved for anything else since (`StateMatches`): that is why a second
  materialisation finds either its own key or a mismatch. `StagingIsNew` and
  `ReportFirst` keep a late row from reviving an old import.
  Updates: `UpdateTypes`, `AuditTrailHolds` (`RecordsAgree`),
  `AuthorKeepsText` (`OverwritesOnlyOld`), `AppliedWasApproved`
  (`FinishedAsApproved`), `InterruptedIsRepaired` (`InterruptedIsRepairable`). The
  invariant says what a call under way may rely on
  (`CallIsCurrent`): of the manuscript only that what was read is the text it was approved
  for, and that the file itself is that text between the last comparison and the write,
  or the new text once it was verified (`CallText`). It says also that an update being finished is still APPLYING
  (`CallState`): a repair never touches the record of an update that is applied,
  because one that is applied has a baseline (`AppliedHasBaseline`) and is complete.
  `ApprovalInv` says that an update being applied has an approval on file that was
  given: that is why a repair is open to it wherever it stopped.
- **PublicationProofs**: `Typed`, `RepairsLeaveNothing` (`ScienceIsAuthored`),
  `WholeIsReleased`, `ReleasedIsSupported`, `RefusedForCause`, each from an invariant
  of its own over the type invariant: what a rollback restores is authored
  (`ScienceInv`), what a release has read so far is of one publication
  (`ReleaseInv`), and an undisturbed publish leaves files that pass (`PublishInv`,
  `IntactInv`, `RefusalInv`).
- **FrozenReviewProofs**: `Typed`, `RegistryIsFrozen`, `NothingRewritten`,
  `AcknowledgedIsAuthorized`, `FinishedIsAuthorized`, `RefusalHasACause`. The
  invariant says what a freeze under way has written (`FreezeInv`), that intact files
  are the bundle's (`FileInv`), rows follow files (`RowInv`), and an acknowledged
  assessment was current and finished (`AckInv`). `FinishedIsAuthorized` rests on
  `PolicyAssumption`: the policy requires every gate.

The single-writer contract of `src/docs/u4c-reliability.md:215-216` is an assumption of
`ResultUpdate`, `ExternalImport` and `FrozenReview`: one call at a time. The owner's editor
is no such call: `ResultUpdate` lets it save while an apply is under way.

Only model-checked: liveness (`ClaimsEnd`, `CallsEnd`, `InterruptionEnds`), which
the prover does not do, and the pure rules, which are tried on bounded inputs.

## Not modelled, and why

- Wording and layout: prompts, LaTeX scanning, charts, rendering. Text in, text out;
  what a check finds in a text is a set of kinds of phrases or values here.
- Arithmetic of plug-ins and reducers, the layout of JSON files, logs, event tables that
  are only written.
- Providers, command line, MCP servers, skills: input and output around the parts above.
- Remote machines: what ssh, kubectl or sbatch answer is theirs; the backends see it
  through the outcomes of a command.
- Sandboxes, network policies, environment checks: properties of the operating system.
- The web console: one row per child process, which the reader thread and the control
  requests both write (the hazard at `src/frontend/process_manager.py:410`).
- The legacy engine, which `paperforge/` replaces.
- Concurrent writers of manuscripts, imports and frozen bundles: outside of the
  contract quoted above.
- Errors of the program's own bookkeeping: a raise between the claim of a workflow and its
  `try` (`api.py:423-443`), which would leave the claim without a kill and which
  `ClaimsEnd` therefore does not judge; a database that refuses to save the result of a
  launch. The output directory a resume clears before it starts an attempt
  (`compute/docker.py:154-157`) holds no state of the backends' modules except the marker.

## What is left

1. `ProcessManager`: child, reader threads and requests of the web console.
2. Several handlers of one remote job as a violation run, should a document ever
   promise that they may be concurrent; composition of `RuntimeChain` and
   `BackendStage`, which now meet in `ExecutesAlone` only.
3. Proofs: the lemmas behind the pure rules (what a binding covers, what a patch leaves
   alone) for inputs of any size; the files of a stage with several handlers, where
   `FilesInv` has to follow each handler's own staging.
4. Manual records (`record_stage` called by an owner) as an action of `ExperimentStore`.
